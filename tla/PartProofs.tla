----------------------------- MODULE PartProofs -----------------------------
(***************************************************************************)
(* The parts that stand on their own and that the rest of the port uses:   *)
(* the queue Fifo, for any threads, capacities and bursts; the counters of *)
(* Stats with reset() beside them, for any threads, kinds of events and    *)
(* width; the software hashes of SoftHash, for any widths, key, polynomial *)
(* and input.                                                              *)
(***************************************************************************)
EXTENDS Fifo, Stats, HashCalls, SequenceLemmas, TLAPS

-----------------------------------------------------------------------------
(* The loops of the software hashes. *)

\* Division with remainder.
LEMMA DivMod ==
  ASSUME NEW w \in Nat \ {0}, NEW q \in Nat, NEW r \in 0 .. w - 1
  PROVE  (w * q + r) \div w = q /\ (w * q + r) % w = r
  OBVIOUS

\* Quotient and rest of a position.
LEMMA Split ==
  ASSUME NEW w \in Nat \ {0}, NEW n \in Nat
  PROVE  \E q \in Nat, r \in 0 .. w - 1 : n = w * q + r
  <1>1. n \div w \in Nat /\ n % w \in 0 .. w - 1 /\ n = (w * (n \div w)) + (n % w)
    OBVIOUS
  <1> QED
    BY <1>1

\* A finite set with one element more has the other parity.
LEMMA Parity ==
  ASSUME NEW S, IsFiniteSet(S), NEW x, x \notin S
  PROVE  Odd(S \cup {x}) <=> ~Odd(S)
  <1>1. Cardinality(S) \in Nat /\ Cardinality(S \cup {x}) = Cardinality(S) + 1
    BY FS_AddElement, FS_CardinalityType
  <1> QED
    BY <1>1 DEF Odd

\* The rounds of a loop, one at a time.
LEMMA IterateSteps ==
  ASSUME NEW S, NEW loop \in [S -> S], NEW start \in S
  PROVE  /\ Iterate(loop, start, 0) = start
         /\ \A n \in Nat : Iterate(loop, start, n) \in S
         /\ \A n \in Nat : Iterate(loop, start, n + 1) = loop[Iterate(loop, start, n)]
  <1> DEFINE Walk(s) == [m \in Nat |-> IF m = 0 THEN start ELSE loop[s[m - 1]]]
  <1>1. PICK s \in [Nat -> S] : s[0] = start /\ \A n \in Nat : s[n + 1] = loop[s[n]]
    BY Iteration
  <1>2. s = Walk(s)
    <2>1. ASSUME NEW m \in Nat, m # 0 PROVE s[m] = loop[s[m - 1]]
      <3>1. m - 1 \in Nat /\ (m - 1) + 1 = m
        BY <2>1
      <3> QED
        BY <1>1, <3>1
    <2>2. \A m \in Nat : s[m] = IF m = 0 THEN start ELSE loop[s[m - 1]]
      BY <1>1, <2>1
    <2> QED
      BY <2>2
  <1> DEFINE t == CHOOSE f : f = Walk(f)
  <1>3. t = Walk(t)
    BY <1>2
  <1>4. \A n : Iterate(loop, start, n) = t[n]
    BY DEF Iterate
  <1> HIDE DEF t
  <1>5. t[0] = start
    BY <1>3
  <1>6. ASSUME NEW m \in Nat PROVE t[m + 1] = loop[t[m]]
    <2>1. m + 1 \in Nat /\ m + 1 # 0 /\ (m + 1) - 1 = m
      OBVIOUS
    <2>2. t[m + 1] = loop[t[(m + 1) - 1]]
      BY <1>3, <2>1
    <2> QED
      BY <2>1, <2>2
  <1>7. \A m \in Nat : t[m] \in S
    <2> DEFINE T == {m \in Nat : t[m] \in S}
    <2>1. 0 \in T
      BY <1>5
    <2>2. ASSUME NEW m \in Nat, m \in T PROVE m + 1 \in T
      BY <1>6, <2>2
    <2> HIDE DEF T
    <2>3. Nat \subseteq T
      BY <2>1, <2>2, NumberInduction
    <2> QED
      BY <2>3 DEF T
  <1> QED
    BY <1>4, <1>5, <1>6, <1>7

\* A bit of a sequence of bytes is a bit of one of its bytes.
LEMMA BitOfByte ==
  ASSUME NEW bytes, NEW i \in Nat, NEW r \in 0 .. ByteBits - 1
  PROVE  /\ HighFirst(bytes, ByteBits * i + r) <=> ByteBits - 1 - r \in Bits(bytes[i + 1])
         /\ LowFirst(bytes, ByteBits * i + r) <=> r \in Bits(bytes[i + 1])
  <1>1. (ByteBits * i + r) \div ByteBits = i /\ (ByteBits * i + r) % ByteBits = r
    BY DivMod, SoftHashAssumption
  <1>2. 1 + i = i + 1
    OBVIOUS
  <1> QED
    BY <1>1, <1>2 DEF HighFirst, LowFirst

\* The widths, and the places of the bits.
LEMMA Widths ==
  /\ ByteBits \in Nat \ {0} /\ WordBytes \in Nat \ {0} /\ KeyBytes \in Nat \ {0}
  /\ WordBits = ByteBits * WordBytes /\ WordBits \in Nat /\ WordBits >= ByteBits
  /\ \A x : Bits(x) \subseteq 0 .. ByteBits - 1
  /\ \A x : Bits(x) \subseteq Word /\ Bits(x) \subseteq Window
  <1>1. ByteBits \in Nat \ {0} /\ WordBytes \in Nat \ {0} /\ KeyBytes \in Nat \ {0}
    BY SoftHashAssumption
  <1>2. WordBits = ByteBits * WordBytes /\ WordBits \in Nat
    BY <1>1 DEF WordBits
  <1>3. WordBits >= ByteBits
    <2>1. PICK k \in Nat : WordBytes = k + 1
      BY <1>1
    <2>2. WordBits = ByteBits * k + ByteBits /\ ByteBits * k \in Nat
      BY <1>1, <1>2, <2>1
    <2> QED
      BY <1>1, <2>2
  <1>4. \A x : Bits(x) \subseteq 0 .. ByteBits - 1
    BY DEF Bits
  <1>5. 0 .. ByteBits - 1 \subseteq Word /\ 0 .. ByteBits - 1 \subseteq Window
    BY <1>1, <1>2, <1>3 DEF Word, Window
  <1> QED
    BY <1>1, <1>2, <1>3, <1>4, <1>5

\* The counters of the nested loops count the rounds.
LEMMA AdvanceCounts ==
  ASSUME NEW at \in LoopCounters, NEW n \in Nat, n = ByteBits * at.i + at.bit
  PROVE  /\ Advance(at) \in LoopCounters
         /\ n + 1 = ByteBits * Advance(at).i + Advance(at).bit
         /\ NextByte(at) => /\ at.bit = ByteBits - 1
                            /\ Advance(at).i = at.i + 1 /\ Advance(at).bit = 0
         /\ ~NextByte(at) => /\ Advance(at).i = at.i /\ Advance(at).bit = at.bit + 1
                             /\ at.bit + 1 <= ByteBits - 1
  <1>1. at.i \in Nat /\ at.bit \in 0 .. ByteBits - 1 /\ ByteBits \in Nat \ {0}
    BY Widths DEF LoopCounters
  <1>2. ByteBits * (at.i + 1) = ByteBits * at.i + ByteBits /\ ByteBits * at.i \in Nat
    BY <1>1
  <1>3. CASE NextByte(at)
    <2>1. Advance(at) = [i |-> at.i + 1, bit |-> 0] /\ at.bit = ByteBits - 1
      BY <1>3 DEF Advance, NextByte
    <2>2. Advance(at) \in LoopCounters
      BY <1>1, <2>1 DEF LoopCounters
    <2> QED
      BY <1>1, <1>2, <1>3, <2>1, <2>2
  <1>4. CASE ~NextByte(at)
    <2>1. Advance(at) = [i |-> at.i, bit |-> at.bit + 1] /\ at.bit # ByteBits - 1
      BY <1>4 DEF Advance, NextByte
    <2>2. Advance(at) \in LoopCounters
      BY <1>1, <2>1 DEF LoopCounters
    <2> QED
      BY <1>1, <1>2, <1>4, <2>1, <2>2
  <1> QED
    BY <1>3, <1>4

-----------------------------------------------------------------------------
(* The Toeplitz hash. *)

ToeplitzStates == [at : LoopCounters, prefix : SUBSET Window, hash : SUBSET Word]

\* The input bits among the first n for which bit b of the hash is flipped
Flips(k, d, n, b) ==
  {m \in 0 .. n - 1 : HighFirst(d, m) /\ HighFirst(k, m + WordBits - 1 - b)}

\* The loop after n rounds.  The window holds the key bits from n on, but for
\* the lowest ones, which the byte at hand has left empty, and for those
\* beyond the end of the key.
ToeplitzRound(k, d, n, s) ==
  /\ s \in ToeplitzStates
  /\ n = ByteBits * s.at.i + s.at.bit
  /\ \A p \in Window : p \in s.prefix <=>
       /\ p >= s.at.bit
       /\ n + 2 * WordBits - 1 - p < ByteBits * KeyBytes
       /\ HighFirst(k, n + 2 * WordBits - 1 - p)
  /\ \A b \in Word : b \in s.hash <=> Odd(Flips(k, d, n, b))

\* The locals of key320_hash_calc keep their types over a round.
LEMMA ToeplitzLoopType ==
  ASSUME NEW k, NEW d
  PROVE  ToeplitzLoop(k, d) \in [ToeplitzStates -> ToeplitzStates]
  <1> SUFFICES ASSUME NEW s \in ToeplitzStates
               PROVE  ToeplitzLoop(k, d)[s] \in ToeplitzStates
    BY DEF ToeplitzLoop, ToeplitzStates
  <1> DEFINE upper   == {b \in Word : b + WordBits \in s.prefix}
             shifted == Shifted(s.prefix, 1) \cap Window
             below   == NextKeyByte(k, 2 * WordBytes + s.at.i)
             next    == [at     |-> Advance(s.at),
                         prefix |-> IF NextByte(s.at) THEN shifted \cup below ELSE shifted,
                         hash   |-> IF ByteBits - 1 - s.at.bit \in Bits(d[s.at.i + 1])
                                      THEN Xor(s.hash, upper) ELSE s.hash]
  <1>1. ToeplitzLoop(k, d)[s] = next
    BY DEF ToeplitzLoop, ToeplitzStates
  <1>2. s.at \in LoopCounters /\ s.hash \subseteq Word
    BY DEF ToeplitzStates
  <1>3. Advance(s.at) \in LoopCounters
    <2>1. s.at.i \in Nat /\ s.at.bit \in 0 .. ByteBits - 1 /\ ByteBits \in Nat
      BY <1>2, Widths DEF LoopCounters
    <2>2. ByteBits * s.at.i + s.at.bit \in Nat
      BY <2>1
    <2> QED
      BY <1>2, <2>2, AdvanceCounts
  <1>4. below \subseteq Window
    BY Widths DEF NextKeyByte
  <1>5. Xor(s.hash, upper) \subseteq Word
    BY <1>2 DEF Xor
  <1> HIDE DEF below, upper
  <1>6. next \in ToeplitzStates
    BY <1>2, <1>3, <1>4, <1>5 DEF ToeplitzStates
  <1> QED
    BY <1>1, <1>6

\* The window is loaded with the first two words of the key.
LEMMA ToeplitzStart ==
  ASSUME NEW k, NEW d
  PROVE  ToeplitzRound(k, d, 0,
           [at |-> [i |-> 0, bit |-> 0],
            prefix |-> UNION {Shifted(Bits(k[i]), ByteBits * (2 * WordBytes - i)) : i \in 1..(2 * WordBytes)},
            hash |-> {}])
  <1> DEFINE prefix == UNION {Shifted(Bits(k[i]), ByteBits * (2 * WordBytes - i)) : i \in 1..(2 * WordBytes)}
             at == [i |-> 0, bit |-> 0]
             s == [at |-> at, prefix |-> prefix, hash |-> {}]
  <1>1. /\ ByteBits \in Nat \ {0} /\ WordBytes \in Nat \ {0} /\ KeyBytes \in Nat \ {0}
        /\ WordBits = ByteBits * WordBytes /\ WordBits \in Nat /\ KeyBytes >= 2 * WordBytes
    BY Widths, SoftHashAssumption
  <1>2. ASSUME NEW i \in 1 .. 2 * WordBytes, NEW b \in 0 .. ByteBits - 1
        PROVE  /\ ByteBits * (2 * WordBytes - i) + b \in Window
               /\ 2 * WordBits - 1 - (ByteBits * (2 * WordBytes - i) + b)
                     = ByteBits * (i - 1) + (ByteBits - 1 - b)
    <2>1. ByteBits * (2 * WordBytes - i) = 2 * WordBits - ByteBits * i
      BY <1>1
    <2>2. ByteBits * (i - 1) = ByteBits * i - ByteBits /\ ByteBits * i \in Nat
      BY <1>1
    <2>3. ByteBits * (i - 1) \in Nat /\ ByteBits * (2 * WordBytes - i) \in Nat
      BY <1>1
    <2> QED
      BY <1>1, <2>1, <2>2, <2>3 DEF Window
  <1>3. ASSUME NEW p \in Window
        PROVE  \E i \in 1 .. 2 * WordBytes, b \in 0 .. ByteBits - 1 :
                 p = ByteBits * (2 * WordBytes - i) + b
    <2>1. p \in Nat /\ p < 2 * WordBits
      BY <1>1 DEF Window
    <2>2. PICK q \in Nat, r \in 0 .. ByteBits - 1 : p = ByteBits * q + r
      BY <1>1, <2>1, Split
    <2>3. q < 2 * WordBytes
      <3>1. SUFFICES ASSUME q >= 2 * WordBytes PROVE FALSE
        BY <1>1
      <3>2. PICK e \in Nat : q = 2 * WordBytes + e
        BY <1>1, <3>1
      <3>3. ByteBits * q = 2 * WordBits + ByteBits * e /\ ByteBits * e \in Nat
        BY <1>1, <3>2
      <3> QED
        BY <1>1, <2>1, <2>2, <3>3
    <2>4. 2 * WordBytes - q \in 1 .. 2 * WordBytes /\ 2 * WordBytes - (2 * WordBytes - q) = q
      BY <1>1, <2>3
    <2> QED
      BY <2>2, <2>4
  <1>4. ASSUME NEW i \in 1 .. 2 * WordBytes, NEW b \in 0 .. ByteBits - 1
        PROVE  ByteBits * (2 * WordBytes - i) + b \in prefix <=> b \in Bits(k[i])
    <2>1. ASSUME b \in Bits(k[i]) PROVE ByteBits * (2 * WordBytes - i) + b \in prefix
      <3>1. b + ByteBits * (2 * WordBytes - i) = ByteBits * (2 * WordBytes - i) + b
        BY <1>1
      <3>2. b + ByteBits * (2 * WordBytes - i) \in Shifted(Bits(k[i]), ByteBits * (2 * WordBytes - i))
        BY <2>1 DEF Shifted
      <3> QED
        BY <3>1, <3>2
    <2>2. ASSUME ByteBits * (2 * WordBytes - i) + b \in prefix PROVE b \in Bits(k[i])
      <3>1. PICK j \in 1 .. 2 * WordBytes :
              ByteBits * (2 * WordBytes - i) + b \in Shifted(Bits(k[j]), ByteBits * (2 * WordBytes - j))
        BY <2>2
      <3>2. PICK c \in Bits(k[j]) :
              ByteBits * (2 * WordBytes - i) + b = c + ByteBits * (2 * WordBytes - j)
        BY <3>1 DEF Shifted
      <3>3. c \in 0 .. ByteBits - 1
        BY Widths
      <3>4. ByteBits * (2 * WordBytes - i) + b = ByteBits * (2 * WordBytes - j) + c
        BY <1>1, <3>2, <3>3
      <3>5. 2 * WordBytes - i \in Nat /\ 2 * WordBytes - j \in Nat
        BY <1>1
      <3>6. 2 * WordBytes - i = 2 * WordBytes - j /\ b = c
        BY <1>1, <3>3, <3>4, <3>5, DivMod
      <3>7. i = j
        BY <1>1, <3>6
      <3> QED
        BY <3>6, <3>7
    <2> QED
      BY <2>1, <2>2
  <1>5. prefix \subseteq Window
    <2>1. ASSUME NEW p \in prefix PROVE p \in Window
      <3>1. PICK i \in 1 .. 2 * WordBytes : p \in Shifted(Bits(k[i]), ByteBits * (2 * WordBytes - i))
        OBVIOUS
      <3>2. PICK b \in Bits(k[i]) : p = b + ByteBits * (2 * WordBytes - i)
        BY <3>1 DEF Shifted
      <3>3. b \in 0 .. ByteBits - 1
        BY Widths
      <3>4. p = ByteBits * (2 * WordBytes - i) + b
        BY <1>1, <3>2, <3>3
      <3> QED
        BY <1>2, <3>3, <3>4
    <2> QED
      BY <2>1
  <1> HIDE DEF prefix
  <1>6. ASSUME NEW p \in Window
        PROVE  p \in prefix <=> /\ p >= 0
                                /\ 0 + 2 * WordBits - 1 - p < ByteBits * KeyBytes
                                /\ HighFirst(k, 0 + 2 * WordBits - 1 - p)
    <2>1. PICK i \in 1 .. 2 * WordBytes, b \in 0 .. ByteBits - 1 :
             p = ByteBits * (2 * WordBytes - i) + b
      BY <1>3
    <2>2. 2 * WordBits - 1 - p = ByteBits * (i - 1) + (ByteBits - 1 - b)
      BY <1>2, <2>1
    <2>3. p \in prefix <=> b \in Bits(k[i])
      BY <1>4, <2>1
    <2>4. i - 1 \in Nat /\ (i - 1) + 1 = i /\ ByteBits - 1 - b \in 0 .. ByteBits - 1
          /\ ByteBits - 1 - (ByteBits - 1 - b) = b
      BY <1>1
    <2>5. HighFirst(k, ByteBits * (i - 1) + (ByteBits - 1 - b)) <=> b \in Bits(k[i])
      BY <2>4, BitOfByte
    <2>6. p \in Nat /\ p < 2 * WordBits
      BY <1>1 DEF Window
    <2>7. 2 * WordBits <= ByteBits * KeyBytes
      <3>1. PICK e \in Nat : KeyBytes = 2 * WordBytes + e
        BY <1>1
      <3>2. ByteBits * KeyBytes = 2 * WordBits + ByteBits * e /\ ByteBits * e \in Nat
        BY <1>1, <3>1
      <3> QED
        BY <1>1, <3>2
    <2>8. 0 + 2 * WordBits - 1 - p = 2 * WordBits - 1 - p /\ 2 * WordBits - 1 - p < ByteBits * KeyBytes
      BY <1>1, <2>6, <2>7
    <2> QED
      BY <2>2, <2>3, <2>5, <2>6, <2>8
  <1>7. \A b \in Word : ~Odd(Flips(k, d, 0, b))
    <2>1. \A b \in Word : Flips(k, d, 0, b) = {}
      BY DEF Flips
    <2>2. ~Odd({})
      BY FS_EmptySet DEF Odd
    <2> QED
      BY <2>1, <2>2
  <1>8. s \in ToeplitzStates /\ 0 = ByteBits * s.at.i + s.at.bit
    <2>1. at \in LoopCounters /\ at.i = 0 /\ at.bit = 0
      BY <1>1 DEF LoopCounters
    <2> HIDE DEF at
    <2> QED
      BY <1>1, <1>5, <2>1 DEF ToeplitzStates
  <1> QED
    BY <1>6, <1>7, <1>8 DEF ToeplitzRound, prefix

\* One round: the upper word of the window holds the key bits of the row that
\* input bit n selects, and the window moves on by one key bit.
LEMMA ToeplitzStep ==
  ASSUME NEW k, NEW d, Len(d) \in Nat, Len(d) + WordBytes <= KeyBytes,
         NEW n \in Nat, n < ByteBits * Len(d), NEW s, ToeplitzRound(k, d, n, s)
  PROVE  ToeplitzRound(k, d, n + 1, ToeplitzLoop(k, d)[s])
  <1> DEFINE i       == s.at.i
             bit     == s.at.bit
             upper   == {b \in Word : b + WordBits \in s.prefix}
             shifted == Shifted(s.prefix, 1) \cap Window
             below   == NextKeyByte(k, 2 * WordBytes + i)
             t       == ToeplitzLoop(k, d)[s]
             KeyBit(m) == m < ByteBits * KeyBytes /\ HighFirst(k, m)
  <1>1. /\ ByteBits \in Nat \ {0} /\ WordBytes \in Nat \ {0} /\ KeyBytes \in Nat \ {0}
        /\ WordBits = ByteBits * WordBytes /\ WordBits \in Nat /\ WordBits >= ByteBits
    BY Widths
  <1>2. /\ s \in ToeplitzStates /\ s.at \in LoopCounters /\ s.prefix \subseteq Window /\ s.hash \subseteq Word
        /\ i \in Nat /\ bit \in 0 .. ByteBits - 1
        /\ n = ByteBits * i + bit
    BY DEF ToeplitzRound, ToeplitzStates, LoopCounters
  <1>3. \A p \in Window : p \in s.prefix <=> p >= bit /\ KeyBit(n + 2 * WordBits - 1 - p)
    BY DEF ToeplitzRound
  <1>4. \A b \in Word : b \in s.hash <=> Odd(Flips(k, d, n, b))
    BY DEF ToeplitzRound
  <1>5. /\ t.at = Advance(s.at)
        /\ t.prefix = IF NextByte(s.at) THEN shifted \cup below ELSE shifted
        /\ t.hash = IF ByteBits - 1 - bit \in Bits(d[i + 1]) THEN Xor(s.hash, upper) ELSE s.hash
    BY <1>2 DEF ToeplitzLoop, ToeplitzStates
  <1>6. t \in ToeplitzStates
    BY <1>2, ToeplitzLoopType
  <1>7. /\ n + 1 = ByteBits * t.at.i + t.at.bit
        /\ NextByte(s.at) => bit = ByteBits - 1 /\ t.at.i = i + 1 /\ t.at.bit = 0
        /\ ~NextByte(s.at) => t.at.i = i /\ t.at.bit = bit + 1 /\ bit + 1 <= ByteBits - 1
    BY <1>2, <1>5, AdvanceCounts
  <1> HIDE DEF t, KeyBit, i, bit
  <1>8. ASSUME NEW p \in Window
        PROVE  p \in shifted <=> p >= bit + 1 /\ KeyBit(n + 1 + 2 * WordBits - 1 - p)
    <2>1. p \in Nat /\ p <= 2 * WordBits - 1
      BY <1>1 DEF Window
    <2>2. p \in shifted <=> p - 1 \in s.prefix
      <3>1. ASSUME p \in shifted PROVE p - 1 \in s.prefix
        <4>1. PICK c \in s.prefix : p = c + 1
          BY <3>1 DEF Shifted
        <4>2. c \in Nat /\ c = p - 1
          BY <1>2, <4>1 DEF Window
        <4> QED
          BY <4>2
      <3>2. ASSUME p - 1 \in s.prefix PROVE p \in shifted
        <4>1. p = (p - 1) + 1
          BY <2>1
        <4> QED
          BY <3>2, <4>1 DEF Shifted
      <3> QED
        BY <3>1, <3>2
    <2>3. CASE p = 0
      <3>1. p - 1 \notin Window /\ ~(p >= bit + 1)
        BY <1>1, <1>2, <2>3 DEF Window
      <3> QED
        BY <1>2, <2>2, <3>1
    <2>4. CASE p >= 1
      <3>1. p - 1 \in Window /\ (p - 1 >= bit <=> p >= bit + 1)
            /\ n + 2 * WordBits - 1 - (p - 1) = n + 1 + 2 * WordBits - 1 - p
        BY <1>1, <1>2, <2>1, <2>4 DEF Window
      <3> QED
        BY <1>3, <2>2, <3>1
    <2> QED
      BY <2>1, <2>3, <2>4
  <1> HIDE DEF shifted
  <1>9. ASSUME NEW p \in 0 .. ByteBits - 1, NextByte(s.at)
        PROVE  p \in below <=> KeyBit(n + 1 + 2 * WordBits - 1 - p)
    <2>1. n + 1 + 2 * WordBits - 1 - p = ByteBits * (2 * WordBytes + i) + (ByteBits - 1 - p)
      <3>1. ByteBits * (2 * WordBytes + i) = 2 * WordBits + ByteBits * i
        BY <1>1, <1>2
      <3>2. n = ByteBits * i + (ByteBits - 1) /\ ByteBits * i \in Nat
        BY <1>1, <1>2, <1>7, <1>9
      <3> QED
        BY <1>1, <1>2, <3>1, <3>2
    <2>2. 2 * WordBytes + i \in Nat /\ ByteBits - 1 - p \in 0 .. ByteBits - 1
          /\ ByteBits - 1 - (ByteBits - 1 - p) = p
      BY <1>1, <1>2
    <2>3. HighFirst(k, ByteBits * (2 * WordBytes + i) + (ByteBits - 1 - p))
             <=> p \in Bits(k[(2 * WordBytes + i) + 1])
      BY <2>2, BitOfByte
    <2>4. ByteBits * (2 * WordBytes + i) + (ByteBits - 1 - p) < ByteBits * KeyBytes
             <=> 2 * WordBytes + i < KeyBytes
      <3> DEFINE q == 2 * WordBytes + i
                 r == ByteBits - 1 - p
      <3> HIDE DEF q, r
      <3>1. q \in Nat /\ r \in 0 .. ByteBits - 1
        BY <2>2 DEF q, r
      <3>2. ASSUME q < KeyBytes PROVE ByteBits * q + r < ByteBits * KeyBytes
        <4>1. PICK e \in Nat : KeyBytes = q + 1 + e
          BY <1>1, <3>1, <3>2
        <4>2. ByteBits * KeyBytes = ByteBits * q + ByteBits + ByteBits * e /\ ByteBits * e \in Nat
          BY <1>1, <3>1, <4>1
        <4> QED
          BY <1>1, <3>1, <4>2
      <3>3. ASSUME ~(q < KeyBytes) PROVE ~(ByteBits * q + r < ByteBits * KeyBytes)
        <4>1. PICK e \in Nat : q = KeyBytes + e
          BY <1>1, <3>1, <3>3
        <4>2. ByteBits * q = ByteBits * KeyBytes + ByteBits * e /\ ByteBits * e \in Nat
          BY <1>1, <3>1, <4>1
        <4> QED
          BY <1>1, <3>1, <4>2
      <3> QED
        BY <3>2, <3>3 DEF q, r
    <2> QED
      BY <2>1, <2>3, <2>4 DEF KeyBit, NextKeyByte
  <1>10. below \subseteq 0 .. ByteBits - 1
    BY Widths DEF NextKeyByte
  <1> HIDE DEF below
  <1>11. ASSUME NEW p \in Window
         PROVE  p \in t.prefix <=> p >= t.at.bit /\ KeyBit(n + 1 + 2 * WordBits - 1 - p)
    <2>1. p \in Nat
      BY <1>1 DEF Window
    <2>2. CASE ~NextByte(s.at)
      BY <1>5, <1>7, <1>8, <2>2
    <2>3. CASE NextByte(s.at)
      <3>1. t.prefix = shifted \cup below /\ t.at.bit = 0 /\ bit = ByteBits - 1
        BY <1>5, <1>7, <2>3
      <3>2. CASE p \in 0 .. ByteBits - 1
        <4>1. p \notin shifted
          BY <1>1, <1>8, <3>1, <3>2
        <4> QED
          BY <1>9, <2>1, <2>3, <3>1, <3>2, <4>1
      <3>3. CASE p \notin 0 .. ByteBits - 1
        <4>1. p >= bit + 1 /\ p >= 0
          BY <1>1, <2>1, <3>1, <3>3
        <4> QED
          BY <1>8, <1>10, <3>1, <3>3, <4>1
      <3> QED
        BY <3>2, <3>3
    <2> QED
      BY <2>2, <2>3
  <1>12. ASSUME NEW b \in Word
         PROVE  b \in upper <=> HighFirst(k, n + WordBits - 1 - b)
    <2>1. b \in Nat /\ b <= WordBits - 1
      BY <1>1 DEF Word
    <2>2. b + WordBits \in Window /\ b + WordBits >= bit
          /\ n + 2 * WordBits - 1 - (b + WordBits) = n + WordBits - 1 - b
      BY <1>1, <1>2, <2>1 DEF Window
    <2>3. n + WordBits - 1 - b < ByteBits * KeyBytes
      <3>1. PICK e \in Nat : KeyBytes = Len(d) + WordBytes + e
        BY <1>1
      <3>2. ByteBits * KeyBytes = ByteBits * Len(d) + WordBits + ByteBits * e /\ ByteBits * e \in Nat
        BY <1>1, <3>1
      <3>3. ByteBits * Len(d) \in Nat
        BY <1>1
      <3> QED
        BY <1>1, <2>1, <3>2, <3>3
    <2> QED
      BY <1>3, <2>2, <2>3 DEF KeyBit
  <1> HIDE DEF upper
  <1>13. HighFirst(d, n) <=> ByteBits - 1 - bit \in Bits(d[i + 1])
    BY <1>2, BitOfByte
  <1>14. ASSUME NEW b \in Word PROVE b \in t.hash <=> Odd(Flips(k, d, n + 1, b))
    <2>1. IsFiniteSet(Flips(k, d, n, b)) /\ n \notin Flips(k, d, n, b)
      <3>1. Flips(k, d, n, b) \subseteq 0 .. n - 1 /\ n \notin 0 .. n - 1
        BY DEF Flips
      <3>2. IsFiniteSet(0 .. n - 1)
        BY FS_Interval
      <3> QED
        BY <3>1, <3>2, FS_Subset
    <2>2. 0 .. (n + 1) - 1 = (0 .. n - 1) \cup {n}
      OBVIOUS
    <2>3. CASE HighFirst(d, n) /\ HighFirst(k, n + WordBits - 1 - b)
      <3>1. Flips(k, d, n + 1, b) = Flips(k, d, n, b) \cup {n}
        BY <2>2, <2>3 DEF Flips
      <3>2. Odd(Flips(k, d, n + 1, b)) <=> ~Odd(Flips(k, d, n, b))
        BY <2>1, <3>1, Parity
      <3>3. t.hash = Xor(s.hash, upper) /\ b \in upper
        BY <1>5, <1>12, <1>13, <2>3
      <3> QED
        BY <1>4, <3>2, <3>3 DEF Xor
    <2>4. CASE ~(HighFirst(d, n) /\ HighFirst(k, n + WordBits - 1 - b))
      <3>1. Flips(k, d, n + 1, b) = Flips(k, d, n, b)
        BY <2>2, <2>4 DEF Flips
      <3>2. b \in t.hash <=> b \in s.hash
        BY <1>5, <1>12, <1>13, <2>4 DEF Xor
      <3> QED
        BY <1>4, <3>1, <3>2
    <2> QED
      BY <2>3, <2>4
  <1> QED
    BY <1>6, <1>7, <1>11, <1>14 DEF ToeplitzRound, KeyBit, t

\* key320_hash_calc is the Toeplitz hash of every input that leaves one word
\* of the key.
LEMMA ToeplitzExact ==
  ASSUME NEW k, NEW d, Len(d) \in Nat, Len(d) + WordBytes <= KeyBytes
  PROVE  key320_hash_calc(k, d) = Toeplitz(k, d)
  <1> DEFINE prefix == UNION {Shifted(Bits(k[i]), ByteBits * (2 * WordBytes - i)) : i \in 1..(2 * WordBytes)}
             start == [at |-> [i |-> 0, bit |-> 0], prefix |-> prefix, hash |-> {}]
             State(n) == Iterate(ToeplitzLoop(k, d), start, n)
             length == ByteBits * Len(d)
             T == {n \in Nat : n <= length => ToeplitzRound(k, d, n, State(n))}
  <1>1. ToeplitzRound(k, d, 0, start)
    BY ToeplitzStart
  <1>2. key320_hash_calc(k, d) = State(length).hash
    BY DEF key320_hash_calc
  <1> HIDE DEF start
  <1>3. start \in ToeplitzStates
    BY <1>1 DEF ToeplitzRound
  <1>4. State(0) = start /\ \A n \in Nat : State(n + 1) = ToeplitzLoop(k, d)[State(n)]
    BY <1>3, ToeplitzLoopType, IterateSteps
  <1> HIDE DEF State
  <1>5. length \in Nat
    BY Widths
  <1>6. 0 \in T
    BY <1>1, <1>4
  <1>7. ASSUME NEW n \in Nat, n \in T PROVE n + 1 \in T
    <2>1. SUFFICES ASSUME n + 1 <= length PROVE ToeplitzRound(k, d, n + 1, State(n + 1))
      OBVIOUS
    <2>2. n < length /\ ToeplitzRound(k, d, n, State(n))
      BY <1>5, <1>7, <2>1
    <2> QED
      BY <1>4, <2>2, ToeplitzStep
  <1> HIDE DEF T
  <1>8. length \in T
    BY <1>5, <1>6, <1>7, NumberInduction
  <1>9. ToeplitzRound(k, d, length, State(length))
    BY <1>5, <1>8 DEF T
  <1>10. /\ State(length).hash \subseteq Word
         /\ \A b \in Word : b \in State(length).hash <=> Odd(Flips(k, d, length, b))
    BY <1>9 DEF ToeplitzRound, ToeplitzStates
  <1>11. \A b \in Word : b \in Toeplitz(k, d) <=> Odd(Flips(k, d, length, b))
    BY DEF Toeplitz, Flips, Positions
  <1>12. Toeplitz(k, d) \subseteq Word
    BY DEF Toeplitz
  <1> QED
    BY <1>2, <1>10, <1>11, <1>12

-----------------------------------------------------------------------------
(* The CRC. *)

CrcStates == [at : LoopCounters, crc : SUBSET Word]

\* The message bits that the loop has not yet added to the register: it adds
\* a byte before the first of its bits is divided out
Unread(d, at) ==
  {m \in Positions(d) : /\ m >= ByteBits * (IF at.bit = 0 THEN at.i ELSE at.i + 1)
                        /\ LowFirst(d, m)}

\* The terms of the product of the quotient and the generator at position p
Terms(quotient, p) == {m \in quotient : p - m \in Generator}

\* The loop after n rounds: dividend, register and unread message differ by a
\* multiple of the generator
CrcRound(d, seed, n, s) ==
  /\ s \in CrcStates
  /\ n = ByteBits * s.at.i + s.at.bit
  /\ \E quotient \in SUBSET (0 .. n - 1) : \A p \in Nat :
       p \in Xor(Xor(Dividend(d, seed), Shifted(s.crc, n)), Unread(d, s.at))
         <=> Odd(Terms(quotient, p))

\* The bits of a word moved by some positions.
LEMMA ShiftedMember ==
  ASSUME NEW w \in SUBSET Int, NEW n \in Int, NEW p \in Int
  PROVE  p \in Shifted(w, n) <=> p - n \in w
  <1>1. ASSUME p \in Shifted(w, n) PROVE p - n \in w
    <2>1. PICK b \in w : p = b + n
      BY <1>1 DEF Shifted
    <2>2. b = p - n
      BY <2>1
    <2> QED
      BY <2>2
  <1>2. ASSUME p - n \in w PROVE p \in Shifted(w, n)
    <2>1. p = (p - n) + n
      OBVIOUS
    <2> QED
      BY <1>2, <2>1 DEF Shifted
  <1> QED
    BY <1>1, <1>2

\* The bits of an exclusive or.
LEMMA XorMember ==
  \A v, w, x : x \in Xor(v, w) <=> ~(x \in v <=> x \in w)
  BY DEF Xor

\* The bits of the register after one shift of crc32_calc.
LEMMA CrcShiftMember ==
  ASSUME NEW crc \in SUBSET Word, NEW b \in Int
  PROVE  /\ CrcShift(crc) \in SUBSET Word
         /\ 0 \in crc => (b \in CrcShift(crc) <=> ~(b >= 0 /\ b + 1 \in crc <=> b \in Polynomial))
         /\ 0 \notin crc => (b \in CrcShift(crc) <=> b >= 0 /\ b + 1 \in crc)
  <1> DEFINE shifted == {c \in Word : c + 1 \in crc}
  <1>1. CrcShift(crc) = IF 0 \in crc THEN Xor(shifted, Polynomial) ELSE shifted
    BY DEF CrcShift
  <1>2. b \in shifted <=> b >= 0 /\ b + 1 \in crc
    <2>1. WordBits \in Nat
      BY Widths
    <2>2. b >= 0 /\ b + 1 \in crc => b \in Word
      BY <2>1 DEF Word
    <2>3. b \in Word => b >= 0
      BY <2>1 DEF Word
    <2> QED
      BY <2>2, <2>3
  <1>3. shifted \subseteq Word /\ Polynomial \subseteq Word
    BY SoftHashAssumption
  <1> HIDE DEF shifted
  <1>4. Xor(shifted, Polynomial) \subseteq Word
    BY <1>3 DEF Xor
  <1>5. b \in Xor(shifted, Polynomial) <=> ~(b \in shifted <=> b \in Polynomial)
    BY XorMember, Zenon
  <1>6. CASE 0 \in crc
    BY <1>1, <1>2, <1>4, <1>5, <1>6
  <1>7. CASE 0 \notin crc
    BY <1>1, <1>2, <1>3, <1>7
  <1> QED
    BY <1>6, <1>7

\* The powers of the generator: the implicit top one and those of the constant.
LEMMA GeneratorMember ==
  ASSUME NEW b \in Int
  PROVE  b \in Generator <=> b = 0 \/ b - 1 \in Polynomial
  <1>1. Polynomial \subseteq Int
    BY SoftHashAssumption, Widths DEF Word
  <1>2. b \in Shifted(Polynomial, 1) <=> b - 1 \in Polynomial
    BY <1>1, ShiftedMember
  <1> QED
    BY <1>2 DEF Generator

\* A quotient with one term more.
LEMMA TermsAdd ==
  ASSUME NEW n \in Nat, NEW quotient \in SUBSET (0 .. n - 1), NEW p \in Nat
  PROVE  Odd(Terms(quotient \cup {n}, p)) <=> ~(Odd(Terms(quotient, p)) <=> p - n \in Generator)
  <1>1. IsFiniteSet(Terms(quotient, p)) /\ n \notin Terms(quotient, p)
    <2>1. Terms(quotient, p) \subseteq 0 .. n - 1
      BY Zenon DEF Terms
    <2>2. n \notin 0 .. n - 1 /\ IsFiniteSet(0 .. n - 1)
      BY FS_Interval
    <2> QED
      BY <2>1, <2>2, FS_Subset
  <1>2. CASE p - n \in Generator
    <2>1. Terms(quotient \cup {n}, p) = Terms(quotient, p) \cup {n}
      BY <1>2 DEF Terms
    <2>2. Odd(Terms(quotient \cup {n}, p)) <=> ~Odd(Terms(quotient, p))
      BY <1>1, <2>1, Parity
    <2> QED
      BY <1>2, <2>2
  <1>3. CASE p - n \notin Generator
    <2>1. Terms(quotient \cup {n}, p) = Terms(quotient, p)
      BY <1>3 DEF Terms
    <2> QED
      BY <1>3, <2>1
  <1> QED
    BY <1>2, <1>3

\* The locals of crc32_calc keep their types over a round.
LEMMA CrcLoopType ==
  ASSUME NEW d
  PROVE  CrcLoop(d) \in [CrcStates -> CrcStates]
  <1> SUFFICES ASSUME NEW s \in CrcStates
               PROVE  CrcLoop(d)[s] \in CrcStates
    BY DEF CrcLoop, CrcStates
  <1> DEFINE crc == IF s.at.bit = 0 THEN Xor(s.crc, Bits(d[s.at.i + 1])) ELSE s.crc
  <1>1. CrcLoop(d)[s] = [at |-> Advance(s.at), crc |-> CrcShift(crc)]
    BY DEF CrcLoop, CrcStates
  <1>2. s.at \in LoopCounters /\ s.crc \subseteq Word
    BY DEF CrcStates
  <1>3. Advance(s.at) \in LoopCounters
    <2>1. s.at.i \in Nat /\ s.at.bit \in 0 .. ByteBits - 1 /\ ByteBits \in Nat
      BY <1>2, Widths DEF LoopCounters
    <2>2. ByteBits * s.at.i + s.at.bit \in Nat
      BY <2>1
    <2> QED
      BY <1>2, <2>2, AdvanceCounts
  <1>4. crc \in SUBSET Word
    BY <1>2, Widths DEF Xor
  <1> HIDE DEF crc
  <1>5. CrcShift(crc) \in SUBSET Word
    BY <1>4, CrcShiftMember
  <1> QED
    BY <1>1, <1>3, <1>5 DEF CrcStates

\* Before the first bit the register is the seed and nothing has been subtracted.
LEMMA CrcStart ==
  ASSUME NEW d, Len(d) \in Nat, NEW seed \in SUBSET Word
  PROVE  CrcRound(d, seed, 0, [at |-> [i |-> 0, bit |-> 0], crc |-> seed])
  <1> DEFINE at == [i |-> 0, bit |-> 0]
             s == [at |-> at, crc |-> seed]
             message == {m \in Positions(d) : LowFirst(d, m)}
  <1>1. ByteBits \in Nat \ {0} /\ WordBits \in Nat
    BY Widths
  <1>2. s \in CrcStates /\ 0 = ByteBits * s.at.i + s.at.bit
    <2>1. at \in LoopCounters /\ at.i = 0 /\ at.bit = 0
      BY <1>1 DEF LoopCounters
    <2> HIDE DEF at
    <2> QED
      BY <1>1, <2>1 DEF CrcStates
  <1>3. Unread(d, at) = message
    <2>1. ByteBits * 0 = 0 /\ at.bit = 0 /\ at.i = 0
      BY <1>1
    <2>2. \A m \in Positions(d) : m >= 0
      BY <1>1 DEF Positions
    <2> QED
      BY <2>1, <2>2 DEF Unread
  <1>4. ASSUME NEW p \in Nat
        PROVE  p \in Xor(Xor(Dividend(d, seed), Shifted(seed, 0)), Unread(d, at))
                 <=> Odd(Terms({}, p))
    <2>1. p \in Shifted(seed, 0) <=> p \in seed
      <3>1. seed \in SUBSET Int /\ p - 0 = p
        BY <1>1 DEF Word
      <3> QED
        BY <3>1, ShiftedMember
    <2>2. p \in Dividend(d, seed) <=> ~(p \in message <=> p \in seed)
      BY XorMember DEF Dividend
    <2>3. ~Odd(Terms({}, p))
      <3>1. Terms({}, p) = {}
        BY DEF Terms
      <3> QED
        BY <3>1, FS_EmptySet DEF Odd
    <2> HIDE DEF message, at
    <2>4. p \in Xor(Dividend(d, seed), Shifted(seed, 0)) <=> p \in message
      BY <2>1, <2>2 DEF Xor
    <2>5. p \notin Xor(Xor(Dividend(d, seed), Shifted(seed, 0)), Unread(d, at))
      BY <1>3, <2>4 DEF Xor
    <2> QED
      BY <2>3, <2>5
  <1>5. {} \in SUBSET (0 .. 0 - 1)
    OBVIOUS
  <1>6. s.at = at /\ s.crc = seed
    OBVIOUS
  <1> HIDE DEF s, at
  <1>7. CrcRound(d, seed, 0, s)
    BY <1>2, <1>4, <1>5, <1>6 DEF CrcRound
  <1> QED
    BY <1>7 DEF s, at

\* Before the first bit of a byte is divided out, the byte moves from the
\* unread message to the register.
LEMMA CrcRead ==
  ASSUME NEW d, Len(d) \in Nat, NEW at \in LoopCounters, NEW crc \in SUBSET Word,
         NEW n \in Nat, n = ByteBits * at.i + at.bit, n < ByteBits * Len(d), NEW p \in Nat
  PROVE  (p \in Shifted(crc, n) <=> p \in Unread(d, at))
           <=> (p \in Shifted(IF at.bit = 0 THEN Xor(crc, Bits(d[at.i + 1])) ELSE crc, n)
                  <=> p \in Unread(d, Advance(at)))
  <1> DEFINE i == at.i
             bit == at.bit
             byte == Bits(d[i + 1])
             limit == ByteBits * (i + 1)
  <1>1. ByteBits \in Nat \ {0} /\ WordBits \in Nat /\ i \in Nat /\ bit \in 0 .. ByteBits - 1
    BY Widths DEF LoopCounters
  <1>2. limit = ByteBits * i + ByteBits /\ ByteBits * i \in Nat /\ limit \in Nat
    BY <1>1
  <1>3. Unread(d, Advance(at)) = {m \in Positions(d) : m >= limit /\ LowFirst(d, m)}
    <2>1. (IF Advance(at).bit = 0 THEN Advance(at).i ELSE Advance(at).i + 1) = i + 1
      <3>1. NextByte(at) => Advance(at).i = i + 1 /\ Advance(at).bit = 0
        BY AdvanceCounts
      <3>2. ~NextByte(at) => Advance(at).i = i /\ Advance(at).bit = bit + 1
        BY AdvanceCounts
      <3> HIDE DEF i, bit
      <3>3. bit + 1 # 0
        BY <1>1
      <3> QED
        BY <3>1, <3>2, <3>3
    <2> QED
      BY <2>1 DEF Unread
  <1>4. CASE bit # 0
    BY <1>3, <1>4 DEF Unread
  <1>5. CASE bit = 0
    <2>1. Unread(d, at) = {m \in Positions(d) : m >= ByteBits * i /\ LowFirst(d, m)}
      BY <1>5 DEF Unread
    <2>2. n = ByteBits * i
      <3> HIDE DEF i, bit
      <3>1. n = ByteBits * i + bit
        BY DEF i, bit
      <3> QED
        BY <1>2, <1>5, <3>1
    <2>3. limit <= ByteBits * Len(d)
      <3> HIDE DEF i, bit
      <3>1. i < Len(d)
        <4>1. SUFFICES ASSUME i >= Len(d) PROVE FALSE
          BY <1>1
        <4>2. PICK e \in Nat : i = Len(d) + e
          BY <1>1, <4>1
        <4>3. ByteBits * i = ByteBits * Len(d) + ByteBits * e /\ ByteBits * e \in Nat
              /\ ByteBits * Len(d) \in Nat
          BY <1>1, <4>2
        <4> QED
          BY <2>2, <4>3
      <3>2. PICK e \in Nat : Len(d) = i + 1 + e
        <4>1. Len(d) - (i + 1) \in Nat /\ Len(d) = i + 1 + (Len(d) - (i + 1))
          BY <1>1, <3>1
        <4> QED
          BY <4>1, Zenon
      <3>3. ByteBits * Len(d) = limit + ByteBits * e /\ ByteBits * e \in Nat
        BY <1>1, <3>2
      <3> QED
        BY <1>2, <3>3
    <2>4. crc \in SUBSET Int /\ byte \in SUBSET Int /\ byte \subseteq 0 .. ByteBits - 1
      <3>1. Word \subseteq Int
        BY <1>1 DEF Word
      <3> QED
        BY <3>1, Widths
    <2> DEFINE length == ByteBits * Len(d)
    <2>5. \A m : m \in Positions(d) <=> m \in 0 .. length - 1
      BY DEF Positions
    <2>6. length \in Nat
      BY <1>1
    <2> HIDE DEF i, bit, byte, limit, length
    <2>7. p - n \in byte <=> /\ p \in Positions(d) /\ p >= n /\ p < limit
                             /\ LowFirst(d, p)
      <3>1. CASE p - n \in 0 .. ByteBits - 1
        <4>1. p = ByteBits * i + (p - n) /\ p >= n /\ p < limit
          BY <1>1, <1>2, <2>2, <3>1
        <4>2. limit <= length
          BY <2>3 DEF length
        <4>3. p \in 0 .. length - 1
          BY <1>2, <2>6, <4>1, <4>2
        <4>4. p \in Positions(d)
          BY <2>5, <4>3, Zenon
        <4>5. LowFirst(d, ByteBits * i + (p - n)) <=> p - n \in byte
          BY <1>1, <3>1, BitOfByte DEF byte
        <4> QED
          BY <4>1, <4>4, <4>5
      <3>2. CASE p - n \notin 0 .. ByteBits - 1
        <4>1. ~(p >= n /\ p < limit)
          BY <1>1, <1>2, <2>2, <3>2
        <4> QED
          BY <2>4, <3>2, <4>1
      <3> QED
        BY <3>1, <3>2
    <2>8. n \in Int /\ p \in Int /\ (p \in Shifted(crc, n) <=> p - n \in crc)
      <3>1. n \in Int /\ p \in Int
        OBVIOUS
      <3> QED
        BY <2>4, <3>1, ShiftedMember, Zenon
    <2>9. p \in Shifted(Xor(crc, byte), n) <=> ~(p - n \in crc <=> p - n \in byte)
      <3>1. Xor(crc, byte) \in SUBSET Int
        BY <2>4 DEF Xor
      <3>2. p \in Shifted(Xor(crc, byte), n) <=> p - n \in Xor(crc, byte)
        BY <2>8, <3>1, ShiftedMember, Zenon
      <3> QED
        BY <3>2 DEF Xor
    <2>10. p \in Unread(d, at) <=> p \in Positions(d) /\ p >= n /\ LowFirst(d, p)
      BY <2>1, <2>2
    <2>11. p \in Unread(d, Advance(at)) <=> p \in Positions(d) /\ p >= limit /\ LowFirst(d, p)
      BY <1>3
    <2>12. p >= limit <=> p >= n /\ ~(p < limit)
      BY <1>1, <1>2, <2>2
    <2>13. (IF at.bit = 0 THEN Xor(crc, Bits(d[at.i + 1])) ELSE crc) = Xor(crc, byte)
      BY <1>5 DEF bit, byte, i
    <2>14. p \in Unread(d, at) <=> p - n \in byte \/ p \in Unread(d, Advance(at))
      BY <2>7, <2>10, <2>11, <2>12
    <2>15. ~(p - n \in byte /\ p \in Unread(d, Advance(at)))
      BY <2>7, <2>11, <2>12
    <2> QED
      BY <2>8, <2>9, <2>13, <2>14, <2>15
  <1> QED
    BY <1>4, <1>5

\* One round divides one bit out of the register.
LEMMA CrcStep ==
  ASSUME NEW d, Len(d) \in Nat, NEW seed \in SUBSET Word,
         NEW n \in Nat, n < ByteBits * Len(d), NEW s, CrcRound(d, seed, n, s)
  PROVE  CrcRound(d, seed, n + 1, CrcLoop(d)[s])
  <1> DEFINE crc == IF s.at.bit = 0 THEN Xor(s.crc, Bits(d[s.at.i + 1])) ELSE s.crc
             next == CrcShift(crc)
             t == CrcLoop(d)[s]
             dividend == Dividend(d, seed)
  <1>1. s \in CrcStates /\ s.at \in LoopCounters /\ s.crc \in SUBSET Word
        /\ n = ByteBits * s.at.i + s.at.bit
    BY DEF CrcRound, CrcStates
  <1>2. PICK quotient \in SUBSET (0 .. n - 1) : \A p \in Nat :
          p \in Xor(Xor(dividend, Shifted(s.crc, n)), Unread(d, s.at)) <=> Odd(Terms(quotient, p))
    BY DEF CrcRound
  <1>3. t.at = Advance(s.at) /\ t.crc = next
    BY <1>1 DEF CrcLoop, CrcStates
  <1>4. t \in CrcStates
    BY <1>1, CrcLoopType
  <1>5. n + 1 = ByteBits * t.at.i + t.at.bit
    BY <1>1, <1>3, AdvanceCounts
  <1>6. crc \in SUBSET Word /\ Word \subseteq Int
    <2>1. s.crc \subseteq Word /\ Bits(d[s.at.i + 1]) \subseteq Word
      BY <1>1, Widths
    <2>2. Xor(s.crc, Bits(d[s.at.i + 1])) \subseteq Word
      BY <2>1 DEF Xor
    <2>3. Word \subseteq Int
      BY Widths DEF Word
    <2> QED
      BY <2>1, <2>2, <2>3
  <1>7. \A p \in Nat : (p \in Shifted(s.crc, n) <=> p \in Unread(d, s.at))
                         <=> (p \in Shifted(crc, n) <=> p \in Unread(d, t.at))
    <2>1. ASSUME NEW p \in Nat
          PROVE  (p \in Shifted(s.crc, n) <=> p \in Unread(d, s.at))
                   <=> (p \in Shifted(crc, n) <=> p \in Unread(d, Advance(s.at)))
      BY <1>1, CrcRead
    <2> HIDE DEF crc, t
    <2> QED
      BY <1>3, <2>1
  <1> HIDE DEF crc, t, dividend
  <1>8. next \in SUBSET Word
    BY <1>6, CrcShiftMember
  <1> DEFINE more == IF 0 \in crc THEN quotient \cup {n} ELSE quotient
  <1>9. more \in SUBSET (0 .. (n + 1) - 1)
    <2>1. 0 .. n - 1 \subseteq 0 .. (n + 1) - 1 /\ n \in 0 .. (n + 1) - 1
      OBVIOUS
    <2> QED
      BY <2>1
  <1>10. ASSUME NEW p \in Nat
         PROVE  p \in Xor(Xor(dividend, Shifted(next, n + 1)), Unread(d, t.at))
                  <=> Odd(Terms(more, p))
    <2>1. Odd(Terms(quotient, p)) <=>
            ~(~(p \in dividend <=> p \in Shifted(crc, n)) <=> p \in Unread(d, t.at))
      <3>1. Odd(Terms(quotient, p)) <=>
              p \in Xor(Xor(dividend, Shifted(s.crc, n)), Unread(d, s.at))
        BY <1>2
      <3>2. (p \in Shifted(s.crc, n) <=> p \in Unread(d, s.at))
              <=> (p \in Shifted(crc, n) <=> p \in Unread(d, t.at))
        BY <1>7
      <3> QED
        BY <3>1, <3>2 DEF Xor
    <2>2. p \in Shifted(crc, n) <=> p - n \in crc
      BY <1>6, ShiftedMember
    <2>3. p \in Shifted(next, n + 1) <=> p - (n + 1) \in next
      BY <1>6, <1>8, ShiftedMember
    <2> DEFINE b == p - (n + 1)
    <2>4. b \in Int /\ b + 1 = p - n /\ (p - n) - 1 = b /\ p - n \in Int
      OBVIOUS
    <2>5. p - n \in crc => p - n >= 0
      BY <1>6, Widths DEF Word
    <2>6. p - n \in crc => (p - n = 0 \/ b >= 0)
      BY <2>5
    <2>7. b \in Polynomial => b >= 0
      BY SoftHashAssumption, Widths DEF Word
    <2>8. b >= 0 => p - n # 0
      OBVIOUS
    <2> HIDE DEF b
    <2>9. CASE 0 \in crc
      <3>1. b \in next <=> ~(b >= 0 /\ p - n \in crc <=> b \in Polynomial)
        BY <1>6, <2>4, <2>9, CrcShiftMember
      <3>2. Odd(Terms(more, p)) <=> ~(Odd(Terms(quotient, p)) <=> p - n \in Generator)
        BY <2>9, TermsAdd
      <3>3. p - n \in Generator <=> p - n = 0 \/ b \in Polynomial
        BY <2>4, GeneratorMember
      <3>4. p - n \in Generator <=> ~(p - n \in crc <=> b \in next)
        BY <2>6, <2>7, <2>8, <2>9, <3>1, <3>3
      <3>5. p \in Shifted(next, n + 1) <=> b \in next
        BY <2>3 DEF b
      <3> HIDE DEF more, next
      <3> QED
        BY <2>1, <2>2, <3>2, <3>4, <3>5 DEF Xor
    <2>10. CASE 0 \notin crc
      <3>1. b \in next <=> b >= 0 /\ p - n \in crc
        BY <1>6, <2>4, <2>10, CrcShiftMember
      <3>2. b \in next <=> p - n \in crc
        BY <2>6, <2>10, <3>1
      <3>3. p \in Shifted(next, n + 1) <=> b \in next
        BY <2>3 DEF b
      <3>4. more = quotient
        BY <2>10
      <3> HIDE DEF more, next
      <3> QED
        BY <2>1, <2>2, <3>2, <3>3, <3>4 DEF Xor
    <2> QED
      BY <2>9, <2>10
  <1> HIDE DEF more, next
  <1>11. \E q \in SUBSET (0 .. (n + 1) - 1) : \A p \in Nat :
           p \in Xor(Xor(dividend, Shifted(t.crc, n + 1)), Unread(d, t.at)) <=> Odd(Terms(q, p))
    BY <1>3, <1>9, <1>10
  <1> QED
    BY <1>4, <1>5, <1>11 DEF CrcRound, t, dividend

\* The complement of crc32_calc is a remainder of the dividend.
LEMMA CrcIsRemainder ==
  ASSUME NEW d, Len(d) \in Nat, NEW seed \in SUBSET Word
  PROVE  /\ Word \ crc32_calc(d, seed) \in SUBSET Word
         /\ IsRemainder(Word \ crc32_calc(d, seed), Dividend(d, seed), ByteBits * Len(d))
  <1> DEFINE start == [at |-> [i |-> 0, bit |-> 0], crc |-> seed]
             State(n) == Iterate(CrcLoop(d), start, n)
             length == ByteBits * Len(d)
             T == {n \in Nat : n <= length => CrcRound(d, seed, n, State(n))}
             last == State(length)
  <1>1. CrcRound(d, seed, 0, start)
    BY CrcStart
  <1>2. crc32_calc(d, seed) = Word \ last.crc
    BY DEF crc32_calc
  <1> HIDE DEF start
  <1>3. start \in CrcStates
    BY <1>1 DEF CrcRound
  <1>4. State(0) = start /\ \A n \in Nat : State(n + 1) = CrcLoop(d)[State(n)]
    BY <1>3, CrcLoopType, IterateSteps
  <1> HIDE DEF State
  <1>5. length \in Nat /\ WordBits \in Nat /\ ByteBits \in Nat \ {0}
    BY Widths
  <1>6. 0 \in T
    BY <1>1, <1>4
  <1>7. ASSUME NEW n \in Nat, n \in T PROVE n + 1 \in T
    <2>1. SUFFICES ASSUME n + 1 <= length PROVE CrcRound(d, seed, n + 1, State(n + 1))
      OBVIOUS
    <2>2. n < length /\ CrcRound(d, seed, n, State(n))
      BY <1>5, <1>7, <2>1
    <2> QED
      BY <1>4, <2>2, CrcStep
  <1> HIDE DEF T
  <1>8. length \in T
    BY <1>5, <1>6, <1>7, NumberInduction
  <1>9. CrcRound(d, seed, length, last)
    BY <1>5, <1>8 DEF T
  <1> HIDE DEF last
  <1>10. last.at \in LoopCounters /\ last.crc \in SUBSET Word
         /\ length = ByteBits * last.at.i + last.at.bit
    BY <1>9 DEF CrcRound, CrcStates
  <1>11. last.at.i = Len(d) /\ last.at.bit = 0
    <2>1. last.at.i \in Nat /\ last.at.bit \in 0 .. ByteBits - 1
      BY <1>10 DEF LoopCounters
    <2>2. length = ByteBits * Len(d) + 0 /\ 0 \in 0 .. ByteBits - 1
      BY <1>5
    <2>3. length \div ByteBits = last.at.i /\ length % ByteBits = last.at.bit
      <3> HIDE DEF length
      <3> QED
        BY <1>5, <1>10, <2>1, DivMod
    <2>4. length \div ByteBits = Len(d) /\ length % ByteBits = 0
      <3> HIDE DEF length
      <3> QED
        BY <1>5, <2>2, DivMod
    <2> QED
      BY <2>3, <2>4
  <1>12. Unread(d, last.at) = {}
    <2>1. \A m \in Positions(d) : ~(m >= ByteBits * Len(d))
      BY <1>5 DEF Positions
    <2> QED
      BY <1>11, <2>1 DEF Unread
  <1>13. PICK quotient \in SUBSET (0 .. length - 1) : \A p \in Nat :
           p \in Xor(Xor(Dividend(d, seed), Shifted(last.crc, length)), Unread(d, last.at))
             <=> Odd(Terms(quotient, p))
    BY <1>9 DEF CrcRound
  <1> DEFINE difference == Xor(Dividend(d, seed), Shifted(last.crc, length))
             places == 0 .. (length + WordBits - 1)
  <1>14. \A p \in Nat : p \in difference <=> Odd(Terms(quotient, p))
    <2>1. \A S : Xor(S, {}) = S
      BY DEF Xor
    <2> QED
      BY <1>12, <1>13, <2>1
  <1>15. difference \subseteq places
    <2>1. Positions(d) \subseteq places /\ seed \subseteq places
      <3>1. 0 .. (length - 1) \subseteq places /\ Word \subseteq places
        <4> HIDE DEF length
        <4> QED
          BY <1>5 DEF Word
      <3>2. Positions(d) = 0 .. (length - 1)
        BY DEF Positions
      <3> QED
        BY <3>1, <3>2
    <2>2. Shifted(last.crc, length) \subseteq places
      <3> HIDE DEF length
      <3>1. \A b \in Word : b + length \in places
        BY <1>5 DEF Word
      <3> QED
        BY <1>10, <3>1 DEF Shifted
    <2> QED
      BY <2>1, <2>2 DEF Xor, Dividend
  <1>16. Multiple(quotient, length) = {p \in places : Odd(Terms(quotient, p))}
    BY DEF Multiple, Terms
  <1>17. difference = Multiple(quotient, length)
    <2>1. \A p \in places : p \in Nat
      <3> HIDE DEF length
      <3> QED
        BY <1>5
    <2> HIDE DEF difference, places
    <2> QED
      BY <1>14, <1>15, <1>16, <2>1
  <1>18. Word \ crc32_calc(d, seed) = last.crc
    BY <1>2, <1>10
  <1> QED
    BY <1>10, <1>13, <1>17, <1>18 DEF IsRemainder

\* Division by the generator has one remainder: the first place where two
\* quotients differ would be a difference of the dividends, because the
\* generator's leading coefficient is one.
THEOREM RemainderIsUnique ==
  ASSUME NEW dividend, NEW length \in Nat, NEW r1 \in SUBSET Word, NEW r2 \in SUBSET Word,
         IsRemainder(r1, dividend, length), IsRemainder(r2, dividend, length)
  PROVE  r1 = r2
  <1> DEFINE places == 0 .. (length + WordBits - 1)
  <1>1. PICK q1 \in SUBSET (0 .. length - 1) :
          Xor(dividend, Shifted(r1, length)) = Multiple(q1, length)
    BY DEF IsRemainder
  <1>2. PICK q2 \in SUBSET (0 .. length - 1) :
          Xor(dividend, Shifted(r2, length)) = Multiple(q2, length)
    BY DEF IsRemainder
  <1>3. WordBits \in Nat /\ Word \subseteq Nat /\ r1 \subseteq Int /\ r2 \subseteq Int
    BY Widths DEF Word
  <1>4. \A p \in places : /\ p \in Multiple(q1, length) <=> Odd(Terms(q1, p))
                          /\ p \in Multiple(q2, length) <=> Odd(Terms(q2, p))
    BY DEF Multiple, Terms
  <1>5. ASSUME NEW p \in 0 .. length - 1
        PROVE  Odd(Terms(q1, p)) <=> Odd(Terms(q2, p))
    <2>1. p - length \notin Word /\ p \in Int /\ p \in places
      BY <1>3 DEF Word
    <2>2. p \notin Shifted(r1, length) /\ p \notin Shifted(r2, length)
      BY <1>3, <2>1, ShiftedMember
    <2>3. p \in Multiple(q1, length) <=> p \in Multiple(q2, length)
      BY <1>1, <1>2, <2>2 DEF Xor
    <2> QED
      BY <1>4, <2>1, <2>3
  <1>6. q1 = q2
    <2> DEFINE D == Xor(q1, q2)
    <2>1. SUFFICES ASSUME D # {} PROVE FALSE
      BY DEF Xor
    <2>2. D \in SUBSET (0 .. length - 1) /\ D \in SUBSET Nat
      BY DEF Xor
    <2>3. PICK p \in D : \A m \in D : p <= m
      BY <2>1, <2>2, LeastNumber
    <2>4. p \in 0 .. length - 1 /\ ~(p \in q1 <=> p \in q2)
      BY <2>2, <2>3 DEF Xor
    <2>5. \A m \in 0 .. length - 1 : m < p => (m \in q1 <=> m \in q2)
      BY <2>3, <2>4 DEF Xor
    <2> HIDE DEF D
    <2> DEFINE R == {m \in q1 : m < p /\ p - m \in Generator}
    <2>6. \A m \in 0 .. length - 1 : p - m \in Generator => m <= p
      <3>1. ASSUME NEW m \in 0 .. length - 1, p - m \in Generator PROVE m <= p
        <4>1. p - m \in Int /\ p \in Int /\ m \in Int
          BY <2>4
        <4>2. p - m = 0 \/ (p - m) - 1 \in Polynomial
          BY <3>1, <4>1, GeneratorMember
        <4>3. \A b \in Polynomial : b \in Nat
          BY <1>3, SoftHashAssumption, Zenon
        <4> QED
          BY <4>1, <4>2, <4>3
      <3> QED
        BY <3>1
    <2>7. p - p \in Generator
      <3>1. p - p = 0 /\ 0 \in Int
        BY <2>4
      <3> QED
        BY <3>1, GeneratorMember
    <2>8. ASSUME NEW q \in SUBSET (0 .. length - 1),
                 \A m \in 0 .. length - 1 : m < p => (m \in q <=> m \in q1)
          PROVE  Terms(q, p) = IF p \in q THEN R \cup {p} ELSE R
      <3>1. ASSUME NEW m \in 0 .. length - 1
            PROVE  m \in Terms(q, p) <=> m \in R \/ (m = p /\ p \in q)
        <4>1. m < p \/ m = p \/ ~(m <= p)
          BY <2>4
        <4>2. CASE m < p
          <5>1. m # p
            BY <2>4, <4>2
          <5> QED
            BY <2>8, <4>2, <5>1 DEF Terms
        <4>3. CASE m = p
          <5>1. ~(m < p)
            BY <2>4, <4>3
          <5> QED
            BY <2>7, <4>3, <5>1 DEF Terms
        <4>4. CASE ~(m <= p)
          <5>1. ~(m < p) /\ m # p
            BY <2>4, <4>4
          <5> QED
            BY <2>6, <4>4, <5>1 DEF Terms
        <4> QED
          BY <4>1, <4>2, <4>3, <4>4
      <3>2. Terms(q, p) \subseteq 0 .. length - 1 /\ R \subseteq 0 .. length - 1
        BY Zenon DEF Terms
      <3> HIDE DEF R
      <3> QED
        BY <2>4, <3>1, <3>2
    <2>9. /\ Terms(q1, p) = IF p \in q1 THEN R \cup {p} ELSE R
          /\ Terms(q2, p) = IF p \in q2 THEN R \cup {p} ELSE R
      BY <2>5, <2>8
    <2>10. IsFiniteSet(R) /\ p \notin R
      <3>1. R \subseteq 0 .. length - 1
        OBVIOUS
      <3>2. ~(p < p) /\ IsFiniteSet(0 .. length - 1)
        BY <2>4, FS_Interval
      <3> QED
        BY <3>1, <3>2, FS_Subset
    <2>11. Odd(R \cup {p}) <=> ~Odd(R)
      BY <2>10, Parity
    <2> HIDE DEF R
    <2> QED
      BY <1>5, <2>4, <2>9, <2>11
  <1>7. ASSUME NEW b \in Word PROVE b \in r1 <=> b \in r2
    <2>1. b + length \in Int /\ (b + length) - length = b
      BY <1>3
    <2>2. /\ b + length \in Shifted(r1, length) <=> b \in r1
          /\ b + length \in Shifted(r2, length) <=> b \in r2
      BY <1>3, <2>1, ShiftedMember
    <2>3. Xor(dividend, Shifted(r1, length)) = Xor(dividend, Shifted(r2, length))
      BY <1>1, <1>2, <1>6
    <2> QED
      BY <2>2, <2>3 DEF Xor
  <1> QED
    BY <1>7

-----------------------------------------------------------------------------
(* The calls. *)

HashTypeOK == key \in Seq(Byte) /\ Len(key) = KeyBytes /\ data \in Seq(Byte) /\ Len(data) <= MaxBytes

\* The calls pass a key of the full length and inputs up to the bound.
LEMMA HashTyped == HashSpec => []HashTypeOK
  <1>1. HashInit => HashTypeOK
    BY HashCallsAssumption, Widths DEF HashInit, HashTypeOK
  <1>2. HashTypeOK /\ [HashNext]_hashVars => HashTypeOK'
    <2> SUFFICES ASSUME HashTypeOK, [HashNext]_hashVars PROVE HashTypeOK'
      OBVIOUS
    <2>1. CASE NextInput
      BY <2>1, HashCallsAssumption DEF NextInput, HashTypeOK
    <2>2. CASE LongerInput
      BY <2>2, HashCallsAssumption DEF LongerInput, HashTypeOK
    <2>3. CASE UNCHANGED hashVars
      BY <2>3 DEF hashVars, HashTypeOK
    <2> QED
      BY <2>1, <2>2, <2>3 DEF HashNext
  <1> QED
    BY <1>1, <1>2, PTL DEF HashSpec

\* key320_hash_calc computes the Toeplitz hash.
THEOREM ToeplitzCorrect == HashSpec => []ToeplitzIsExact
  <1>1. HashTypeOK => ToeplitzIsExact
    <2> SUFFICES ASSUME HashTypeOK PROVE ToeplitzIsExact
      OBVIOUS
    <2>1. Len(data) \in Nat /\ Len(data) + WordBytes <= KeyBytes
      BY HashCallsAssumption, Widths DEF HashTypeOK
    <2> QED
      BY <2>1, ToeplitzExact DEF ToeplitzIsExact
  <1> QED
    BY <1>1, HashTyped, PTL

\* crc32_calc computes the complement of the remainder of the division of
\* the seeded message by the generator polynomial.
THEOREM CrcCorrect == HashSpec => []CrcIsExact
  <1>1. HashTypeOK => CrcIsExact
    <2> SUFFICES ASSUME HashTypeOK PROVE CrcIsExact
      OBVIOUS
    <2> DEFINE seed == CrcSeed(key)
               rest == Word \ crc32_calc(data, seed)
               length == ByteBits * Len(data)
    <2>1. Len(data) \in Nat /\ length \in Nat
      BY Widths DEF HashTypeOK
    <2>2. seed \in SUBSET Word
      <3>1. KeyWord(key) \subseteq Word
        <4>1. ASSUME NEW i \in 1 .. WordBytes, NEW b \in Bits(key[i])
              PROVE  b + ByteBits * (i - 1) \in Word
          <5>1. b \in 0 .. ByteBits - 1
            BY Widths
          <5>2. PICK e \in Nat : WordBytes = i + e
            BY Widths
          <5>3. WordBits = ByteBits * (i - 1) + ByteBits + ByteBits * e /\ ByteBits * e \in Nat
                /\ ByteBits * (i - 1) \in Nat
            BY <5>2, Widths
          <5> QED
            BY <5>1, <5>3, Widths DEF Word
        <4> QED
          BY <4>1 DEF KeyWord, Shifted
      <3> QED
        BY <3>1 DEF CrcSeed, Xor
    <2> HIDE DEF seed, length
    <2>3. rest \in SUBSET Word /\ IsRemainder(rest, Dividend(data, seed), length)
      BY <2>1, <2>2, CrcIsRemainder DEF length
    <2> QED
      BY <2>3 DEF CrcIsExact, seed, rest, length
  <1> QED
    BY <1>1, HashTyped, PTL

-----------------------------------------------------------------------------
(* The queue. *)

\* What Room computes lies between nothing and everything that was offered, and
\* anything it admits fits a limited queue.
LEMMA RoomBounds ==
  ASSUME TypeOK, NEW n \in Nat
  PROVE  /\ Room(n) \in 0 .. n
         /\ Room(n) # 0 /\ capacity # 0 => Len(queue) + Room(n) <= capacity
  <1>1. Len(queue) \in Nat
    BY LenProperties DEF TypeOK
  <1> QED
    BY <1>1 DEF TypeOK, Room

\* A consuming call on a queue that is not empty removes between one element
\* and all of them.
LEMMA TakenBounds ==
  ASSUME TypeOK, queue # <<>>, NEW limit \in {"one", "span", "all"}
  PROVE  Taken(limit) \in 1 .. Len(queue)
  <1>1. Len(queue) \in Nat \ {0}
    BY EmptySeq DEF TypeOK
  <1> QED
    BY <1>1, FifoAssumption DEF Taken

\* The elements a pushAll appends.
LEMMA BurstIsSeq ==
  ASSUME NEW n \in Nat, NEW k \in Nat
  PROVE  /\ [i \in 1 .. n |-> k + i] \in Seq(Nat)
         /\ Len([i \in 1 .. n |-> k + i]) = n
  <1> DEFINE s == [i \in 1 .. n |-> k + i]
  <1>1. s \in [1 .. n -> Nat]
    OBVIOUS
  <1>2. s \in Seq(Nat)
    BY <1>1, SeqDef
  <1>3. Len(s) = n
    BY <1>1, <1>2, LenProperties
  <1> QED
    BY <1>2, <1>3

-----------------------------------------------------------------------------

\* Type correctness of the locked removal.
LEMMA DequeueType ==
  ASSUME TypeOK, queue # <<>>, NEW t \in Threads, NEW limit \in {"one", "span", "all"},
         Dequeue(t, limit)
  PROVE  /\ queue' \in Seq(Nat)
         /\ popped' \in Nat
         /\ Len(queue') = Len(queue) - Taken(limit)
         /\ \A i \in 1 .. Len(queue') : queue'[i] = queue[Taken(limit) + i]
  <1> DEFINE k == Taken(limit)
  <1>1. k \in 1 .. Len(queue)
    BY TakenBounds
  <1>2. Len(queue) \in Nat /\ \A i \in 1 .. Len(queue) : queue[i] \in Nat
    BY LenProperties, ElementOfSeq DEF TypeOK
  <1>3. queue' = SubSeq(queue, k + 1, Len(queue)) /\ popped' = popped + k
    BY DEF Dequeue, Remaining
  <1> HIDE DEF k
  <1>4. /\ SubSeq(queue, k + 1, Len(queue)) \in Seq(Nat)
        /\ Len(SubSeq(queue, k + 1, Len(queue))) = Len(queue) - k
        /\ \A i \in 1 .. Len(queue) - k :
              SubSeq(queue, k + 1, Len(queue))[i] = queue[k + i]
    <2>1. k + 1 \in Int /\ Len(queue) \in Int /\ \A i \in k + 1 .. Len(queue) : queue[i] \in Nat
      BY <1>1, <1>2
    <2>2. /\ SubSeq(queue, k + 1, Len(queue)) \in Seq(Nat)
          /\ Len(SubSeq(queue, k + 1, Len(queue)))
                = IF k + 1 <= Len(queue) THEN Len(queue) - (k + 1) + 1 ELSE 0
          /\ \A i \in 1 .. Len(queue) - (k + 1) + 1 :
                SubSeq(queue, k + 1, Len(queue))[i] = queue[k + 1 + i - 1]
      BY <2>1, SubSeqProperties
    <2> QED
      BY <2>2, <1>1, <1>2
  <1>5. popped' \in Nat
    BY <1>1, <1>2, <1>3 DEF TypeOK
  <1>6. Len(queue') = Len(queue) - k
    BY <1>3, <1>4
  <1>7. \A i \in 1 .. Len(queue') : queue'[i] = queue[k + i]
    BY <1>3, <1>4, <1>6
  <1> QED
    BY <1>3, <1>4, <1>5, <1>6, <1>7 DEF k

\* The types are preserved by every step of every thread.
LEMMA TypeStep == TypeOK /\ [Next]_vars => TypeOK'
  <1> SUFFICES ASSUME TypeOK, [Next]_vars PROVE TypeOK'
    OBVIOUS
  <1> USE FifoAssumption
  <1>1. CASE UNCHANGED vars
    BY <1>1 DEF TypeOK, vars
  <1>2. ASSUME NEW t \in Threads, Push(t) PROVE TypeOK'
    <2>1. queue \in Seq(Nat) /\ pushed \in Nat /\ pushed + 1 \in Nat
      BY DEF TypeOK
    <2>2. queue' \in Seq(Nat)
      BY <1>2, <2>1, AppendProperties DEF Push
    <2> QED
      BY <1>2, <2>1, <2>2 DEF TypeOK, Push
  <1>3. ASSUME NEW t \in Threads, PushAll(t) PROVE TypeOK'
    <2>1. PICK n \in 0 .. (MaxPush - pushed) :
             /\ queue' = queue \o [i \in 1 .. Room(n) |-> pushed + i]
             /\ pushed' = pushed + Room(n)
      BY <1>3 DEF PushAll
    <2>2. Room(n) \in Nat
      BY RoomBounds, n \in Nat DEF TypeOK
    <2>3. queue' \in Seq(Nat)
      BY <2>1, <2>2, BurstIsSeq, ConcatProperties DEF TypeOK
    <2> QED
      BY <1>3, <2>1, <2>2, <2>3 DEF TypeOK, PushAll, AfterBatch
  <1>4. ASSUME NEW t \in Threads, NotifyOne(t) PROVE TypeOK'
    BY <1>4 DEF TypeOK, NotifyOne, Waiters
  <1>5. ASSUME NEW t \in Threads, NotifyAll(t) PROVE TypeOK'
    BY <1>5 DEF TypeOK, NotifyAll
  <1>6. ASSUME NEW t \in Threads, NEW c \in Calls, Pop(t, c) PROVE TypeOK'
    <2>1. CASE queue # <<>> /\ Dequeue(t, c.limit) /\ UNCHANGED call
      BY <2>1, DequeueType DEF TypeOK, Dequeue, Calls
    <2>2. CASE queue = <<>> /\ UNCHANGED <<queue, capacity, pushed, popped>>
      BY <1>6, <2>2 DEF TypeOK, Pop, Leave
    <2> QED
      BY <1>6, <2>1, <2>2 DEF Pop, Leave
  <1>7. ASSUME NEW t \in Threads, Wake(t) PROVE TypeOK'
    <2>1. CASE queue # <<>> /\ Dequeue(t, call[t].limit) /\ UNCHANGED call
      BY <2>1, DequeueType DEF TypeOK, Dequeue, Calls
    <2>2. CASE queue = <<>> /\ UNCHANGED <<queue, capacity, pushed, popped>>
      BY <1>7, <2>2 DEF TypeOK, Wake, Available, Leave
    <2> QED
      BY <1>7, <2>1, <2>2 DEF Wake, Available, Leave
  <1>8. ASSUME NEW t \in Threads, SpuriousWakeup(t) PROVE TypeOK'
    BY <1>8 DEF TypeOK, SpuriousWakeup
  <1>9. ASSUME NEW t \in Threads, Expire(t) PROVE TypeOK'
    BY <1>9 DEF TypeOK, Expire
  <1>10. ASSUME NEW t \in Threads, LastLook(t) PROVE TypeOK'
    <2>1. CASE queue # <<>> /\ Dequeue(t, call[t].limit) /\ UNCHANGED call
      BY <2>1, DequeueType DEF TypeOK, Dequeue, Calls
    <2>2. CASE queue = <<>> /\ UNCHANGED <<queue, capacity, pushed, popped>>
      BY <1>10, <2>2 DEF TypeOK, LastLook, Leave, AfterTimeout
    <2> QED
      BY <1>10, <2>1, <2>2 DEF LastLook, Leave
  <1>11. ASSUME NEW t \in Threads, TryPopSome(t) PROVE TypeOK'
    BY <1>11, DequeueType DEF TypeOK, TryPopSome, Dequeue
  <1>12. ASSUME NEW t \in Threads, NEW c \in Capacities, Reserve(t, c) PROVE TypeOK'
    BY <1>12 DEF TypeOK, Reserve
  <1> QED
    BY <1>1, <1>2, <1>3, <1>4, <1>5, <1>6, <1>7, <1>8, <1>9, <1>10, <1>11, <1>12 DEF Next

-----------------------------------------------------------------------------

\* Removing from the front keeps the order and the count of what remains.
LEMMA DequeueOrder ==
  ASSUME TypeOK, FifoOrder, queue # <<>>, NEW t \in Threads,
         NEW limit \in {"one", "span", "all"}, Dequeue(t, limit)
  PROVE  FifoOrder'
  <1>1. Taken(limit) \in 1 .. Len(queue)
    BY TakenBounds
  <1>2. /\ Len(queue') = Len(queue) - Taken(limit)
        /\ \A i \in 1 .. Len(queue') : queue'[i] = queue[Taken(limit) + i]
    BY DequeueType
  <1>3. popped' = popped + Taken(limit) /\ pushed' = pushed
    BY DEF Dequeue, Remaining
  <1>4. Len(queue) \in Nat
    BY LenProperties DEF TypeOK
  <1>5. popped' + Len(queue') = pushed'
    BY <1>1, <1>2, <1>3, <1>4 DEF TypeOK, FifoOrder
  <1>6. ASSUME NEW i \in 1 .. Len(queue') PROVE queue'[i] = popped' + i
    <2>1. Taken(limit) + i \in 1 .. Len(queue)
      BY <1>1, <1>2, <1>4
    <2>2. queue[Taken(limit) + i] = popped + (Taken(limit) + i)
      BY <2>1 DEF FifoOrder
    <2> QED
      <3>1. Taken(limit) \in Nat /\ popped \in Nat /\ i \in Nat
        BY <1>1, <1>4 DEF TypeOK
      <3>2. popped + (Taken(limit) + i) = (popped + Taken(limit)) + i
        BY <3>1
      <3> QED
        BY <1>2, <1>3, <2>2, <3>2
  <1> QED
    BY <1>5, <1>6 DEF FifoOrder

\* Every step keeps the queue equal to the elements pushed and not yet popped.
LEMMA OrderStep == TypeOK /\ FifoOrder /\ [Next]_vars => FifoOrder'
  <1> SUFFICES ASSUME TypeOK, FifoOrder, [Next]_vars PROVE FifoOrder'
    OBVIOUS
  <1> USE FifoAssumption
  <1>0. /\ Len(queue) \in Nat /\ popped \in Nat /\ pushed \in Nat
        /\ popped + Len(queue) = pushed
        /\ \A i \in 1 .. Len(queue) : queue[i] = popped + i
    BY LenProperties DEF TypeOK, FifoOrder
  <1>1. CASE UNCHANGED <<queue, pushed, popped>>
    BY <1>1 DEF FifoOrder
  <1>2. ASSUME NEW t \in Threads, Push(t) PROVE FifoOrder'
    <2>1. pushed' = pushed + 1 /\ popped' = popped
      BY <1>2 DEF Push
    <2>2. /\ Len(queue') = Len(queue) + 1
          /\ \A i \in 1 .. Len(queue) : queue'[i] = queue[i]
          /\ queue'[Len(queue) + 1] = pushed + 1
      BY <1>0, <1>2, AppendProperties DEF TypeOK, Push
    <2>3. popped' + Len(queue') = pushed'
      BY <1>0, <2>1, <2>2
    <2>4. ASSUME NEW i \in 1 .. Len(queue') PROVE queue'[i] = popped' + i
      <3>1. CASE i \in 1 .. Len(queue)
        BY <1>0, <2>1, <2>2, <3>1
      <3>2. CASE i = Len(queue) + 1
        BY <1>0, <2>1, <2>2, <3>2
      <3> QED
        BY <1>0, <2>2, <3>1, <3>2
    <2> QED
      BY <2>3, <2>4 DEF FifoOrder
  <1>3. ASSUME NEW t \in Threads, PushAll(t) PROVE FifoOrder'
    <2>1. PICK n \in 0 .. (MaxPush - pushed) :
             /\ queue' = queue \o [i \in 1 .. Room(n) |-> pushed + i]
             /\ pushed' = pushed + Room(n)
      BY <1>3 DEF PushAll
    <2> DEFINE m == Room(n)
    <2> DEFINE b == [i \in 1 .. m |-> pushed + i]
    <2>2. m \in Nat
      BY RoomBounds, n \in Nat DEF TypeOK
    <2>3. b \in Seq(Nat) /\ Len(b) = m
      BY <2>2, BurstIsSeq DEF TypeOK
    <2>4. popped' = popped /\ pushed' = pushed + m
      BY <1>3, <2>1 DEF PushAll
    <2>5. queue' = queue \o b /\ \A i \in 1 .. m : b[i] = pushed + i
      BY <2>1
    <2> HIDE DEF m, b
    <2>6. /\ Len(queue') = Len(queue) + m
          /\ \A i \in 1 .. Len(queue) + m :
                queue'[i] = IF i <= Len(queue) THEN queue[i] ELSE b[i - Len(queue)]
      <3>1. queue \in Seq(Nat) /\ b \in Seq(Nat) /\ Len(b) = m
        BY <2>3 DEF TypeOK
      <3>2. /\ Len(queue \o b) = Len(queue) + m
            /\ \A i \in 1 .. Len(queue) + m :
                  (queue \o b)[i] = IF i <= Len(queue) THEN queue[i] ELSE b[i - Len(queue)]
        BY <3>1, ConcatProperties
      <3> QED
        BY <2>5, <3>2
    <2>7. popped' + Len(queue') = pushed'
      BY <1>0, <2>2, <2>4, <2>6
    <2>8. ASSUME NEW i \in 1 .. Len(queue') PROVE queue'[i] = popped' + i
      <3>1. CASE i <= Len(queue)
        BY <1>0, <2>2, <2>4, <2>6, <3>1
      <3>2. CASE i > Len(queue)
        <4>1. i - Len(queue) \in 1 .. m
          BY <1>0, <2>2, <2>6, <3>2
        <4>2. queue'[i] = b[i - Len(queue)]
          BY <1>0, <2>2, <2>6, <3>2
        <4>3. b[i - Len(queue)] = pushed + (i - Len(queue))
          BY <2>5, <4>1
        <4>4. pushed + (i - Len(queue)) = popped + i
          <5>1. i \in Int /\ Len(queue) \in Int /\ popped \in Int
            BY <1>0, <2>2, <2>6
          <5>2. \A p, l, q, j \in Int : p + l = q => q + (j - l) = p + j
            OBVIOUS
          <5>3. pushed \in Int /\ popped + Len(queue) = pushed
            BY <1>0
          <5> QED
            BY <5>1, <5>2, <5>3
        <4> QED
          BY <2>4, <4>2, <4>3, <4>4
      <3> QED
        BY <1>0, <2>2, <2>6, <3>1, <3>2
    <2> QED
      BY <2>7, <2>8 DEF FifoOrder
  <1>4. ASSUME NEW t \in Threads, NotifyOne(t) \/ NotifyAll(t) \/ SpuriousWakeup(t) \/ Expire(t)
        PROVE  FifoOrder'
    BY <1>1, <1>4 DEF NotifyOne, NotifyAll, SpuriousWakeup, Expire
  <1>5. ASSUME NEW t \in Threads, NEW c \in Calls, Pop(t, c) PROVE FifoOrder'
    BY <1>1, <1>5, DequeueOrder DEF Pop, Leave, Calls
  <1>6. ASSUME NEW t \in Threads, Wake(t) \/ LastLook(t) PROVE FifoOrder'
    <2>1. call[t].limit \in {"one", "span", "all"}
      BY DEF TypeOK, Calls
    <2> QED
      BY <1>1, <1>6, <2>1, DequeueOrder DEF Wake, LastLook, Available, Leave
  <1>7. ASSUME NEW t \in Threads, TryPopSome(t) PROVE FifoOrder'
    BY <1>7, DequeueOrder DEF TryPopSome
  <1>8. ASSUME NEW t \in Threads, NEW c \in Capacities, Reserve(t, c) PROVE FifoOrder'
    BY <1>1, <1>8 DEF Reserve
  <1>9. CASE UNCHANGED vars
    BY <1>1, <1>9 DEF vars
  <1> QED
    BY <1>2, <1>3, <1>4, <1>5, <1>6, <1>7, <1>8, <1>9 DEF Next

\* The queue, the threads' positions and the counters keep their types under
\* every call of fifo.h, for any number of threads and any capacities.
LEMMA FifoTypes == Spec => []TypeOK
  <1>1. Init => TypeOK
    BY FifoAssumption, EmptySeq DEF Init, TypeOK, Calls
  <1> QED
    BY <1>1, TypeStep, PTL DEF Spec

\* Fifo keeps what is queued equal to what was pushed and not yet popped, in
\* push order, for every interleaving of the threads' calls.
THEOREM FifoIsOrdered == Spec => []FifoOrder
  <1>1. Init => FifoOrder
    BY EmptySeq DEF Init, FifoOrder
  <1>2. TypeOK /\ FifoOrder /\ [Next]_vars => FifoOrder'
    BY OrderStep
  <1> QED
    BY <1>1, <1>2, FifoTypes, PTL DEF Spec

\* A step that only removes, or leaves the queue alone, does not lengthen it.
LEMMA DequeueShortens ==
  ASSUME TypeOK, NEW t \in Threads,
         \/ UNCHANGED queue
         \/ queue # <<>> /\ \E limit \in {"one", "span", "all"} : Dequeue(t, limit)
  PROVE  ~(Len(queue') > Len(queue))
  <1>1. Len(queue) \in Nat
    BY LenProperties DEF TypeOK
  <1>2. CASE UNCHANGED queue
    BY <1>1, <1>2
  <1>3. ASSUME queue # <<>>, NEW limit \in {"one", "span", "all"}, Dequeue(t, limit)
        PROVE  ~(Len(queue') > Len(queue))
    <2>1. Len(queue') = Len(queue) - Taken(limit) /\ Taken(limit) \in 1 .. Len(queue)
      BY <1>3, DequeueType, TakenBounds
    <2> QED
      BY <1>1, <2>1
  <1> QED
    BY <1>2, <1>3

\* A step that lengthens a limited queue keeps it within its capacity.
LEMMA CapacityStep ==
  ASSUME TypeOK, [Next]_vars, Len(queue') > Len(queue), capacity # 0
  PROVE  Len(queue') <= capacity
  <1>0. Len(queue) \in Nat /\ capacity \in Nat
    BY LenProperties DEF TypeOK
  <1>1. ASSUME NEW t \in Threads, Push(t) PROVE Len(queue') <= capacity
    <2>1. ~(Len(queue) >= capacity) /\ queue' = Append(queue, pushed + 1)
      BY <1>1 DEF Push, isFullLocked
    <2>2. Len(queue') = Len(queue) + 1
      BY <2>1, AppendProperties DEF TypeOK
    <2> QED
      BY <1>0, <2>1, <2>2
  <1>2. ASSUME NEW t \in Threads, PushAll(t) PROVE Len(queue') <= capacity
    <2>1. PICK n \in 0 .. (MaxPush - pushed) :
             queue' = queue \o [i \in 1 .. Room(n) |-> pushed + i]
      BY <1>2 DEF PushAll
    <2>2. Room(n) \in Nat /\ (Room(n) # 0 => Len(queue) + Room(n) <= capacity)
      BY RoomBounds, n \in Nat
    <2>3. Len(queue') = Len(queue) + Room(n)
      BY <2>1, <2>2, BurstIsSeq, ConcatProperties DEF TypeOK
    <2> QED
      BY <1>0, <2>2, <2>3
  <1>3. ASSUME NEW t \in Threads,
               \/ UNCHANGED queue
               \/ queue # <<>> /\ \E limit \in {"one", "span", "all"} : Dequeue(t, limit)
        PROVE  Len(queue') <= capacity
    BY <1>3, DequeueShortens
  <1>4. \A c \in Calls : c.limit \in {"one", "span", "all"}
    BY FifoAssumption DEF Calls
  <1>5. ASSUME NEW t \in Threads,
               \/ NotifyOne(t) \/ NotifyAll(t) \/ SpuriousWakeup(t) \/ Expire(t)
               \/ \E c \in Capacities : Reserve(t, c)
        PROVE  UNCHANGED queue
    BY <1>5 DEF NotifyOne, NotifyAll, SpuriousWakeup, Expire, Reserve
  <1>6. ASSUME NEW t \in Threads,
               Wake(t) \/ LastLook(t) \/ TryPopSome(t) \/ \E c \in Calls : Pop(t, c)
        PROVE  \/ UNCHANGED queue
               \/ queue # <<>> /\ \E limit \in {"one", "span", "all"} : Dequeue(t, limit)
    <2>1. call[t] \in Calls
      BY DEF TypeOK
    <2>2. CASE Wake(t) \/ LastLook(t)
      BY <1>4, <2>1, <2>2 DEF Wake, LastLook, Leave, Available
    <2>3. CASE TryPopSome(t)
      BY <2>3 DEF TryPopSome
    <2>4. CASE \E c \in Calls : Pop(t, c)
      BY <1>4, <2>4 DEF Pop, Leave
    <2> QED
      BY <1>6, <2>2, <2>3, <2>4
  <1>7. CASE UNCHANGED vars
    BY <1>0, <1>7 DEF vars
  <1> QED
    BY <1>1, <1>2, <1>3, <1>5, <1>6, <1>7 DEF Next

\* push, emplace, pushSome and pushAll never fill a limited queue beyond its
\* capacity, whoever else pushes: only reserve() with a smaller capacity leaves
\* one overfull, and it only drains from there.
THEOREM FifoKeepsItsCapacity ==
  Spec => [][Len(queue') > Len(queue) /\ capacity # 0 => Len(queue') <= capacity]_vars
  <1>1. TypeOK /\ [Next]_vars =>
          [Len(queue') > Len(queue) /\ capacity # 0 => Len(queue') <= capacity]_vars
    BY CapacityStep
  <1> QED
    BY <1>1, FifoTypes, PTL DEF Spec

-----------------------------------------------------------------------------

\* The thread sets that NoLostWakeup counts are finite.
LEMMA ThreadSetsFinite ==
  /\ IsFiniteSet(Woken) /\ Cardinality(Woken) \in Nat
  /\ IsFiniteSet(Notifiers) /\ Cardinality(Notifiers) \in Nat
  <1>1. Woken \in SUBSET Threads /\ Notifiers \in SUBSET Threads
    BY DEF Woken, Notifiers
  <1> QED
    BY <1>1, FifoAssumption, FS_Subset, FS_CardinalityType

\* A step that shrinks the queue and touches none of the waiting, woken and
\* notifying threads keeps every remaining element covered.
LEMMA ShrinkKeepsWakeups ==
  ASSUME TypeOK, TypeOK', NoLostWakeup, Len(queue') <= Len(queue),
         Waiters' \subseteq Waiters, Woken' = Woken,
         Notifiers' = Notifiers, Broadcasters' = Broadcasters
  PROVE  NoLostWakeup'
  <1>1. Len(queue) \in Nat /\ Len(queue') \in Nat
    BY LenProperties DEF TypeOK
  <1> QED
    BY <1>1, ThreadSetsFinite DEF NoLostWakeup

\* An empty queue needs no wakeup.
LEMMA EmptyNeedsNoWakeup ==
  ASSUME TypeOK', queue' = <<>>
  PROVE  NoLostWakeup'
  <1>1. Len(queue') = 0
    OBVIOUS
  <1>2. Cardinality(Woken') \in Nat /\ Cardinality(Notifiers') \in Nat
    <2>1. Woken' \in SUBSET Threads /\ Notifiers' \in SUBSET Threads
      BY DEF Woken, Notifiers
    <2> QED
      BY <2>1, FifoAssumption, FS_Subset, FS_CardinalityType
  <1> QED
    BY <1>1, <1>2 DEF NoLostWakeup

\* Every step keeps a notification on its way for every queued element.
LEMMA WakeupStep == TypeOK /\ TypeOK' /\ NoLostWakeup /\ [Next]_vars => NoLostWakeup'
  <1> SUFFICES ASSUME TypeOK, TypeOK', NoLostWakeup, [Next]_vars PROVE NoLostWakeup'
    OBVIOUS
  <1> USE FifoAssumption
  <1>0. /\ Len(queue) \in Nat /\ Len(queue') \in Nat
        /\ IsFiniteSet(Woken) /\ Cardinality(Woken) \in Nat
        /\ IsFiniteSet(Notifiers) /\ Cardinality(Notifiers) \in Nat
    BY ThreadSetsFinite, LenProperties DEF TypeOK
  <1>1. CASE UNCHANGED <<queue, pc>>
    <2>1. /\ Waiters' = Waiters /\ Woken' = Woken /\ Notifiers' = Notifiers
          /\ Broadcasters' = Broadcasters /\ Len(queue') = Len(queue)
      BY <1>1 DEF Waiters, Woken, Notifiers, Broadcasters
    <2> QED
      BY <1>0, <2>1, ShrinkKeepsWakeups
  <1>2. ASSUME NEW t \in Threads, Push(t) PROVE NoLostWakeup'
    <2>1. /\ Waiters' = Waiters /\ Woken' = Woken /\ Broadcasters' = Broadcasters
          /\ Notifiers' = Notifiers \cup {t} /\ t \notin Notifiers
      BY <1>2 DEF Push, TypeOK, Waiters, Woken, Notifiers, Broadcasters
    <2>2. Len(queue') = Len(queue) + 1
      BY <1>2, AppendProperties DEF Push, TypeOK
    <2>3. Cardinality(Notifiers') = Cardinality(Notifiers) + 1
      BY <1>0, <2>1, FS_AddElement
    <2>4. \A l, w, n \in Nat : l <= w + n => l + 1 <= w + (n + 1)
      OBVIOUS
    <2>5. Waiters # {} => \/ Broadcasters # {}
                         \/ Len(queue) <= Cardinality(Woken) + Cardinality(Notifiers)
      BY DEF NoLostWakeup
    <2>6. Len(queue) <= Cardinality(Woken) + Cardinality(Notifiers) =>
             Len(queue') <= Cardinality(Woken') + Cardinality(Notifiers')
      BY <1>0, <2>1, <2>2, <2>3, <2>4
    <2> QED
      BY <2>1, <2>5, <2>6, Zenon DEF NoLostWakeup
  <1>3. ASSUME NEW t \in Threads, PushAll(t) PROVE NoLostWakeup'
    <2>1. t \in Broadcasters'
      BY <1>3 DEF PushAll, AfterBatch, TypeOK, Broadcasters
    <2> QED
      BY <2>1 DEF NoLostWakeup
  <1>4. ASSUME NEW t \in Threads, NotifyOne(t) PROVE NoLostWakeup'
    <2>1. CASE Waiters = {} /\ pc' = [pc EXCEPT ![t] = "idle"]
      <3>1. Waiters' = {}
        BY <2>1 DEF TypeOK, Waiters
      <3> QED
        BY <3>1 DEF NoLostWakeup
    <2>2. ASSUME NEW w \in Waiters, pc' = [pc EXCEPT ![t] = "idle", ![w] = "woken"]
          PROVE  NoLostWakeup'
      <3>1. w \in Threads /\ w # t /\ pc[w] = "waiting" /\ pc[t] = "notifyOne"
        BY <1>4 DEF NotifyOne, Waiters
      <3>2. /\ Broadcasters' = Broadcasters
            /\ Woken' = Woken \cup {w} /\ w \notin Woken
            /\ Notifiers' = Notifiers \ {t} /\ t \in Notifiers
        BY <2>2, <3>1 DEF TypeOK, Waiters, Woken, Notifiers, Broadcasters
      <3>3. /\ Cardinality(Woken') = Cardinality(Woken) + 1
            /\ Cardinality(Notifiers') = Cardinality(Notifiers) - 1
        BY <1>0, <3>2, FS_AddElement, FS_RemoveElement
      <3>4. queue' = queue /\ Waiters # {}
        BY <1>4 DEF NotifyOne
      <3> QED
        BY <1>0, <3>2, <3>3, <3>4 DEF NoLostWakeup
    <2> QED
      BY <1>4, <2>1, <2>2 DEF NotifyOne
  <1>5. ASSUME NEW t \in Threads, NotifyAll(t) PROVE NoLostWakeup'
    <2>1. Waiters' = {}
      BY <1>5 DEF NotifyAll, TypeOK, Waiters
    <2> QED
      BY <2>1 DEF NoLostWakeup
  <1>6. ASSUME NEW t \in Threads, NEW limit \in {"one", "span", "all"},
               queue # <<>>, Dequeue(t, limit), pc[t] \in {"idle", "expired"}
        PROVE  NoLostWakeup'
    <2>1. /\ Waiters' = Waiters /\ Woken' = Woken /\ Notifiers' = Notifiers
          /\ Broadcasters' = Broadcasters
      BY <1>6 DEF Dequeue, TypeOK, Waiters, Woken, Notifiers, Broadcasters
    <2>2. Len(queue') <= Len(queue)
      <3>1. Taken(limit) \in 1 .. Len(queue)
        BY <1>6, TakenBounds
      <3>2. Len(queue') = Len(queue) - Taken(limit)
        BY <1>6, DequeueType
      <3>3. Len(queue) \in Nat
        BY LenProperties DEF TypeOK
      <3> QED
        BY <3>1, <3>2, <3>3
    <2> QED
      BY <2>1, <2>2, ShrinkKeepsWakeups
  <1>7. ASSUME NEW t \in Threads, NEW c \in Calls, Pop(t, c) PROVE NoLostWakeup'
    <2>1. CASE queue # <<>> /\ Dequeue(t, c.limit)
      BY <1>6, <1>7, <2>1 DEF Pop, Calls
    <2>2. CASE queue = <<>> /\ queue' = queue
      BY <2>2, EmptyNeedsNoWakeup
    <2> QED
      BY <1>7, <2>1, <2>2 DEF Pop, Leave
  <1>8. ASSUME NEW t \in Threads, Wake(t) PROVE NoLostWakeup'
    <2>1. CASE queue # <<>> /\ Dequeue(t, call[t].limit)
      <3>1. /\ Waiters' = Waiters /\ Notifiers' = Notifiers
            /\ Woken' = Woken \ {t} /\ t \in Woken
            /\ Broadcasters' = Broadcasters
        BY <1>8, <2>1 DEF Wake, Dequeue, TypeOK, Waiters, Woken, Notifiers, Broadcasters
      <3>2. Cardinality(Woken') = Cardinality(Woken) - 1
        BY <1>0, <3>1, FS_RemoveElement
      <3>3. call[t].limit \in {"one", "span", "all"}
        BY DEF TypeOK, Calls
      <3>4. Len(queue') <= Len(queue) - 1
        <4>1. Taken(call[t].limit) \in 1 .. Len(queue)
          BY <2>1, <3>3, TakenBounds
        <4>2. Len(queue') = Len(queue) - Taken(call[t].limit)
          BY <2>1, <3>3, DequeueType
        <4>3. Len(queue) \in Nat
          BY LenProperties DEF TypeOK
        <4> QED
          BY <4>1, <4>2, <4>3
      <3> QED
        BY <1>0, <3>1, <3>2, <3>4 DEF NoLostWakeup
    <2>2. CASE queue = <<>> /\ queue' = queue
      BY <2>2, EmptyNeedsNoWakeup
    <2> QED
      BY <1>8, <2>1, <2>2 DEF Wake, Available, Leave
  <1>9. ASSUME NEW t \in Threads, SpuriousWakeup(t) PROVE NoLostWakeup'
    <2>1. /\ t \in Waiters /\ Notifiers' = Notifiers /\ Broadcasters' = Broadcasters
          /\ Woken' = Woken \cup {t} /\ t \notin Woken /\ queue' = queue
      BY <1>9 DEF SpuriousWakeup, TypeOK, Waiters, Woken, Notifiers, Broadcasters
    <2>2. Cardinality(Woken') = Cardinality(Woken) + 1
      BY <1>0, <2>1, FS_AddElement
    <2>3. \A l, w, n \in Nat : l <= w + n => l <= (w + 1) + n
      OBVIOUS
    <2>4. Len(queue) \in Nat /\ Cardinality(Woken) \in Nat /\ Cardinality(Notifiers) \in Nat
      BY <1>0
    <2>5. \/ Broadcasters # {}
          \/ Len(queue) <= Cardinality(Woken) + Cardinality(Notifiers)
      BY <2>1 DEF NoLostWakeup
    <2> QED
      BY <2>1, <2>2, <2>3, <2>4, <2>5 DEF NoLostWakeup
  <1>10. ASSUME NEW t \in Threads, Expire(t) PROVE NoLostWakeup'
    <2>1. /\ Waiters' \subseteq Waiters /\ Notifiers' = Notifiers
          /\ Broadcasters' = Broadcasters /\ Woken' = Woken /\ queue' = queue
      BY <1>10 DEF Expire, TypeOK, Waiters, Woken, Notifiers, Broadcasters
    <2> QED
      BY <1>0, <2>1, ShrinkKeepsWakeups
  <1>11. ASSUME NEW t \in Threads, LastLook(t) PROVE NoLostWakeup'
    <2>1. call[t].limit \in {"one", "span", "all"}
      BY DEF TypeOK, Calls
    <2>2. CASE queue # <<>> /\ Dequeue(t, call[t].limit)
      BY <1>6, <1>11, <2>1, <2>2 DEF LastLook
    <2>3. CASE queue = <<>> /\ queue' = queue
      BY <2>3, EmptyNeedsNoWakeup
    <2> QED
      BY <1>11, <2>2, <2>3 DEF LastLook, Leave
  <1>12. ASSUME NEW t \in Threads, TryPopSome(t) PROVE NoLostWakeup'
    BY <1>6, <1>12 DEF TryPopSome
  <1>13. ASSUME NEW t \in Threads, NEW c \in Capacities, Reserve(t, c) PROVE NoLostWakeup'
    BY <1>1, <1>13 DEF Reserve
  <1>14. CASE UNCHANGED vars
    BY <1>1, <1>14 DEF vars
  <1> QED
    BY <1>2, <1>3, <1>4, <1>5, <1>7, <1>8, <1>9, <1>10, <1>11, <1>12, <1>13, <1>14 DEF Next

\* No wakeup is lost in Fifo: notifying after the mutex is released never
\* leaves a thread asleep with an element nobody is on the way to take.
THEOREM FifoLosesNoWakeup == Spec => []NoLostWakeup
  <1>1. Init => NoLostWakeup
    BY EmptySeq DEF Init, NoLostWakeup, Waiters
  <1>2. TypeOK /\ NoLostWakeup /\ [Next]_vars => NoLostWakeup'
    BY TypeStep, WakeupStep
  <1> QED
    BY <1>1, <1>2, FifoTypes, PTL DEF Spec

-----------------------------------------------------------------------------
(* The counters: the inductive invariant. *)

\* The threads that have yet to add to counter c.
Adding(c) == {t \in Writers : c \in left[t]}

StatsTypes == /\ event \in [Writers -> SUBSET Counters] /\ left \in [Writers -> SUBSET Counters]
              /\ resetting \subseteq Counters
              /\ value \in [Counters -> Nat]
              /\ after \in [Counters -> Nat] /\ overlapping \in [Counters -> Nat]

\* A counter that reset() has yet to store is behind only by events it runs
\* beside; any other will, with the adds under way, count the events after
\* reset() and some that ran beside it.  CountsSinceReset is this with nothing
\* under way, and says too little of a state before that.
Balance(v, p, a, o, pending) ==
  IF pending THEN p <= o /\ a = 0
  ELSE \E u, n \in Nat : v = u % Wrap /\ u + p = a + n /\ n <= o

StatsInv ==
  /\ StatsTypes
  /\ \A t \in Writers : left[t] \subseteq event[t]
  /\ resetting # {} => \A c \in Counters : after[c] = 0
  /\ \A c \in Counters :
       Balance(value[c], Cardinality(Adding(c)), after[c], overlapping[c], c \in resetting)

-----------------------------------------------------------------------------
(* Arithmetic and sets, for the counters. *)

\* The rest of a division.
LEMMA Remainder ==
  ASSUME NEW w \in Nat \ {0}, NEW q \in Nat, NEW r \in Nat, r < w
  PROVE  (w * q + r) % w = r
  OBVIOUS

\* Adding one to a counter that wraps.
LEMMA AddWraps ==
  ASSUME NEW w \in Nat \ {0}, NEW u \in Nat
  PROVE  ((u % w) + 1) % w = (u + 1) % w
  <1>1. PICK q \in Nat, r \in Nat : u = q * w + r /\ r < w /\ r = u % w
    BY SMT
  <1>2. CASE r + 1 < w
    <2>1. u + 1 = w * q + (r + 1) /\ r + 1 = w * 0 + (r + 1)
      BY <1>1
    <2>2. (w * q + (r + 1)) % w = r + 1 /\ (w * 0 + (r + 1)) % w = r + 1
      BY <1>2, Remainder
    <2> QED
      BY <1>1, <2>1, <2>2
  <1>3. CASE r + 1 = w
    <2>1. u + 1 = w * (q + 1) + 0 /\ r + 1 = w * 1 + 0
      BY <1>1, <1>3
    <2>2. (w * (q + 1) + 0) % w = 0 /\ (w * 1 + 0) % w = 0
      BY Remainder
    <2> QED
      BY <1>1, <2>1, <2>2
  <1> QED
    BY <1>1, <1>2, <1>3

\* Finitely many writers are between two additions.
LEMMA AddingCount ==
  \A c : IsFiniteSet(Adding(c)) /\ Cardinality(Adding(c)) \in Nat
  <1>1. \A c : Adding(c) \subseteq Writers
    BY DEF Adding
  <1> QED
    BY <1>1, FS_Subset, FS_CardinalityType, StatsAssumption

-----------------------------------------------------------------------------
(* The steps of counting and of reset(). *)

\* A writer begins to count an event.
LEMMA CountStep ==
  ASSUME StatsInv, NEW t \in Writers, NEW k \in Kinds, Count(t, k)
  PROVE  StatsInv'
  <1>1. StatsTypes /\ k \subseteq Counters /\ left[t] = {}
    BY DEF StatsInv, Count, Counters
  <1>2. /\ event' = [event EXCEPT ![t] = k] /\ left' = [left EXCEPT ![t] = k]
        /\ value' = value /\ resetting' = resetting
    BY DEF Count
  <1>3. /\ resetting = {} => /\ after' = [c \in Counters |-> IF c \in k THEN after[c] + 1 ELSE after[c]]
                             /\ overlapping' = overlapping
        /\ resetting # {} => /\ overlapping' = [c \in Counters |-> IF c \in k THEN overlapping[c] + 1
                                                                    ELSE overlapping[c]]
                             /\ after' = after
    BY DEF Count
  <1>4. StatsTypes'
    <2>1. after' \in [Counters -> Nat] /\ overlapping' \in [Counters -> Nat]
      <3>1. CASE resetting = {}
        BY <1>1, <1>3, <3>1 DEF StatsTypes
      <3>2. CASE resetting # {}
        BY <1>1, <1>3, <3>2 DEF StatsTypes
      <3> QED
        BY <3>1, <3>2
    <2> QED
      BY <1>1, <1>2, <2>1 DEF StatsTypes
  <1>5. (\A s \in Writers : left[s] \subseteq event[s])'
    BY <1>1, <1>2 DEF StatsTypes, StatsInv
  <1>6. (resetting # {} => \A c \in Counters : after[c] = 0)'
    BY <1>2, <1>3 DEF StatsInv
  <1>7. ASSUME NEW c \in Counters
        PROVE  Balance(value[c], Cardinality(Adding(c)), after[c], overlapping[c], c \in resetting)'
    <2>1. PICK p \in Nat, a \in Nat, o \in Nat, v \in Nat, r \in BOOLEAN :
             /\ p = Cardinality(Adding(c)) /\ a = after[c] /\ o = overlapping[c] /\ v = value[c]
             /\ r = (c \in resetting)
      <3>1. (c \in resetting) \in BOOLEAN
        OBVIOUS
      <3>2. after[c] \in Nat /\ overlapping[c] \in Nat /\ value[c] \in Nat
        BY <1>1 DEF StatsTypes
      <3> QED
        BY <3>1, <3>2, AddingCount, Zenon
    <2>2. Balance(v, p, a, o, r)
      BY <2>1 DEF StatsInv
    <2>3. CASE c \notin k
      <3>1. Adding(c)' = Adding(c)
        BY <1>1, <1>2, <2>3 DEF Adding, StatsTypes
      <3>2. after'[c] = a /\ overlapping'[c] = o
        BY <1>3, <2>1, <2>3
      <3> QED
        BY <1>2, <2>1, <2>2, <3>1, <3>2, Zenon
    <2>4. CASE c \in k
      <3>1. Adding(c)' = Adding(c) \cup {t} /\ t \notin Adding(c)
        BY <1>1, <1>2, <2>4 DEF Adding, StatsTypes
      <3>2. Cardinality(Adding(c) \cup {t}) = p + 1
        BY <2>1, <3>1, AddingCount, FS_AddElement
      <3>3. CASE resetting = {}
        <4>1. after'[c] = a + 1 /\ overlapping'[c] = o /\ r = FALSE
          BY <1>3, <2>1, <2>4, <3>3
        <4>2. Balance(v, p + 1, a + 1, o, r)
          <5>1. PICK u \in Nat, n \in Nat : v = u % Wrap /\ u + p = a + n /\ n <= o
            BY <2>2, <4>1 DEF Balance
          <5>2. u + (p + 1) = (a + 1) + n
            BY <5>1
          <5> QED
            BY <4>1, <5>1, <5>2 DEF Balance
        <4> QED
          BY <1>2, <2>1, <3>1, <3>2, <4>1, <4>2, Zenon
      <3>4. CASE resetting # {}
        <4>1. after'[c] = a /\ overlapping'[c] = o + 1
          BY <1>3, <2>1, <2>4, <3>4
        <4>2. Balance(v, p + 1, a, o + 1, r)
          <5>1. CASE r
            BY <2>2, <5>1 DEF Balance
          <5>2. CASE ~r
            <6>1. PICK u \in Nat, n \in Nat : v = u % Wrap /\ u + p = a + n /\ n <= o
              BY <2>2, <5>2 DEF Balance
            <6>2. n + 1 \in Nat /\ u + (p + 1) = a + (n + 1) /\ n + 1 <= o + 1
              BY <6>1
            <6> QED
              BY <5>2, <6>1, <6>2 DEF Balance
          <5> QED
            BY <5>1, <5>2
        <4> QED
          BY <1>2, <2>1, <3>1, <3>2, <4>1, <4>2, Zenon
      <3> QED
        BY <3>3, <3>4
    <2> QED
      BY <2>3, <2>4
  <1> QED
    BY <1>4, <1>5, <1>6, <1>7 DEF StatsInv

\* One fetch_add of that event.
LEMMA FetchAddStep ==
  ASSUME StatsInv, NEW t \in Writers, NEW c \in Counters, FetchAdd(t, c)
  PROVE  StatsInv'
  <1>1. StatsTypes /\ c \in left[t] /\ left[t] \subseteq event[t]
    BY DEF StatsInv, FetchAdd
  <1>2. /\ value' = [value EXCEPT ![c] = (@ + 1) % Wrap]
        /\ left' = [left EXCEPT ![t] = @ \ {c}]
        /\ event' = [event EXCEPT ![t] = IF left[t] = {c} THEN {} ELSE @]
        /\ resetting' = resetting /\ after' = after /\ overlapping' = overlapping
    BY DEF FetchAdd
  <1>3. Wrap \in Nat \ {0} /\ value[c] \in Nat
    BY <1>1, StatsAssumption DEF StatsTypes
  <1>4. (value[c] + 1) % Wrap \in Nat
    BY <1>3
  <1>5. StatsTypes'
    BY <1>1, <1>2, <1>4 DEF StatsTypes
  <1>6. (\A s \in Writers : left[s] \subseteq event[s])'
    BY <1>1, <1>2 DEF StatsTypes, StatsInv
  <1>7. (resetting # {} => \A d \in Counters : after[d] = 0)'
    BY <1>2 DEF StatsInv
  <1>8. ASSUME NEW d \in Counters
        PROVE  Balance(value[d], Cardinality(Adding(d)), after[d], overlapping[d], d \in resetting)'
    <2>1. PICK p \in Nat, a \in Nat, o \in Nat, v \in Nat, r \in BOOLEAN :
             /\ p = Cardinality(Adding(d)) /\ a = after[d] /\ o = overlapping[d] /\ v = value[d]
             /\ r = (d \in resetting)
      <3>1. (d \in resetting) \in BOOLEAN
        OBVIOUS
      <3>2. after[d] \in Nat /\ overlapping[d] \in Nat /\ value[d] \in Nat
        BY <1>1 DEF StatsTypes
      <3> QED
        BY <3>1, <3>2, AddingCount, Zenon
    <2>2. Balance(v, p, a, o, r)
      BY <2>1 DEF StatsInv
    <2>3. CASE d # c
      <3>1. Adding(d)' = Adding(d)
        BY <1>1, <1>2, <2>3 DEF Adding, StatsTypes
      <3>2. value'[d] = v
        BY <1>1, <1>2, <2>1, <2>3 DEF StatsTypes
      <3> QED
        BY <1>2, <2>1, <2>2, <3>1, <3>2, Zenon
    <2>4. CASE d = c
      <3>1. Adding(d)' = Adding(d) \ {t} /\ t \in Adding(d)
        BY <1>1, <1>2, <2>4 DEF Adding, StatsTypes
      <3>2. PICK m \in Nat : m = Cardinality(Adding(d) \ {t}) /\ p = m + 1
        <4>1. /\ IsFiniteSet(Adding(d) \ {t})
              /\ Cardinality(Adding(d) \ {t}) = Cardinality(Adding(d)) - 1
          BY <3>1, AddingCount, FS_RemoveElement
        <4>2. Cardinality(Adding(d) \ {t}) \in Nat
          BY <4>1, FS_CardinalityType
        <4>3. PICK m \in Nat : m = Cardinality(Adding(d) \ {t})
          BY <4>2
        <4>4. m = p - 1
          BY <2>1, <4>1, <4>3
        <4>5. p = m + 1
          BY <4>4
        <4> QED
          BY <4>3, <4>5
      <3>3. PICK w \in Nat : w = (v + 1) % Wrap
        BY <1>4, <2>1, <2>4
      <3>4. value'[d] = w
        BY <1>1, <1>2, <2>1, <2>4, <3>3 DEF StatsTypes
      <3>5. Balance(w, m, a, o, r)
        <4>1. CASE r
          BY <2>2, <3>2, <4>1 DEF Balance
        <4>2. CASE ~r
          <5>1. PICK u \in Nat, n \in Nat : v = u % Wrap /\ u + p = a + n /\ n <= o
            BY <2>2, <4>2 DEF Balance
          <5>2. u + 1 \in Nat /\ (u + 1) + m = a + n
            BY <3>2, <5>1
          <5>3. w = (u + 1) % Wrap
            BY <1>3, <3>3, <5>1, AddWraps
          <5> QED
            BY <4>2, <5>1, <5>2, <5>3 DEF Balance
        <4> QED
          BY <4>1, <4>2
      <3> QED
        BY <1>2, <2>1, <3>1, <3>2, <3>4, <3>5, Zenon
    <2> QED
      BY <2>3, <2>4
  <1> QED
    BY <1>5, <1>6, <1>7, <1>8 DEF StatsInv

\* reset() begins.
LEMMA ResetStep ==
  ASSUME StatsInv, Reset
  PROVE  StatsInv'
  <1> DEFINE Inside(c) == {t \in Writers : c \in event[t]}
  <1>1. /\ resetting' = Counters /\ after' = None
        /\ overlapping' = [c \in Counters |-> Cardinality(Inside(c))]
        /\ value' = value /\ event' = event /\ left' = left
    BY DEF Reset, Stored
  <1>2. StatsTypes /\ \A t \in Writers : left[t] \subseteq event[t]
    BY DEF StatsInv
  <1>3. ASSUME NEW c \in Counters
        PROVE  /\ Cardinality(Inside(c)) \in Nat /\ Cardinality(Adding(c)) \in Nat
               /\ Cardinality(Adding(c)) <= Cardinality(Inside(c))
    <2>1. Inside(c) \subseteq Writers /\ Adding(c) \subseteq Inside(c)
      BY <1>2 DEF Adding
    <2> HIDE DEF Inside
    <2>2. IsFiniteSet(Inside(c))
      BY <2>1, FS_Subset, StatsAssumption
    <2> QED
      BY <2>1, <2>2, FS_Subset, FS_CardinalityType
  <1> HIDE DEF Inside
  <1>4. StatsTypes'
    BY <1>1, <1>2, <1>3 DEF StatsTypes, None
  <1>5. ASSUME NEW c \in Counters
        PROVE  Balance(value[c], Cardinality(Adding(c)), after[c], overlapping[c], c \in resetting)'
    <2>1. Adding(c)' = Adding(c)
      BY <1>1 DEF Adding
    <2>2. after'[c] = 0 /\ overlapping'[c] = Cardinality(Inside(c)) /\ c \in resetting'
      BY <1>1 DEF None
    <2> QED
      BY <1>3, <2>1, <2>2 DEF Balance
  <1>6. (\A t \in Writers : left[t] \subseteq event[t])' /\ \A c \in Counters : after'[c] = 0
    BY <1>1, <1>2 DEF None
  <1> QED
    BY <1>4, <1>5, <1>6 DEF StatsInv

\* One store of reset().
LEMMA StoreStep ==
  ASSUME StatsInv, NEW c \in Counters, Store(c)
  PROVE  StatsInv'
  <1>1. /\ c \in resetting /\ value' = [value EXCEPT ![c] = 0] /\ resetting' = resetting \ {c}
        /\ event' = event /\ left' = left /\ after' = after /\ overlapping' = overlapping
    BY DEF Store
  <1>2. StatsTypes /\ (\A t \in Writers : left[t] \subseteq event[t]) /\ \A d \in Counters : after[d] = 0
    BY <1>1 DEF StatsInv
  <1>3. StatsTypes'
    BY <1>1, <1>2 DEF StatsTypes
  <1>4. ASSUME NEW d \in Counters
        PROVE  Balance(value[d], Cardinality(Adding(d)), after[d], overlapping[d], d \in resetting)'
    <2>1. Adding(d)' = Adding(d)
      BY <1>1 DEF Adding
    <2>2. CASE d # c
      <3>1. value'[d] = value[d] /\ (d \in resetting' <=> d \in resetting)
        BY <1>1, <1>2, <2>2 DEF StatsTypes
      <3>2. Balance(value[d], Cardinality(Adding(d)), after[d], overlapping[d], d \in resetting)
        BY DEF StatsInv
      <3> QED
        BY <1>1, <2>1, <3>1, <3>2 DEF Balance
    <2>3. CASE d = c
      <3>1. value'[d] = 0 /\ d \notin resetting'
        BY <1>1, <1>2, <2>3 DEF StatsTypes
      <3>2. PICK p \in Nat, o \in Nat : /\ p = Cardinality(Adding(d)) /\ o = overlapping[d]
        BY <1>2, AddingCount DEF StatsTypes
      <3>3. p <= o
        BY <1>1, <2>3, <3>2 DEF StatsInv, Balance
      <3>4. Balance(0, p, 0, o, FALSE)
        <4>1. 0 = 0 % Wrap
          BY StatsAssumption
        <4> QED
          BY <3>3, <4>1 DEF Balance
      <3>5. after[d] = 0
        BY <1>2
      <3> QED
        BY <1>1, <2>1, <3>1, <3>2, <3>4, <3>5 DEF Balance
    <2> QED
      BY <2>2, <2>3
  <1> QED
    BY <1>1, <1>2, <1>3, <1>4 DEF StatsInv

-----------------------------------------------------------------------------
(* The counters: the theorem. *)

\* The invariant holds at first ...
LEMMA StatsBegin == StatsInit => StatsInv
  <1> SUFFICES ASSUME StatsInit PROVE StatsInv
    OBVIOUS
  <1>1. StatsTypes /\ (\A t \in Writers : left[t] \subseteq event[t]) /\ resetting = {}
    BY DEF StatsInit, StatsTypes, None
  <1>2. ASSUME NEW c \in Counters
        PROVE  Balance(value[c], Cardinality(Adding(c)), after[c], overlapping[c], c \in resetting)
    <2>1. Adding(c) = {}
      BY DEF StatsInit, Adding
    <2>2. Cardinality(Adding(c)) = 0
      BY <2>1, FS_EmptySet
    <2>3. value[c] = 0 /\ after[c] = 0 /\ overlapping[c] = 0 /\ c \notin resetting
      BY DEF StatsInit, None
    <2>4. 0 = 0 % Wrap
      BY StatsAssumption
    <2> QED
      <3>1. \E u, n \in Nat : 0 = u % Wrap /\ u + 0 = 0 + n /\ n <= 0
        <4>1. 0 \in Nat /\ 0 + 0 = 0 + 0 /\ 0 <= 0
          OBVIOUS
        <4> QED
          BY <2>4, <4>1, Zenon
      <3> QED
        BY <2>2, <2>3, <3>1, Zenon DEF Balance
  <1> QED
    BY <1>1, <1>2 DEF StatsInv

\* ... and in every state.
LEMMA StatsInvHolds == StatsSpec => []StatsInv
  <1>1. StatsInv /\ [StatsNext]_statsVars => StatsInv'
    <2> SUFFICES ASSUME StatsInv, [StatsNext]_statsVars PROVE StatsInv'
      OBVIOUS
    <2>1. CASE StatsNext
      BY <2>1, CountStep, FetchAddStep, ResetStep, StoreStep DEF StatsNext
    <2>2. CASE UNCHANGED statsVars
      BY <2>2 DEF statsVars, StatsInv, StatsTypes, Adding
    <2> QED
      BY <2>1, <2>2
  <1> QED
    BY <1>1, StatsBegin, PTL DEF StatsSpec

\* Adds and stores of reset() in any order lose no event after the reset and
\* keep none before it, also when a counter wraps.
THEOREM ResetKeepsTheCount == StatsSpec => []CountsSinceReset
  <1>1. StatsInv => CountsSinceReset
    <2> SUFFICES ASSUME StatsInv, Quiet, NEW c \in Counters
                 PROVE  \E n \in 0 .. overlapping[c] : value[c] = (after[c] + n) % Wrap
      BY DEF CountsSinceReset
    <2>1. Adding(c) = {} /\ c \notin resetting
      BY DEF Quiet, Adding
    <2>2. Cardinality(Adding(c)) = 0
      BY <2>1, FS_EmptySet
    <2>3. PICK u \in Nat, n \in Nat : value[c] = u % Wrap /\ u + 0 = after[c] + n /\ n <= overlapping[c]
      BY <2>1, <2>2 DEF StatsInv, Balance
    <2>4. after[c] \in Nat /\ overlapping[c] \in Nat
      BY DEF StatsInv, StatsTypes
    <2>5. u = after[c] + n /\ n \in 0 .. overlapping[c]
      BY <2>3, <2>4
    <2> QED
      BY <2>3, <2>5
  <1> QED
    BY <1>1, StatsInvHolds, PTL

=============================================================================
