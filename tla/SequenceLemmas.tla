--------------------------- MODULE SequenceLemmas ---------------------------
(* Facts that several proofs need: about sequences, most of them without   *)
(* repetition, about numbers and finite sets by induction, and about sums. *)
EXTENDS Integers, Sequences, Functions, SequenceTheorems, FiniteSetTheorems, WellFoundedInduction, TLAPS

\* Appending a new element.
LEMMA AppendFresh ==
  ASSUME NEW S, NEW s \in Seq(S), NEW e \in S, e \notin Range(s), IsInjective(s)
  PROVE  /\ Append(s, e) \in Seq(S)
         /\ Range(Append(s, e)) = Range(s) \cup {e}
         /\ IsInjective(Append(s, e))
  <1> DEFINE t == Append(s, e)
  <1>1. /\ t \in Seq(S) /\ Len(t) = Len(s) + 1
        /\ \A i \in 1 .. Len(s) : t[i] = s[i]
        /\ t[Len(s) + 1] = e
    BY AppendProperties
  <1>2. Len(s) \in Nat /\ DOMAIN s = 1 .. Len(s) /\ DOMAIN t = 1 .. Len(s) + 1
    BY <1>1, LenProperties
  <1> HIDE DEF t
  <1>3. Range(t) = Range(s) \cup {e}
    BY <1>1, <1>2 DEF Range
  <1>4. ASSUME NEW i \in DOMAIN t, NEW j \in DOMAIN t, t[i] = t[j] PROVE i = j
    <2>1. CASE i = Len(s) + 1 /\ j \in 1 .. Len(s)
      BY <1>1, <1>2, <1>4, <2>1 DEF Range
    <2>2. CASE j = Len(s) + 1 /\ i \in 1 .. Len(s)
      BY <1>1, <1>2, <1>4, <2>2 DEF Range
    <2>3. CASE i \in 1 .. Len(s) /\ j \in 1 .. Len(s)
      BY <1>1, <1>2, <1>4, <2>3 DEF IsInjective
    <2> QED
      BY <1>2, <2>1, <2>2, <2>3
  <1>5. IsInjective(t)
    BY <1>4 DEF IsInjective
  <1> QED
    BY <1>1, <1>3, <1>5 DEF t

\* What is left when a prefix is cut off.
LEMMA DropElements ==
  ASSUME NEW S, NEW s \in Seq(S), NEW n \in 0 .. Len(s)
  PROVE  /\ SubSeq(s, n + 1, Len(s)) \in Seq(S)
         /\ Len(SubSeq(s, n + 1, Len(s))) = Len(s) - n
         /\ \A i \in 1 .. Len(s) - n : SubSeq(s, n + 1, Len(s))[i] = s[n + i]
  <1> DEFINE t == SubSeq(s, n + 1, Len(s))
  <1>1. Len(s) \in Nat /\ \A i \in 1 .. Len(s) : s[i] \in S
    BY LenProperties, ElementOfSeq
  <1>2. n + 1 \in Int /\ Len(s) \in Int /\ \A i \in n + 1 .. Len(s) : s[i] \in S
    BY <1>1
  <1>3. /\ t \in Seq(S)
        /\ Len(t) = IF n + 1 <= Len(s) THEN Len(s) - (n + 1) + 1 ELSE 0
        /\ \A i \in 1 .. Len(s) - (n + 1) + 1 : t[i] = s[n + 1 + i - 1]
    BY <1>2, SubSeqProperties
  <1> HIDE DEF t
  <1>4. Len(t) = Len(s) - n
    <2>1. Len(t) = IF n + 1 <= Len(s) THEN Len(s) - (n + 1) + 1 ELSE 0
      BY <1>3
    <2>2. Len(s) \in Nat /\ n \in Nat /\ n <= Len(s)
      BY <1>1
    <2>3. \A m, k \in Nat : m <= k => (IF m + 1 <= k THEN k - (m + 1) + 1 ELSE 0) = k - m
      OBVIOUS
    <2> QED
      BY <2>1, <2>2, <2>3
  <1>5. ASSUME NEW i \in 1 .. Len(s) - n PROVE t[i] = s[n + i]
    <2>1. i \in 1 .. Len(s) - (n + 1) + 1 /\ n + 1 + i - 1 = n + i
      BY <1>1
    <2>2. t[i] = s[n + 1 + i - 1]
      BY <1>3, <2>1
    <2> QED
      BY <2>1, <2>2
  <1> QED
    BY <1>3, <1>4, <1>5 DEF t

\* Cutting off a prefix.
LEMMA DropPrefix ==
  ASSUME NEW S, NEW s \in Seq(S), NEW n \in 0 .. Len(s), IsInjective(s)
  PROVE  /\ SubSeq(s, n + 1, Len(s)) \in Seq(S)
         /\ IsInjective(SubSeq(s, n + 1, Len(s)))
         /\ Range(SubSeq(s, n + 1, Len(s))) = Range(s) \ {s[i] : i \in 1 .. n}
         /\ {s[i] : i \in 1 .. n} \subseteq Range(s)
  <1> DEFINE t == SubSeq(s, n + 1, Len(s))
             d == {s[i] : i \in 1 .. n}
  <1>1. Len(s) \in Nat /\ DOMAIN s = 1 .. Len(s)
    BY LenProperties
  <1>3. t \in Seq(S) /\ Len(t) = Len(s) - n /\ \A i \in 1 .. Len(s) - n : t[i] = s[n + i]
    BY DropElements
  <1> HIDE DEF t
  <1>4. /\ Len(t) = Len(s) - n
        /\ \A i \in 1 .. Len(t) : t[i] = s[n + i]
    BY <1>3
  <1>5. DOMAIN t = 1 .. Len(t) /\ Len(t) \in Nat
    BY <1>3, LenProperties
  <1>6. IsInjective(t)
    <2> SUFFICES ASSUME NEW i \in DOMAIN t, NEW j \in DOMAIN t, t[i] = t[j] PROVE i = j
      BY DEF IsInjective
    <2>0. n \in Nat /\ i \in 1 .. Len(s) - n /\ j \in 1 .. Len(s) - n
      BY <1>1, <1>4, <1>5
    <2>1. n + i \in DOMAIN s /\ n + j \in DOMAIN s /\ s[n + i] = s[n + j]
      <3>1. n + i \in 1 .. Len(s) /\ n + j \in 1 .. Len(s)
        BY <1>1, <2>0
      <3>2. t[i] = s[n + i] /\ t[j] = s[n + j]
        BY <1>4, <1>5
      <3> QED
        BY <1>1, <3>1, <3>2
    <2>2. n + i = n + j
      BY <2>1 DEF IsInjective
    <2> QED
      BY <2>0, <2>2
  <1>7. d \subseteq Range(s)
    BY <1>1 DEF Range
  <1>8. ASSUME NEW x \in Range(t) PROVE x \in Range(s) \ d
    <2>1. PICK i \in DOMAIN t : x = t[i]
      BY DEF Range
    <2>2. n + i \in DOMAIN s /\ x = s[n + i]
      <3>1. i \in 1 .. Len(s) - n /\ t[i] = s[n + i]
        BY <1>4, <1>5
      <3> QED
        BY <1>1, <2>1, <3>1
    <2>3. ASSUME NEW j \in 1 .. n, s[j] = x PROVE FALSE
      <3>1. j \in DOMAIN s
        BY <1>1
      <3>2. j = n + i
        BY <2>2, <2>3, <3>1 DEF IsInjective
      <3> QED
        BY <1>5, <3>2
    <2> QED
      BY <2>2, <2>3 DEF Range
  <1>9. ASSUME NEW x \in Range(s), x \notin d PROVE x \in Range(t)
    <2>1. PICK k \in DOMAIN s : x = s[k]
      BY DEF Range
    <2>2. k \notin 1 .. n
      BY <1>9, <2>1
    <2>3. k - n \in DOMAIN t /\ t[k - n] = s[n + (k - n)]
      BY <1>1, <1>4, <1>5, <2>2
    <2>4. n + (k - n) = k
      BY <1>1
    <2> QED
      BY <2>1, <2>3, <2>4 DEF Range
  <1>10. Range(t) = Range(s) \ d
    BY <1>8, <1>9
  <1> QED
    BY <1>3, <1>4, <1>6, <1>7, <1>10 DEF t

\* Taking off the first element.
LEMMA DropFirst ==
  ASSUME NEW S, NEW s \in Seq(S), s # <<>>, IsInjective(s),
         NEW t, t = SubSeq(s, 1, 0) \o SubSeq(s, 2, Len(s))
  PROVE  /\ t \in Seq(S) /\ Len(t) = Len(s) - 1 /\ Len(s) >= 1
         /\ \A i \in 1 .. Len(t) : t[i] = s[i + 1]
         /\ IsInjective(t)
         /\ Range(t) = Range(s) \ {s[1]} /\ s[1] \in Range(s)
  <1> DEFINE u == SubSeq(s, 2, Len(s))
  <1>1. Len(s) \in Nat /\ Len(s) >= 1 /\ DOMAIN s = 1 .. Len(s) /\ \A i \in 1 .. Len(s) : s[i] \in S
    BY LenProperties, ElementOfSeq, EmptySeq
  <1>2. SubSeq(s, 1, 0) = <<>>
    BY <1>1, SubSeqEmpty
  <1>3. /\ u \in Seq(S) /\ IsInjective(u) /\ Range(u) = Range(s) \ {s[i] : i \in 1 .. 1}
        /\ {s[i] : i \in 1 .. 1} \subseteq Range(s)
    <2>1. 1 \in 0 .. Len(s) /\ 1 + 1 = 2
      BY <1>1
    <2> QED
      BY <2>1, DropPrefix
  <1>4. t = u
    BY <1>2, <1>3, ConcatEmptySeq
  <1>5. {s[i] : i \in 1 .. 1} = {s[1]}
    OBVIOUS
  <1>6. Len(u) = Len(s) - 1 /\ \A i \in 1 .. Len(s) - 1 : u[i] = s[i + 1]
    <2>1. \A i \in 2 .. Len(s) : s[i] \in S
      BY <1>1
    <2>2. /\ Len(u) = IF 2 <= Len(s) THEN Len(s) - 2 + 1 ELSE 0
          /\ \A i \in 1 .. Len(s) - 2 + 1 : u[i] = s[2 + i - 1]
      BY <1>1, <2>1, SubSeqProperties
    <2> QED
      BY <1>1, <2>2
  <1>7. /\ u \in Seq(S) /\ Len(u) = Len(s) - 1 /\ Len(s) >= 1
        /\ \A i \in 1 .. Len(u) : u[i] = s[i + 1]
        /\ IsInjective(u)
        /\ Range(u) = Range(s) \ {s[1]} /\ s[1] \in Range(s)
    BY <1>1, <1>3, <1>5, <1>6
  <1> HIDE DEF u
  <1> QED
    BY <1>4, <1>7

Increasing(s) == \A i, j \in DOMAIN s : i < j => s[i] < s[j]

\* A larger number at the end of an increasing sequence.
LEMMA IncreasingAppend ==
  ASSUME NEW S \in SUBSET Nat, NEW s \in Seq(S), NEW e \in S,
         Increasing(s), \A x \in Range(s) : x < e
  PROVE  Increasing(Append(s, e)) /\ Range(Append(s, e)) = Range(s) \cup {e}
  <1> DEFINE t == Append(s, e)
  <1>1. /\ t \in Seq(S) /\ Len(t) = Len(s) + 1
        /\ \A i \in 1 .. Len(s) : t[i] = s[i]
        /\ t[Len(s) + 1] = e
    BY AppendProperties
  <1>2. Len(s) \in Nat /\ DOMAIN s = 1 .. Len(s) /\ DOMAIN t = 1 .. Len(s) + 1
    BY <1>1, LenProperties
  <1> HIDE DEF t
  <1>3. ASSUME NEW i \in DOMAIN t, NEW j \in DOMAIN t, i < j PROVE t[i] < t[j]
    <2>1. i \in 1 .. Len(s) /\ t[i] = s[i] /\ t[i] \in Range(s)
      BY <1>1, <1>2, <1>3 DEF Range
    <2>2. CASE j = Len(s) + 1
      BY <1>1, <2>1, <2>2
    <2>3. CASE j \in 1 .. Len(s)
      BY <1>1, <1>2, <1>3, <2>1, <2>3 DEF Increasing
    <2> QED
      BY <1>2, <2>2, <2>3
  <1>4. Range(t) = Range(s) \cup {e}
    BY <1>1, <1>2 DEF Range
  <1> QED
    BY <1>3, <1>4 DEF Increasing, t

\* The rest of an increasing sequence is increasing, and above what was cut off.
LEMMA IncreasingDrop ==
  ASSUME NEW S \in SUBSET Nat, NEW s \in Seq(S), NEW n \in 0 .. Len(s), Increasing(s)
  PROVE  /\ Increasing(SubSeq(s, n + 1, Len(s)))
         /\ Range(SubSeq(s, n + 1, Len(s))) \subseteq Range(s)
         /\ \A i \in 1 .. n : s[i] \in Range(s)
         /\ \A i \in 1 .. n : \A x \in Range(SubSeq(s, n + 1, Len(s))) : s[i] < x
  <1> DEFINE t == SubSeq(s, n + 1, Len(s))
  <1>1. Len(s) \in Nat /\ DOMAIN s = 1 .. Len(s)
    BY LenProperties
  <1>2. t \in Seq(S) /\ Len(t) = Len(s) - n /\ \A i \in 1 .. Len(s) - n : t[i] = s[n + i]
    BY DropElements
  <1> HIDE DEF t
  <1>3. DOMAIN t = 1 .. Len(s) - n
    BY <1>2, LenProperties
  <1>4. ASSUME NEW i \in DOMAIN t
        PROVE  i \in Nat /\ n + i \in DOMAIN s /\ n < n + i /\ t[i] = s[n + i]
    <2>1. i \in 1 .. Len(s) - n /\ n \in Nat
      BY <1>3
    <2>2. n + i \in 1 .. Len(s) /\ n < n + i
      BY <1>1, <2>1
    <2> QED
      BY <1>1, <1>2, <2>1, <2>2
  <1>5. Increasing(t)
    <2> SUFFICES ASSUME NEW i \in DOMAIN t, NEW j \in DOMAIN t, i < j PROVE t[i] < t[j]
      BY DEF Increasing
    <2>1. n + i < n + j
      BY <1>4
    <2> QED
      BY <1>4, <2>1 DEF Increasing
  <1>6. Range(t) \subseteq Range(s)
    BY <1>4 DEF Range
  <1>7. \A i \in 1 .. n : s[i] \in Range(s)
    BY <1>1 DEF Range
  <1>8. ASSUME NEW i \in 1 .. n, NEW x \in Range(t) PROVE s[i] < x
    <2>1. PICK k \in DOMAIN t : x = t[k]
      BY DEF Range
    <2>2. i \in DOMAIN s /\ i < n + k /\ n + k \in DOMAIN s /\ x = s[n + k]
      BY <1>1, <1>4, <2>1
    <2> QED
      BY <2>2 DEF Increasing
  <1> QED
    BY <1>5, <1>6, <1>7, <1>8 DEF t

-----------------------------------------------------------------------------
(* Induction, with the set of the numbers or sets for which a fact holds in the *)
(* place of the predicate.                                                       *)

\* A set of numbers that is not empty has a least element.
LEMMA LeastNumber ==
  ASSUME NEW T \in SUBSET Nat, T # {}
  PROVE  \E n \in T : \A m \in T : n <= m
  <1> DEFINE R == OpToRel(<, Nat)
  <1>1. IsWellFoundedOn(R, Nat)
    BY NatLessThanWellFounded, Zenon
  <1> HIDE DEF R
  <1>2. PICK n \in T : \A m \in T : ~ (<<m, n>> \in R)
    BY <1>1, WFMin
  <1>3. \A m \in T : ~ (m < n)
    BY <1>2 DEF R, OpToRel
  <1> QED
    BY <1>3

\* Induction over the natural numbers.
LEMMA NumberInduction ==
  ASSUME NEW T, 0 \in T, \A n \in Nat : n \in T => n + 1 \in T
  PROVE  Nat \subseteq T
  <1> SUFFICES ASSUME Nat \ T # {} PROVE FALSE
    OBVIOUS
  <1>1. PICK n \in Nat \ T : \A m \in Nat \ T : n <= m
    BY LeastNumber
  <1>2. n - 1 \in Nat /\ n - 1 \in T
    BY <1>1
  <1> QED
    BY <1>1, <1>2

\* Iterating a function.
LEMMA Iteration ==
  ASSUME NEW S, NEW b \in S, NEW next \in [S -> S]
  PROVE  \E s \in [Nat -> S] : s[0] = b /\ \A n \in Nat : s[n + 1] = next[s[n]]
  <1> DEFINE Run(h, n) == /\ h \in [0 .. n -> S] /\ h[0] = b
                          /\ \A j \in 0 .. n - 1 : h[j + 1] = next[h[j]]
             T == {n \in Nat : \E h : Run(h, n)}
             H(n) == CHOOSE h : Run(h, n)
             s == [n \in Nat |-> H(n)[n]]
  <1>1. 0 \in T
    <2> DEFINE g == [j \in 0 .. 0 |-> b]
    <2>1. Run(g, 0)
      OBVIOUS
    <2> QED
      BY <2>1
  <1>2. ASSUME NEW n \in Nat, n \in T PROVE n + 1 \in T
    <2>1. PICK h : Run(h, n)
      BY <1>2
    <2> DEFINE g == [j \in 0 .. n + 1 |-> IF j \in 0 .. n THEN h[j] ELSE next[h[n]]]
    <2>2. Run(g, n + 1)
      <3>1. g \in [0 .. n + 1 -> S] /\ g[0] = b
        BY <2>1
      <3>2. ASSUME NEW j \in 0 .. n PROVE g[j + 1] = next[g[j]]
        <4>1. CASE j = n
          BY <4>1
        <4>2. CASE j # n
          <5>1. j \in 0 .. n - 1 /\ j + 1 \in 0 .. n /\ j + 1 \in 0 .. n + 1 /\ j \in 0 .. n + 1
            BY <4>2
          <5>2. h[j + 1] = next[h[j]]
            BY <2>1, <5>1
          <5> QED
            BY <5>1, <5>2
        <4> QED
          BY <4>1, <4>2
      <3> QED
        BY <3>1, <3>2, SMTT(30)
    <2> QED
      BY <2>2, SMTT(30)
  <1> HIDE DEF T
  <1>3. Nat \subseteq T
    BY <1>1, <1>2, NumberInduction
  <1>4. \A n \in Nat : Run(H(n), n)
    BY <1>3 DEF T
  <1>5. ASSUME NEW m \in Nat, NEW n \in Nat, NEW g, NEW h, Run(g, m), Run(h, n), m <= n
        PROVE  \A j \in 0 .. m : g[j] = h[j]
    <2> DEFINE Q == {j \in Nat : j <= m => g[j] = h[j]}
    <2>1. 0 \in Q
      BY <1>5
    <2>2. ASSUME NEW j \in Nat, j \in Q PROVE j + 1 \in Q
      <3> SUFFICES ASSUME j + 1 <= m PROVE g[j + 1] = h[j + 1]
        OBVIOUS
      <3>1. j \in 0 .. m - 1 /\ j \in 0 .. n - 1 /\ g[j] = h[j]
        BY <1>5, <2>2
      <3> QED
        BY <1>5, <3>1
    <2> HIDE DEF Q
    <2>3. Nat \subseteq Q
      BY <2>1, <2>2, NumberInduction
    <2> QED
      BY <2>3 DEF Q
  <1> HIDE DEF H
  <1>6. s \in [Nat -> S]
    BY <1>4
  <1>7. s[0] = b
    BY <1>4
  <1>8. ASSUME NEW n \in Nat PROVE s[n + 1] = next[s[n]]
    <2>1. Run(H(n), n) /\ Run(H(n + 1), n + 1)
      BY <1>4
    <2>2. n \in 0 .. n /\ n \in 0 .. (n + 1) - 1 /\ n <= n + 1
      OBVIOUS
    <2>3. H(n + 1)[n + 1] = next[H(n + 1)[n]]
      BY <2>1, <2>2
    <2> HIDE DEF Run
    <2>4. H(n)[n] = H(n + 1)[n]
      BY <1>5, <2>1, <2>2
    <2> QED
      BY <2>3, <2>4
  <1> HIDE DEF s
  <1> QED
    BY <1>6, <1>7, <1>8

\* Induction over the subsets of a finite set, one element less at a time.
LEMMA SubsetInduction ==
  ASSUME NEW D, IsFiniteSet(D), NEW P, {} \in P,
         \A s \in SUBSET D : s # {} /\ (\A x \in s : s \ {x} \in P) => s \in P
  PROVE  SUBSET D \subseteq P
  <1> DEFINE T == {n \in Nat : \A s \in SUBSET D : Cardinality(s) = n => s \in P}
  <1>1. \A s \in SUBSET D : IsFiniteSet(s) /\ Cardinality(s) \in Nat /\ (Cardinality(s) = 0 <=> s = {})
    BY FS_Subset, FS_CardinalityType, FS_EmptySet
  <1>2. 0 \in T
    BY <1>1
  <1>3. ASSUME NEW n \in Nat, n \in T PROVE n + 1 \in T
    <2> SUFFICES ASSUME NEW s \in SUBSET D, Cardinality(s) = n + 1 PROVE s \in P
      OBVIOUS
    <2>1. ASSUME NEW x \in s PROVE s \ {x} \in P
      <3>1. Cardinality(s \ {x}) = n
        BY <1>1, FS_RemoveElement
      <3> QED
        BY <1>3, <3>1
    <2>2. s # {}
      BY <1>1
    <2> QED
      BY <2>1, <2>2
  <1> HIDE DEF T
  <1>4. Nat \subseteq T
    BY <1>2, <1>3, NumberInduction
  <1> QED
    BY <1>1, <1>4 DEF T

-----------------------------------------------------------------------------
(* Sums: what SumFunctionOnSet of the module Functions computes. *)

Pick(s) == CHOOSE x \in s : TRUE

\* One level of the recursion SumFunctionOnSet is defined by.
SumBody(f, h, D) == [s \in SUBSET D |-> IF s = {} THEN 0 ELSE f[Pick(s)] + h[s \ {Pick(s)}]]

\* An element of a set that is not empty.
LEMMA PickIn == \A s : s # {} => Pick(s) \in s
  BY DEF Pick

\* SumFunctionOnSet is the function that solves the recursion, if there is one.
LEMMA SumIsFixpoint ==
  ASSUME NEW f, NEW D, \E h : h = SumBody(f, h, D)
  PROVE  \E h : h = SumBody(f, h, D) /\ SumFunctionOnSet(f, D) = h[D]
  <1>1. SumFunctionOnSet(f, D) = (CHOOSE h : h = SumBody(f, h, D))[D]
    BY DEF SumFunctionOnSet, FoldFunctionOnSet, MapThenFoldSet, SumBody, Pick
  <1> QED
    BY <1>1

\* There is one: it can be extended from the sets of up to n elements to those of n + 1.
LEMMA SumExists ==
  ASSUME NEW f, NEW D, IsFiniteSet(D)
  PROVE  \E h : h = SumBody(f, h, D)
  <1> DEFINE Upto(n) == {s \in SUBSET D : Cardinality(s) <= n}
             Body(h, n) == [s \in Upto(n) |-> IF s = {} THEN 0 ELSE f[Pick(s)] + h[s \ {Pick(s)}]]
             T == {n \in Nat : \E h : h = Body(h, n)}
  <1>1. \A s \in SUBSET D : IsFiniteSet(s) /\ Cardinality(s) \in Nat /\ (Cardinality(s) = 0 <=> s = {})
    BY FS_Subset, FS_CardinalityType, FS_EmptySet
  <1>2. 0 \in T
    <2> DEFINE g == [s \in Upto(0) |-> 0]
    <2>1. \A s \in Upto(0) : s = {}
      BY <1>1
    <2>2. g = Body(g, 0)
      BY <2>1
    <2> QED
      BY <2>2
  <1>3. ASSUME NEW n \in Nat, n \in T PROVE n + 1 \in T
    <2>1. PICK h : h = Body(h, n)
      BY <1>3
    <2> DEFINE g == Body(h, n + 1)
    <2>2. ASSUME NEW s \in Upto(n + 1), s # {} PROVE s \ {Pick(s)} \in Upto(n)
      <3>1. s \in SUBSET D /\ Cardinality(s) <= n + 1 /\ Pick(s) \in s /\ IsFiniteSet(s)
        BY <1>1, <2>2, PickIn
      <3>2. Cardinality(s \ {Pick(s)}) = Cardinality(s) - 1 /\ Cardinality(s) \in Nat
        BY <1>1, <3>1, FS_RemoveElement
      <3> QED
        BY <3>1, <3>2
    <2>3. \A s \in Upto(n) : s \in Upto(n + 1)
      BY <1>1
    <2>4. \A s \in Upto(n) : g[s] = h[s]
      <3> SUFFICES ASSUME NEW s \in Upto(n) PROVE g[s] = h[s]
        OBVIOUS
      <3>1. g[s] = IF s = {} THEN 0 ELSE f[Pick(s)] + h[s \ {Pick(s)}]
        BY <2>3
      <3>2. h[s] = IF s = {} THEN 0 ELSE f[Pick(s)] + h[s \ {Pick(s)}]
        BY <2>1
      <3> QED
        BY <3>1, <3>2
    <2>5. \A s \in Upto(n + 1) : g[s] = IF s = {} THEN 0 ELSE f[Pick(s)] + g[s \ {Pick(s)}]
      <3> SUFFICES ASSUME NEW s \in Upto(n + 1)
                   PROVE  g[s] = IF s = {} THEN 0 ELSE f[Pick(s)] + g[s \ {Pick(s)}]
        OBVIOUS
      <3>1. g[s] = IF s = {} THEN 0 ELSE f[Pick(s)] + h[s \ {Pick(s)}]
        OBVIOUS
      <3>2. s # {} => g[s \ {Pick(s)}] = h[s \ {Pick(s)}]
        BY <2>2, <2>4
      <3> QED
        BY <3>1, <3>2
    <2>6. DOMAIN g = Upto(n + 1) /\ g = [s \in Upto(n + 1) |-> g[s]]
      OBVIOUS
    <2> HIDE DEF g, Upto
    <2>7. g = Body(g, n + 1)
      BY <2>5, <2>6
    <2> QED
      BY <2>7
  <1> HIDE DEF T
  <1>4. Nat \subseteq T
    BY <1>2, <1>3, NumberInduction
  <1>5. PICK h : h = Body(h, Cardinality(D))
    BY <1>1, <1>4 DEF T
  <1>6. Upto(Cardinality(D)) = SUBSET D
    BY FS_Subset
  <1> HIDE DEF Upto
  <1> QED
    BY <1>5, <1>6 DEF SumBody

\* Two solutions agree where the summands do.
LEMMA SumUnique ==
  ASSUME NEW f, NEW g, NEW D, NEW E, NEW h, NEW k, NEW S, IsFiniteSet(S), S \subseteq D, S \subseteq E,
         h = SumBody(f, h, D), k = SumBody(g, k, E), \A x \in S : f[x] = g[x]
  PROVE  h[S] = k[S]
  <1> DEFINE P == {s \in SUBSET S : h[s] = k[s]}
  <1>1. /\ \A s \in SUBSET S : h[s] = IF s = {} THEN 0 ELSE f[Pick(s)] + h[s \ {Pick(s)}]
        /\ \A s \in SUBSET S : k[s] = IF s = {} THEN 0 ELSE g[Pick(s)] + k[s \ {Pick(s)}]
    BY DEF SumBody
  <1>2. {} \in P
    BY <1>1
  <1>3. ASSUME NEW s \in SUBSET S, s # {}, \A x \in s : s \ {x} \in P PROVE s \in P
    <2>1. Pick(s) \in s
      BY <1>3, PickIn
    <2>2. f[Pick(s)] = g[Pick(s)] /\ h[s \ {Pick(s)}] = k[s \ {Pick(s)}]
      BY <1>3, <2>1
    <2> QED
      BY <1>1, <1>3, <2>2
  <1> HIDE DEF P
  <1>4. SUBSET S \subseteq P
    BY <1>2, <1>3, SubsetInduction
  <1> QED
    BY <1>4 DEF P

\* The recursion, for the sum itself.
LEMMA SumUnfold ==
  ASSUME NEW f, NEW S, IsFiniteSet(S)
  PROVE  SumFunctionOnSet(f, S) =
            IF S = {} THEN 0 ELSE f[Pick(S)] + SumFunctionOnSet(f, S \ {Pick(S)})
  <1> DEFINE U == S \ {Pick(S)}
  <1>1. IsFiniteSet(U) /\ U \subseteq S
    BY FS_Subset
  <1> HIDE DEF U
  <1>2. PICK h : h = SumBody(f, h, S) /\ SumFunctionOnSet(f, S) = h[S]
    BY SumExists, SumIsFixpoint
  <1>3. PICK k : k = SumBody(f, k, U) /\ SumFunctionOnSet(f, U) = k[U]
    BY <1>1, SumExists, SumIsFixpoint
  <1>4. h[U] = k[U]
    BY <1>1, <1>2, <1>3, SumUnique
  <1>5. h[S] = IF S = {} THEN 0 ELSE f[Pick(S)] + h[U]
    BY <1>2 DEF SumBody, U
  <1> QED
    BY <1>2, <1>3, <1>4, <1>5 DEF U

\* Sums of equal summands are equal.
LEMMA SumAgree ==
  ASSUME NEW f, NEW g, NEW S, IsFiniteSet(S), \A x \in S : f[x] = g[x]
  PROVE  SumFunctionOnSet(f, S) = SumFunctionOnSet(g, S)
  <1>1. PICK h : h = SumBody(f, h, S) /\ SumFunctionOnSet(f, S) = h[S]
    BY SumExists, SumIsFixpoint
  <1>2. PICK k : k = SumBody(g, k, S) /\ SumFunctionOnSet(g, S) = k[S]
    BY SumExists, SumIsFixpoint
  <1> QED
    BY <1>1, <1>2, SumUnique

\* A sum of natural numbers is one.
LEMMA SumIsNatural ==
  ASSUME NEW f, NEW S, IsFiniteSet(S), \A x \in S : f[x] \in Nat
  PROVE  SumFunctionOnSet(f, S) \in Nat
  <1> DEFINE P == {s \in SUBSET S : SumFunctionOnSet(f, s) \in Nat}
  <1>1. \A s \in SUBSET S : IsFiniteSet(s)
    BY FS_Subset
  <1>2. {} \in P
    <2>1. SumFunctionOnSet(f, {}) = 0
      BY <1>1, SumUnfold
    <2> QED
      BY <2>1
  <1>3. ASSUME NEW s \in SUBSET S, s # {}, \A x \in s : s \ {x} \in P PROVE s \in P
    <2>1. Pick(s) \in s
      BY <1>3, PickIn
    <2>2. SumFunctionOnSet(f, s) = f[Pick(s)] + SumFunctionOnSet(f, s \ {Pick(s)})
      BY <1>1, <1>3, SumUnfold
    <2>3. f[Pick(s)] \in Nat /\ SumFunctionOnSet(f, s \ {Pick(s)}) \in Nat
      BY <1>3, <2>1
    <2> QED
      BY <2>2, <2>3
  <1> HIDE DEF P
  <1>4. SUBSET S \subseteq P
    BY <1>2, <1>3, SubsetInduction
  <1> QED
    BY <1>4 DEF P

\* Any element can be taken out first.
LEMMA SumRemove ==
  ASSUME NEW f, NEW S, IsFiniteSet(S), \A x \in S : f[x] \in Nat, NEW e \in S
  PROVE  SumFunctionOnSet(f, S) = f[e] + SumFunctionOnSet(f, S \ {e})
  <1> DEFINE Sum(s) == SumFunctionOnSet(f, s)
             P == {s \in SUBSET S : \A x \in s : Sum(s) = f[x] + Sum(s \ {x})}
  <1>1. \A s \in SUBSET S : IsFiniteSet(s)
    BY FS_Subset
  <1>2. \A s \in SUBSET S : Sum(s) \in Nat
    BY <1>1, SumIsNatural
  <1>3. \A s \in SUBSET S : s # {} => Sum(s) = f[Pick(s)] + Sum(s \ {Pick(s)})
    BY <1>1, SumUnfold
  <1> HIDE DEF Sum
  <1>4. {} \in P
    OBVIOUS
  <1>5. ASSUME NEW s \in SUBSET S, s # {}, \A x \in s : s \ {x} \in P PROVE s \in P
    <2> SUFFICES ASSUME NEW x \in s PROVE Sum(s) = f[x] + Sum(s \ {x})
      OBVIOUS
    <2>1. PICK c : c = Pick(s) /\ c \in s
      BY <1>5, PickIn
    <2>2. Sum(s) = f[c] + Sum(s \ {c})
      BY <1>3, <1>5, <2>1
    <2>3. CASE x # c
      <3> DEFINE r == s \ {c, x}
      <3>1. (s \ {c}) \ {x} = r /\ (s \ {x}) \ {c} = r
        OBVIOUS
      <3>2. Sum(s \ {c}) = f[x] + Sum((s \ {c}) \ {x})
        BY <1>5, <2>1, <2>3
      <3>3. Sum(s \ {x}) = f[c] + Sum((s \ {x}) \ {c})
        BY <1>5, <2>1, <2>3
      <3>4. f[c] \in Nat /\ f[x] \in Nat /\ Sum(r) \in Nat
        BY <1>2, <2>1
      <3> HIDE DEF r
      <3>5. Sum(s) = f[c] + (f[x] + Sum(r)) /\ Sum(s \ {x}) = f[c] + Sum(r)
        BY <2>2, <3>1, <3>2, <3>3
      <3> QED
        BY <3>4, <3>5
    <2> QED
      BY <2>2, <2>3
  <1> HIDE DEF P
  <1>6. SUBSET S \subseteq P
    BY <1>4, <1>5, SubsetInduction
  <1> QED
    BY <1>6 DEF P, Sum

\* Changing one summand changes the sum as much.
LEMMA SumChange ==
  ASSUME NEW S, IsFiniteSet(S), NEW f \in [S -> Nat], NEW g \in [S -> Nat], NEW e \in S,
         \A x \in S : x # e => g[x] = f[x]
  PROVE  /\ SumFunction(f) \in Nat /\ SumFunction(g) \in Nat
         /\ SumFunction(g) + f[e] = SumFunction(f) + g[e]
  <1> DEFINE R == S \ {e}
  <1>1. IsFiniteSet(R)
    BY FS_Subset
  <1>2. SumFunctionOnSet(f, R) = SumFunctionOnSet(g, R)
    BY <1>1, SumAgree
  <1>3. SumFunctionOnSet(f, R) \in Nat
    BY <1>1, SumIsNatural
  <1>4. /\ SumFunctionOnSet(f, S) = f[e] + SumFunctionOnSet(f, R)
        /\ SumFunctionOnSet(g, S) = g[e] + SumFunctionOnSet(g, R)
    BY SumRemove
  <1>5. SumFunction(f) = SumFunctionOnSet(f, S) /\ SumFunction(g) = SumFunctionOnSet(g, S)
    BY DEF SumFunction
  <1>6. f[e] \in Nat /\ g[e] \in Nat
    OBVIOUS
  <1> HIDE DEF R
  <1>7. \A u, v, m \in Nat : (v + m) + u = (u + m) + v
    OBVIOUS
  <1> QED
    BY <1>2, <1>3, <1>4, <1>5, <1>6, <1>7

\* A sum of zeroes is zero.
LEMMA SumOfZeroes ==
  ASSUME NEW S, IsFiniteSet(S), NEW f, DOMAIN f = S, \A x \in S : f[x] = 0
  PROVE  SumFunction(f) = 0
  <1> DEFINE P == {s \in SUBSET S : SumFunctionOnSet(f, s) = 0}
  <1>1. \A s \in SUBSET S : IsFiniteSet(s)
    BY FS_Subset
  <1>2. {} \in P
    BY <1>1, SumUnfold
  <1>3. ASSUME NEW s \in SUBSET S, s # {}, \A x \in s : s \ {x} \in P PROVE s \in P
    <2>1. Pick(s) \in s
      BY <1>3, PickIn
    <2>2. SumFunctionOnSet(f, s) = f[Pick(s)] + SumFunctionOnSet(f, s \ {Pick(s)})
      BY <1>1, <1>3, SumUnfold
    <2>3. f[Pick(s)] = 0 /\ SumFunctionOnSet(f, s \ {Pick(s)}) = 0
      BY <1>3, <2>1
    <2> QED
      BY <2>2, <2>3
  <1> HIDE DEF P
  <1>4. SUBSET S \subseteq P
    BY <1>2, <1>3, SubsetInduction
  <1> QED
    BY <1>4 DEF P, SumFunction

\* One summand more at the end of a list.
LEMMA SumAppend ==
  ASSUME NEW n \in Nat, NEW f \in [1 .. n -> Nat], NEW g \in [1 .. n + 1 -> Nat],
         \A i \in 1 .. n : g[i] = f[i]
  PROVE  SumFunction(f) \in Nat /\ SumFunction(g) = SumFunction(f) + g[n + 1]
  <1>1. IsFiniteSet(1 .. n) /\ IsFiniteSet(1 .. n + 1)
    BY FS_Interval
  <1>2. (1 .. n + 1) \ {n + 1} = 1 .. n /\ n + 1 \in 1 .. n + 1
    OBVIOUS
  <1>3. SumFunctionOnSet(g, 1 .. n + 1) = g[n + 1] + SumFunctionOnSet(g, (1 .. n + 1) \ {n + 1})
    BY <1>1, <1>2, SumRemove
  <1>4. SumFunctionOnSet(g, 1 .. n) = SumFunctionOnSet(f, 1 .. n)
    BY <1>1, SumAgree
  <1>5. SumFunctionOnSet(f, 1 .. n) \in Nat /\ g[n + 1] \in Nat
    BY <1>1, <1>2, SumIsNatural
  <1>6. SumFunction(f) = SumFunctionOnSet(f, 1 .. n) /\ SumFunction(g) = SumFunctionOnSet(g, 1 .. n + 1)
    BY DEF SumFunction
  <1>7. \A u, v \in Nat : u + v = v + u
    OBVIOUS
  <1>8. SumFunctionOnSet(g, 1 .. n + 1) = g[n + 1] + SumFunctionOnSet(f, 1 .. n)
    BY <1>2, <1>3, <1>4, Zenon
  <1> QED
    BY <1>5, <1>6, <1>7, <1>8, Zenon
=============================================================================
