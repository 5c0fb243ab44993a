------------------------------ MODULE SoftHash ------------------------------
(***************************************************************************)
(* The hash functions of hash.cpp as operators on sequences of bytes.      *)
(* Bytes are numbers; a word, and what the functions compute with, is the  *)
(* set of the positions at which it has a one, position 0 being the lowest *)
(* bit.  The widths are constants, 8 bits and 4 bytes in the code, so that *)
(* small instances can be checked for every input.                         *)
(***************************************************************************)
EXTENDS Integers, Sequences, FiniteSets, FiniteSetsExt

CONSTANTS ByteBits,   \* bits of a byte, 8
          WordBytes,  \* bytes of a hash, 4
          KeyBytes,   \* kToeplitzKeyBytes, 40
          Polynomial  \* the reflected CRC polynomial, 0xEDB88320, as a word

WordBits == ByteBits * WordBytes
Word == 0..(WordBits - 1)
Window == 0..(2 * WordBits - 1)

ASSUME SoftHashAssumption ==
  /\ {ByteBits, WordBytes, KeyBytes} \subseteq Nat \ {0}
  /\ KeyBytes >= 2 * WordBytes
  /\ Polynomial \subseteq Word

Byte == 0..(2^ByteBits - 1)

Bits(x) == {b \in 0..(ByteBits - 1) : (x \div 2^b) % 2 = 1}
Xor(v, w) == (v \ w) \cup (w \ v)
Shifted(w, n) == {b + n : b \in w}
Number(w) == MapThenSumSet(LAMBDA b : 2^b, w)

\* The state after n rounds of a loop
Iterate(loop, start, n) ==
  LET state[m \in Nat] == IF m = 0 THEN start ELSE loop[state[m - 1]]
  IN  state[n]

\* The counters of the two nested loops, over the bytes and over their bits
LoopCounters == [i : Nat, bit : 0..(ByteBits - 1)]
NextByte(s) == s.bit = ByteBits - 1
Advance(s) == IF NextByte(s) THEN [i |-> s.i + 1, bit |-> 0]
                             ELSE [i |-> s.i, bit |-> s.bit + 1]

\* The first word of the key, lowest byte first
KeyWord(key) == UNION {Shifted(Bits(key[i]), ByteBits * (i - 1)) : i \in 1..WordBytes}

\* simple_xor_calc: byte i goes to lane i % 4, and the key is mixed in
simple_xor_calc(data, key) ==
  LET hash[i \in 0..Len(data)] ==
        IF i = 0 THEN {}
        ELSE Xor(hash[i - 1], Shifted(Bits(data[i]), ByteBits * ((i - 1) % WordBytes)))
  IN  Xor(hash[Len(data)], IF Len(key) >= WordBytes THEN KeyWord(key) ELSE {})

\* Mutant: the last key byte is never used.
NextKeyByteShort(key, i) == IF i + 1 < KeyBytes THEN Bits(key[i + 1]) ELSE {}

NextKeyByte(key, i) == IF i < KeyBytes THEN Bits(key[i + 1]) ELSE {}

\* A window of two words slides over the key; its upper word is added in where
\* the input bit, highest first, is set.  After each byte the next key byte
\* enters below.
ToeplitzLoop(key, data) ==
  [s \in [at : LoopCounters, prefix : SUBSET Window, hash : SUBSET Word] |->
     LET bit     == ByteBits - 1 - s.at.bit
         upper   == {b \in Word : b + WordBits \in s.prefix}
         shifted == Shifted(s.prefix, 1) \cap Window
         below   == NextKeyByte(key, 2 * WordBytes + s.at.i)
     IN  [at     |-> Advance(s.at),
          prefix |-> IF NextByte(s.at) THEN shifted \cup below ELSE shifted,
          hash   |-> IF bit \in Bits(data[s.at.i + 1]) THEN Xor(s.hash, upper) ELSE s.hash]]

key320_hash_calc(key, data) ==
  LET prefix == UNION {Shifted(Bits(key[i]), ByteBits * (2 * WordBytes - i)) : i \in 1..(2 * WordBytes)}
  IN  Iterate(ToeplitzLoop(key, data),
              [at |-> [i |-> 0, bit |-> 0], prefix |-> prefix, hash |-> {}],
              ByteBits * Len(data)).hash

\* Mutant: the bit is tested after the shift.
CrcShiftLate(crc) ==
  LET shifted == {b \in Word : b + 1 \in crc}
  IN  IF 0 \in shifted THEN Xor(shifted, Polynomial) ELSE shifted

\* One bit of crc32_calc: 0u - (crc & 1) is all ones or zero
CrcShift(crc) ==
  LET shifted == {b \in Word : b + 1 \in crc}
  IN  IF 0 \in crc THEN Xor(shifted, Polynomial) ELSE shifted

CrcLoop(data) ==
  [s \in [at : LoopCounters, crc : SUBSET Word] |->
     LET crc == IF s.at.bit = 0 THEN Xor(s.crc, Bits(data[s.at.i + 1])) ELSE s.crc
     IN  [at |-> Advance(s.at), crc |-> CrcShift(crc)]]

crc32_calc(data, seed) ==
  Word \ Iterate(CrcLoop(data), [at |-> [i |-> 0, bit |-> 0], crc |-> seed],
                 ByteBits * Len(data)).crc

CrcSeed(key) == IF Len(key) >= WordBytes THEN Xor(Word, KeyWord(key)) ELSE Word

\* The switch of CalcHash.  Toeplitz with a short key is 0.
SoftwareHash(hf, key, input) ==
  CASE hf = "TOEPLITZ"   -> IF Len(key) < KeyBytes THEN 0 ELSE Number(key320_hash_calc(key, input))
    [] hf = "SIMPLE_XOR" -> Number(simple_xor_calc(input, key))
    [] hf = "CRC32"      -> Number(crc32_calc(input, CrcSeed(key)))
    [] OTHER             -> 0

-----------------------------------------------------------------------------
(* What the two bit-serial hashes are, by definition *)

Odd(S) == Cardinality(S) % 2 = 1

\* Bit n of a sequence of bytes, each byte highest or lowest bit first
HighFirst(bytes, n) == ByteBits - 1 - (n % ByteBits) \in Bits(bytes[1 + n \div ByteBits])
LowFirst(bytes, n)  == n % ByteBits \in Bits(bytes[1 + n \div ByteBits])

Positions(data) == 0..(ByteBits * Len(data) - 1)

\* The Toeplitz matrix: bit j of the hash, counted from above, is the parity
\* of the input bits n for which key bit n + j is set
Toeplitz(key, data) ==
  {b \in Word : Odd({n \in Positions(data) : HighFirst(data, n)
                                             /\ HighFirst(key, n + WordBits - 1 - b)})}

\* The coefficients of the generator, from the highest power down
Generator == {0} \cup Shifted(Polynomial, 1)

\* The dividend of the CRC: the message, each byte lowest bit first, followed
\* by a word of zeros, with the seed added to its first bits
Dividend(data, seed) == Xor({n \in Positions(data) : LowFirst(data, n)}, seed)

\* The product of a polynomial and the generator, modulo 2
Multiple(quotient, length) ==
  {p \in 0..(length + WordBits - 1) : Odd({n \in quotient : p - n \in Generator})}

\* Division by the generator: dividend and remainder, which is of lower degree
\* than the generator, differ by a multiple of it
IsRemainder(rest, dividend, length) ==
  \E quotient \in SUBSET (0..(length - 1)) :
    Xor(dividend, Shifted(rest, length)) = Multiple(quotient, length)

=============================================================================
