------------------------------ MODULE HashCalls -----------------------------
(***************************************************************************)
(* The software hashes at work: CalcHash with a key of full length on any  *)
(* input that BuildHashInput may produce, which grows byte by byte here.   *)
(***************************************************************************)
EXTENDS SoftHash

CONSTANT MaxBytes   \* kMaxHashInputBytes, 36

ASSUME HashCallsAssumption == MaxBytes \in Nat /\ MaxBytes + WordBytes <= KeyBytes

VARIABLES key, data

hashVars == <<key, data>>

HashInit == key \in [1..KeyBytes -> Byte] /\ data = <<>>

NextInput == /\ Len(data) = MaxBytes
             /\ data' = <<>>
             /\ UNCHANGED key

LongerInput == /\ Len(data) < MaxBytes
               /\ \E b \in Byte : data' = Append(data, b)
               /\ UNCHANGED key

HashNext == NextInput \/ LongerInput

HashSpec == HashInit /\ [][HashNext]_hashVars

-----------------------------------------------------------------------------
(* Properties *)

\* key320_hash_calc computes the Toeplitz hash: its sliding window still
\* holds the right key bits when the last input byte is hashed, although the
\* key ends there.
ToeplitzIsExact == key320_hash_calc(key, data) = Toeplitz(key, data)

\* crc32_calc computes the CRC of the input, whatever seed the key gives: the
\* complement of what it returns is the remainder of the division by the
\* generator.
CrcIsExact ==
  IsRemainder(Word \ crc32_calc(data, CrcSeed(key)),
              Dividend(data, CrcSeed(key)), ByteBits * Len(data))

=============================================================================
