------------------------------ MODULE ByteCodec ------------------------------
(***************************************************************************)
(* What the codecs of aether-core/src/coding share: bytes, results and     *)
(* little-endian integers.  A byte is a digit in base Base (256 in the     *)
(* code), so that a model with a small base meets every carry, shift and   *)
(* overflow a few digits from zero instead of billions.                    *)
(***************************************************************************)
EXTENDS Integers, Sequences, SequencesExt, FiniteSetsExt, Functions

CONSTANTS Base,         \* number of byte values; a power of two, 256 in the code
          MaxBlock      \* MAX_DECOMPRESSED_BLOCK_SIZE, 64 MiB in the code

ASSUME BaseAssumption == Base \in {4, 8, 16, 256}
ASSUME MaxBlockAssumption == MaxBlock \in Nat \ {0}

Byte == 0 .. Base - 1

\* A Result: the bytes decoded, or an error.
Ok(bytes) == [ok |-> TRUE, val |-> bytes]
Err == [ok |-> FALSE, val |-> << >>]

\* u32::to_le_bytes and u32::from_le_bytes.
LE32(n) == <<n % Base, (n \div Base) % Base, (n \div Base^2) % Base, n \div Base^3>>
FromLE32(s) == s[1] + s[2] * Base + s[3] * Base^2 + s[4] * Base^3

\* The same byte n times.
Fill(byte, n) == [i \in 1 .. n |-> byte]

\* The sum of the values f takes on S.
SumOn(f, S) == FoldFunctionOnSet(+, 0, f, S)

\* f applied n times to x.
Times(f(_), n, x) ==
    LET result[k \in 0 .. n] == IF k = 0 THEN x ELSE f(result[k - 1]) IN result[n]
==============================================================================
