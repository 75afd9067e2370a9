------------------------------- MODULE Words -------------------------------
(***************************************************************************)
(* Arithmetic shared by the readers: the width of an offset, the signed    *)
(* reading of one, rounding up, and the smaller of two lengths.            *)
(***************************************************************************)
EXTENDS Integers

CONSTANT U64_MAX    \* the largest u64

ASSUME WordAssumption == U64_MAX \in Nat /\ U64_MAX % 2 = 1

\* A u64, or a sum of two i64, as the i64 that `as i64` and a release-build
\* addition make of it.
AsI64(x) ==
    LET half == (U64_MAX + 1) \div 2
    IN  ((x + half) % (U64_MAX + 1)) - half

Min2(a, b) == IF a <= b THEN a ELSE b

CeilDiv(a, b) == (a + b - 1) \div b
=============================================================================
