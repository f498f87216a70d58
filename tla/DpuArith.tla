------------------------------ MODULE DpuArith ------------------------------
(***************************************************************************)
(* The DPUs' copy of the modular arithmetic: src/core/pim/dpu/include/     *)
(* operations.h, and modulus() of element-wise-ops.h.  "In this file i try *)
(* to put the same computations as the one being executed on openFHE"      *)
(* (operations.h:6-7).  Operators have the prefix Dpu; what is missing     *)
(* here is the same expression as in NativeInt.                            *)
(***************************************************************************)
EXTENDS NativeInt

CONSTANTS
    INT_BITS,   \* bits of int, the type of the literal 1 (32)
    Unset       \* an element of the result buffer that was never stored

DpuArithAssumption ==
    /\ WordAssumption
    /\ INT_BITS \in 2 .. W - 1
    /\ W % 2 = 0
    /\ Unset \notin Words

Half == TwoTo[W \div 2]

\* Karatsuba's product of two words, whose middle term is itself a word.
MultD_loses_carry(a, b) ==
    LET p1 == Word((a \div Half) * (b \div Half))
        p2 == Word((a % Half) * (b % Half))
        p3 == Word(((a \div Half) + (a % Half)) * ((b \div Half) + (b % Half)) - p1 - p2)
        lo == Word(p2 + (p3 % Half) * Half)
    IN  TwoTo[W] * Word(p1 + (p3 \div Half)) + lo

MultD(a, b) ==
    LET p1 == Word((a \div Half) * (b \div Half))
        p2 == Word((a % Half) * (b % Half))
        p3 == Word(((a \div Half) + (a % Half)) * ((b \div Half) + (b % Half)) - p1 - p2)
        lo == Word(p2 + (p3 % Half) * Half)
    IN  TwoTo[W] * Word(p1 + (p3 \div Half) + (IF lo < p2 THEN 1 ELSE 0)) + lo

\* 1 << shift in type int, converted to a word.  Shifting into or past the sign
\* is undefined; the processor takes the count modulo INT_BITS.
OneShifted(shift) ==
    IF shift % INT_BITS = INT_BITS - 1
    THEN Word(-(TwoTo[INT_BITS - 1]))
    ELSE TwoTo[shift % INT_BITS]

\* 2 * msb | 3, not 2 * msb + 3.
MuShift(m) == 2 * GetMSB(m) + (IF GetMSB(m) % 2 = 0 THEN 3 ELSE 1)

\* A power of two is divided by shifting, one place too far.
DpuComputeMu(m) ==
    IF m = TwoTo[GetMSB(m) - 1]
    THEN OneShifted(MuShift(m)) \div TwoTo[GetMSB(m)]
    ELSE OneShifted(MuShift(m)) \div m

\* MultD(RShiftD(x, n), mu) shifted by n + 7 into one word.
DpuQuotient(x, m, mu) ==
    LET n == GetMSB(m) - 2
    IN  RShiftD(MultD(RShiftD(x, n), mu), n + 7)

DpuModMu(a, m, mu) == ReduceOnce(Word(a - Lo(MultD(DpuQuotient(a, m, mu), m))), m)

\* ModMulFastB and ModMulFastEqB.
DpuModMulFastB(a, b, m, mu) ==
    LET product == MultD(a, b)
    IN  ReduceOnce(Word(Lo(product) - Lo(MultD(DpuQuotient(product, m, mu), m))), m)

\* ModMul, ModMulB and, in place, ModMulEqB.
DpuModMulB(a, b, m, mu) ==
    DpuModMulFastB(IF a >= m THEN DpuModMu(a, m, mu) ELSE a,
                   IF b >= m THEN DpuModMu(b, m, mu) ELSE b, m, mu)

\* Tests the modulus instead of the first operand.
DpuModSubFast(a, b, m) == IF m < b THEN Word(a + m - b) ELSE Word(a - b)

\* Subtracts b again after adding m - b.
DpuModSubEq(a, b, m) ==
    LET av == a % m
        bv == b % m
    IN  IF av < bv THEN Word(av + m - bv - bv) ELSE av - bv

DpuModSubFastEq(a, b, m) ==
    IF a < b THEN Word(a + m - b - b) ELSE a - b

\* Multiplies by q where p is meant.
DpuMultiplyAndRound(a, p, q) == Word(Word(a * q) + (q \div 2)) \div q

\* Mutant: an element equal to the new modulus is not reduced.
DpuModulus_strict(v, om, nm) ==
    IF nm = 2
    THEN Unset
    ELSE LET diff   == IF nm > om THEN nm - om ELSE nm - (om % nm)
             stored == IF v > om \div 2 THEN Word(v + diff) ELSE Unset
         IN  IF nm <= om /\ v > nm THEN v % nm ELSE stored

\* modulus(), one element: om is the old modulus, nm the new one.  Elements up
\* to half of om are not stored when nm is larger, nor those below nm otherwise.
\* With nm = 2 the operand's buffer is changed instead of the result's.
DpuModulus(v, om, nm) ==
    IF nm = 2
    THEN Unset
    ELSE LET diff   == IF nm > om THEN nm - om ELSE nm - (om % nm)
             stored == IF v > om \div 2 THEN Word(v + diff) ELSE Unset
         IN  IF nm <= om /\ v >= nm THEN v % nm ELSE stored
=============================================================================
