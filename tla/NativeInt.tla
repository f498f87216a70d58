------------------------------ MODULE NativeInt ------------------------------
(***************************************************************************)
(* Modular arithmetic on machine words: class NativeIntegerT of src/core/  *)
(* include/math/hal/intnat/ubintnat.h, in the build whose DNativeInt has   *)
(* twice the bits of NativeInt.  A method that works in place computes     *)
(* what its sibling returns and shares its operator.                       *)
(***************************************************************************)
EXTENDS Integers

CONSTANT W      \* bits of NativeInt (64)

\* What the constant is, assumed where the module is instantiated.
WordAssumption == W \in Nat /\ W > 7

\* Powers of two, as far as two words need them.
TwoTo[k \in 0 .. 2 * W + 3] == IF k = 0 THEN 1 ELSE 2 * TwoTo[k - 1]

Word(x) == x % TwoTo[W]

Words == 0 .. TwoTo[W] - 1

Hi(x) == x \div TwoTo[W]
Lo(x) == Word(x)

GetMSB(x) == IF x = 0 THEN 0 ELSE CHOOSE k \in 1 .. 2 * W : x \in TwoTo[k - 1] .. TwoTo[k] - 1

\* Subtracts the modulus once, where the code trusts that once is enough.
ReduceOnce(x, m) == IF x >= m THEN x - m ELSE x

\* a - b modulo m, for a, b < m.
Difference(a, b, m) == IF a < b THEN Word(a + m - b) ELSE a - b

ModAdd(a, b, m) == ReduceOnce(Word((a % m) + (b % m)), m)

ModAddFast(a, b, m) == ReduceOnce(Word(a + b), m)

ModSub(a, b, m) == Difference(a % m, b % m, m)

ModSubFast(a, b, m) == Difference(a, b, m)

\* Mutant: the power of two is one bit short.
ComputeMu_short(m) == Word(TwoTo[2 * GetMSB(m)] \div m)

ComputeMu(m) == Word(TwoTo[2 * GetMSB(m) + 3] \div m)

\* The two words of x shifted right into one.  A count that is no less than W
\* is undefined in C++; the processors take it modulo W.
RShiftD(x, shift) ==
    LET low  == Lo(x) \div TwoTo[shift % W]
        high == Word(Hi(x) * TwoTo[(W - shift) % W])
    IN  IF Hi(x) = 0 THEN low ELSE Word(low + high)

\* Barrett's estimate of x / m.
Quotient(x, m, mu) ==
    LET n == GetMSB(m) - 2
    IN  (RShiftD(x, n) * mu) \div TwoTo[n + 7]

\* Mod and ModEq with a mu.
ModMu(a, m, mu) == ReduceOnce(Word(a - Quotient(a, m, mu) * m), m)

ModMulFast(a, b, m, mu) ==
    ReduceOnce(Word(a * b - Quotient(a * b, m, mu) * m), m)

PrepModMulConst(b, m) == (b * TwoTo[W]) \div m

\* The word x read as a signed number.
Signed(x) == IF x < TwoTo[W - 1] THEN x ELSE x - TwoTo[W]

ModMulFastConst(a, b, m, bInv) ==
    LET q      == Hi(a * bInv) + 1
        yprime == Signed(Word(a * b - q * m))
    IN  IF yprime >= 0 THEN yprime ELSE yprime + m

Bit(e, k) == (e \div TwoTo[k]) % 2 = 1

\* Square and multiply over the bits of e from the lowest up: after[k] is what
\* the variables t and r hold once bit k is dealt with.
ModExp(a, e, m) ==
    LET after[k \in 0 .. W] ==
            IF k = 0
            THEN [t |-> a, r |-> IF Bit(e, 0) THEN a % m ELSE 1]
            ELSE LET last == after[k - 1]
                     t    == (last.t * last.t) % m
                 IN  [t |-> t, r |-> IF Bit(e, k) THEN (last.r * t) % m ELSE last.r]
    IN  after[IF e = 0 THEN 0 ELSE GetMSB(e) - 1].r

\* NativeVectorT::ModExp, one element: the exponent is reduced as well.
VectorModExp(a, e, m) == ModExp(a, IF e >= m THEN e % m ELSE e, m)

\* Mutant: the difference is not reduced first.
SwitchModulus_unreduced(v, om, nm) ==
    LET w == IF v > om \div 2 THEN Word(v + nm - om) ELSE v
    IN  IF nm <= om /\ w >= nm THEN w % nm ELSE w

\* NativeVectorT::SwitchModulus, one element: from modulus om to modulus nm.
SwitchModulus(v, om, nm) ==
    LET diff == IF nm > om THEN nm - om ELSE nm - (om % nm)
        w    == IF v > om \div 2 THEN Word(v + diff) ELSE v
    IN  IF nm <= om /\ w >= nm THEN w % nm ELSE w

ModByTwo(v, om) == (v + (IF v > om \div 2 THEN 1 ELSE 0)) % 2

\* NativeVectorT::Mod, one element.
VectorMod(v, om, nm) == IF nm = 2 THEN ModByTwo(v, om) ELSE SwitchModulus(v, om, nm)

\* The code multiplies p by a / q in doubles; the rounding of that quotient is
\* left out (for the operands of the runs it changes nothing).
MultiplyAndRound(a, p, q) == Word((2 * a * p + q) \div (2 * q))
=============================================================================
