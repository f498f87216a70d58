----------------------------- MODULE ModInverse -----------------------------
(***************************************************************************)
(* The loop of NativeIntegerT::ModInverse (src/core/include/math/hal/      *)
(* intnat/ubintnat.h), which the DPUs' ModInverse (src/core/pim/dpu/       *)
(* include/operations.h) repeats word for word: Euclid's algorithm that    *)
(* carries one of Bezout's coefficients along.  The variables are those of *)
(* the code, signed numbers of W bits.                                     *)
(***************************************************************************)
EXTENDS Integers

CONSTANTS
    Moduli,
    W               \* bits of SignedNativeInt (64)

ASSUME InverseAssumption ==
    /\ W \in Nat \ {0}
    /\ Moduli \subseteq 1 .. 2^(W - 1) - 1

VARIABLES
    pc,             \* "test", "reduce", "returned", "thrown" or "trapped"
    m_value, mod,   \* the arguments
    a, modulus, x, y,
    result

vars == <<pc, m_value, mod, a, modulus, x, y, result>>

Init ==
    /\ mod \in Moduli
    /\ m_value \in 0 .. 2 * mod
    /\ a = m_value % mod /\ modulus = mod
    /\ x = 1 /\ y = 0
    /\ result = 0
    /\ pc = "test"

\* "does not have a ModInverse using".
ThrowZero ==
    /\ pc = "test" /\ a = 0
    /\ pc' = "thrown"
    /\ UNCHANGED <<m_value, mod, a, modulus, x, y, result>>

Enter ==
    /\ pc = "test" /\ a # 0
    /\ pc' = IF modulus = 1 THEN "returned" ELSE "reduce"
    /\ UNCHANGED <<m_value, mod, a, modulus, x, y, result>>

\* Mutant: the quotient is that of the next round.
Reduce_late_quotient ==
    LET t == modulus
        q == IF a % t = 0 THEN 0 ELSE t \div (a % t)
    IN  /\ pc = "reduce" /\ a > 1 /\ modulus # 0
        /\ modulus' = a % t
        /\ a' = t
        /\ y' = x - q * y
        /\ x' = y
        /\ UNCHANGED <<pc, m_value, mod, result>>

\* C++ division truncates towards zero; here a >= 0 and t > 0.
Reduce ==
    LET t == modulus
        q == a \div t
    IN  /\ pc = "reduce" /\ a > 1 /\ modulus # 0
        /\ modulus' = a % t
        /\ a' = t
        /\ y' = x - q * y
        /\ x' = y
        /\ UNCHANGED <<pc, m_value, mod, result>>

\* An integer division by zero traps.
Trap ==
    /\ pc = "reduce" /\ a > 1 /\ modulus = 0
    /\ pc' = "trapped"
    /\ UNCHANGED <<m_value, mod, a, modulus, x, y, result>>

\* Mutant: the loop is not left at one.
Return_at_zero ==
    /\ pc = "reduce" /\ a < 1
    /\ pc' = "returned"
    /\ result' = IF x < 0 THEN x + mod ELSE x
    /\ UNCHANGED <<m_value, mod, a, modulus, x, y>>

\* Mutant: returns the coefficient as it is.
Return_signed ==
    /\ pc = "reduce" /\ a <= 1
    /\ pc' = "returned"
    /\ result' = x
    /\ UNCHANGED <<m_value, mod, a, modulus, x, y>>

Return ==
    /\ pc = "reduce" /\ a <= 1
    /\ pc' = "returned"
    /\ result' = IF x < 0 THEN x + mod ELSE x
    /\ UNCHANGED <<m_value, mod, a, modulus, x, y>>

Next == ThrowZero \/ Enter \/ Reduce \/ Trap \/ Return

\* A thread keeps executing its loop.
Spec == Init /\ [][Next]_vars /\ WF_vars(Next)
-----------------------------------------------------------------------------
Divides(d, n) == n % d = 0

Coprime(p, q) == \A d \in 2 .. p : ~(Divides(d, p) /\ Divides(d, q))

Signed == -(2^(W - 1)) .. 2^(W - 1) - 1

\* The variables hold numbers of their types.
TypeOK ==
    /\ pc \in {"test", "reduce", "returned", "thrown", "trapped"}
    /\ mod \in Moduli /\ m_value \in Nat
    /\ a \in Nat /\ modulus \in Nat
    /\ x \in Int /\ y \in Int /\ result \in Int

(***************************************************************************)
(* Bezout: before and after each round x and y are, modulo mod, the        *)
(* multiples of the argument that a and modulus are.                       *)
(***************************************************************************)
Bezout ==
    pc \in {"test", "reduce"} =>
        /\ Divides(mod, x * m_value - a)
        /\ Divides(mod, y * m_value - modulus)

(***************************************************************************)
(* No variable, and no intermediate product, leaves the signed word: the   *)
(* coefficients stay within the modulus.                                   *)
(***************************************************************************)
NoOverflow ==
    /\ {a, modulus, x, y} \subseteq Signed
    /\ (pc = "reduce" /\ a > 1 /\ modulus # 0) =>
          /\ (a \div modulus) * y \in Signed
          /\ x - (a \div modulus) * y \in Signed

(***************************************************************************)
(* What is returned is the inverse, reduced; an argument that has one is   *)
(* neither refused nor divided by zero for (ubintnat.h, ModInverse).       *)
(***************************************************************************)
ReturnsInverse ==
    mod > 1 =>
        /\ pc = "returned" => result \in 1 .. mod - 1 /\ (result * m_value) % mod = 1
        /\ pc \in {"thrown", "trapped"} => ~Coprime(mod, m_value)

\* The loop ends for every argument.
Terminates == <>(pc \in {"returned", "thrown", "trapped"})
=============================================================================
