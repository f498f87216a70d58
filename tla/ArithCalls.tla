----------------------------- MODULE ArithCalls -----------------------------
(***************************************************************************)
(* The modular arithmetic of the host and of the DPUs, called with an      *)
(* element of a vector, the vector's modulus and another operand, and      *)
(* compared with exact arithmetic and with each other.                     *)
(***************************************************************************)
EXTENDS DpuArith

CONSTANTS
    Operands,       \* the words passed as operands
    Moduli,
    MaxExponent     \* of the calls of ModExp that are compared

\* Moduli have at most W - 4 bits, as the library's do (60 of 64).
CallsAssumption ==
    /\ DpuArithAssumption
    /\ Operands \subseteq Words
    /\ \A m \in Moduli : m \in 2 .. TwoTo[W - 4] - 1
    /\ MaxExponent \in Nat

VARIABLES
    modulus,
    element,
    operand         \* Unset before the call

vars == <<modulus, element, operand>>

Init ==
    /\ modulus \in Moduli
    /\ element \in Operands
    /\ operand = Unset

Call ==
    /\ operand = Unset
    /\ operand' \in Operands
    /\ UNCHANGED <<modulus, element>>

Spec == Init /\ [][Call]_vars
-----------------------------------------------------------------------------
Called == operand # Unset

\* The calls of the "Fast" functions: both operands are less than the modulus.
CalledReduced == Called /\ element < modulus /\ operand < modulus

mu == ComputeMu(modulus)

\* mu is cut to a word: this is false for one modulus of W - 4 bits, 2^(W - 5).
MuFits == TwoTo[2 * GetMSB(modulus) + 3] \div modulus \in Words

(***************************************************************************)
(* Additions and subtractions return the residue, for operands of any size *)
(* and although sums are taken in words (ModAdd, ModSub, their Fast forms  *)
(* and SwitchModulus's neighbours in ubintnat.h).                          *)
(***************************************************************************)
AdditiveExact ==
    /\ Called =>
          /\ ModAdd(element, operand, modulus) = (element + operand) % modulus
          /\ ModSub(element, operand, modulus) = (element - operand) % modulus
    /\ CalledReduced =>
          /\ ModAddFast(element, operand, modulus) = (element + operand) % modulus
          /\ ModSubFast(element, operand, modulus) = (element - operand) % modulus

(***************************************************************************)
(* Barrett reduction with alpha = n + 3 estimates the quotient so well     *)
(* that one conditional subtraction always suffices, for every modulus of  *)
(* up to W - 4 bits whose mu fits a word: for products, and for any word   *)
(* below 2^(2*n + 2), n the bits of the modulus.  "None of the dividends   *)
(* will be larger than 2^(2*n + 3)" (ubintnat.h:1354-1355) allows one bit  *)
(* too many: 5559 < 2^13 keeps a whole modulus 17 (ComputeMu, ModMulFast,  *)
(* ModMu).                                                                 *)
(***************************************************************************)
BarrettExact ==
    MuFits =>
        /\ CalledReduced =>
              ModMulFast(element, operand, modulus, mu) = (element * operand) % modulus
        /\ element < TwoTo[2 * GetMSB(modulus) + 2] =>
              ModMu(element, modulus, mu) = element % modulus
        /\ modulus = 17 /\ element = 5559 => ModMu(element, modulus, mu) = 17

(***************************************************************************)
(* Shoup's multiplication: the quotient from the precomputed factor is off *)
(* by at most one, and the sign of a word that wrapped around tells when   *)
(* (ubintnat.h, PrepModMulConst and ModMulFastConst).                      *)
(***************************************************************************)
ShoupExact ==
    CalledReduced =>
        ModMulFastConst(element, operand, modulus, PrepModMulConst(operand, modulus))
            = (element * operand) % modulus

Power[k \in 0 .. MaxExponent] == IF k = 0 THEN 1 ELSE (Power[k - 1] * element) % modulus

(***************************************************************************)
(* Square-and-multiply over the exponent's bits gives the power, and so    *)
(* does the vectors' form as long as the exponent is less than the modulus *)
(* (ModExp of ubintnat.h and of mubintvecnat.cpp, which reduces it).       *)
(***************************************************************************)
ExpExact ==
    CalledReduced /\ operand <= MaxExponent =>
        /\ ModExp(element, operand, modulus) = Power[operand]
        /\ VectorModExp(element, operand, modulus) = Power[operand]

Centred(v, om) == IF v > om \div 2 THEN v - om ELSE v

(***************************************************************************)
(* Changing the modulus keeps the signed number that the element stands    *)
(* for: residues above half of the old modulus are negative, to the larger *)
(* modulus and to the smaller (NativeVectorT::SwitchModulus and Mod).  The *)
(* branch of Mod for the new modulus 2 takes the old one to be odd.        *)
(***************************************************************************)
SwitchKeepsCentred ==
    Called /\ element < modulus /\ operand \in Moduli
    /\ (operand = 2 => modulus % 2 = 1) =>
        VectorMod(element, modulus, operand) = Centred(element, modulus) % operand

(***************************************************************************)
(* The DPUs' product of two words is exact as long as the middle term of   *)
(* Karatsuba's formula fits a word, as it does for operands below half the *)
(* range, and then their Barrett multiplication is the host's when it is   *)
(* given the host's mu and the modulus has at most W - 6 bits, so that     *)
(* n + 7 is a shift within a word (operations.h: MultD, ModMulFastB,       *)
(* ModMulB, ModMu).                                                        *)
(***************************************************************************)
DpuBarrettExact ==
    /\ Called /\ element < TwoTo[W - 1] /\ operand < TwoTo[W - 1] =>
          MultD(element, operand) = element * operand
    /\ Called /\ GetMSB(modulus) <= W - 6 =>
          /\ CalledReduced =>
                DpuModMulFastB(element, operand, modulus, mu) = ModMulFast(element, operand, modulus, mu)
          /\ element < modulus * modulus /\ operand < modulus * modulus =>
                DpuModMulB(element, operand, modulus, mu) = (element * operand) % modulus

(***************************************************************************)
(* Where the DPUs' other operations compute what the host computes, and    *)
(* where they do not: subtractions when nothing has to be borrowed, mu for *)
(* moduli of an even number of bits that are no power of two and so small  *)
(* that 1 << shift is an int, scaling when it would change nothing, and    *)
(* Mod for the elements that the branch taken stores (ModSubFast,          *)
(* ModSubEq, ModSubFastEq, ComputeMu, MultiplyAndRound, modulus).          *)
(***************************************************************************)
MuAgrees ==
    GetMSB(modulus) % 2 = 0 /\ modulus # TwoTo[GetMSB(modulus) - 1] /\ MuShift(modulus) < INT_BITS - 1

StoredRight ==
    /\ operand # 2
    /\ IF operand > modulus
       THEN element > modulus \div 2
       ELSE element >= operand /\ (element <= modulus \div 2 \/ modulus % operand = 0)

DpuAgreesWhere ==
    /\ CalledReduced =>
          /\ DpuModSubFast(element, operand, modulus) = ModSubFast(element, operand, modulus)
                <=> operand <= element
          /\ DpuModSubFastEq(element, operand, modulus) = ModSubFast(element, operand, modulus)
                <=> operand <= element
    /\ Called =>
          (DpuModSubEq(element, operand, modulus) = ModSub(element, operand, modulus)
             <=> operand % modulus <= element % modulus)
    /\ MuFits => (DpuComputeMu(modulus) = mu <=> MuAgrees)
    /\ Called /\ operand > 0 /\ element * operand + operand \div 2 < TwoTo[W] =>
          (DpuMultiplyAndRound(element, modulus, operand) = MultiplyAndRound(element, modulus, operand)
             <=> MultiplyAndRound(element, modulus, operand) = element)
    /\ Called /\ element < modulus /\ operand \in Moduli =>
          (DpuModulus(element, modulus, operand) = VectorMod(element, modulus, operand)
             <=> StoredRight)

=============================================================================
