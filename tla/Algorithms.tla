----------------------------- MODULE Algorithms -----------------------------
(***************************************************************************)
(* The library's pure algorithms, one of them in each behaviour:           *)
(* "inverse", the loop of ModInverse; "scan", the loop of find_free_blocks *)
(* on any bitmap of a bank; "call", the arithmetic of module ArithCalls;   *)
(* "ring", the number theory and the transforms of module RingCalls.       *)
(***************************************************************************)
EXTENDS ModInverse

CONSTANTS
    BlockSize, TotalBlocks,                     \* "scan": the bank
    CallWidth, IntBits, Operands, CallModuli,   \* "call": the words
    MaxExponent,
    RingWidth, USINT, Rings, ArbRings, Numbers, \* "ring"
    Unset

VARIABLES
    which,
    free, blocks_needed, i, consecutive_free, returned, first,  \* "scan"
    callModulus, element, operand,                              \* "call"
    subject, ringCall                                           \* "ring"

scanVars == <<free, blocks_needed, i, consecutive_free, returned, first>>
callVars == <<callModulus, element, operand>>
ringVars == <<subject, ringCall>>
allVars == <<which, vars, scanVars, callVars, ringVars>>

Scan == INSTANCE FindFreeBlocks
            WITH BLOCK_SIZE <- BlockSize, TOTAL_BLOCKS <- TotalBlocks, result <- first

Arith == INSTANCE ArithCalls
             WITH W <- CallWidth, INT_BITS <- IntBits, Moduli <- CallModuli,
                  modulus <- callModulus

Ring == INSTANCE RingCalls
            WITH W <- RingWidth, call <- ringCall

ASSUME AlgorithmsAssumption ==
    /\ BlockSize \in Nat \ {0} /\ TotalBlocks \in Nat \ {0}
    /\ Arith!CallsAssumption
    /\ Ring!RingAssumption

\* The variables of the algorithms that do not run.
InverseUnused ==
    /\ pc = "none" /\ mod = 1 /\ m_value = 0 /\ a = 0 /\ modulus = 1
    /\ x = 0 /\ y = 0 /\ result = 0
ScanUnused ==
    /\ free = <<>> /\ blocks_needed = 0 /\ i = 0 /\ consecutive_free = 0
    /\ returned = FALSE /\ first = 0
CallUnused == callModulus = 2 /\ element = 0 /\ operand = Unset
RingUnused == subject = Unset /\ ringCall = Unset

AlgorithmsInit ==
    \/ which = "inverse" /\ Init /\ ScanUnused /\ CallUnused /\ RingUnused
    \/ which = "scan" /\ Scan!Init /\ InverseUnused /\ CallUnused /\ RingUnused
    \/ which = "call" /\ Arith!Init /\ InverseUnused /\ ScanUnused /\ RingUnused
    \/ which = "ring" /\ Ring!Init /\ InverseUnused /\ ScanUnused /\ CallUnused

Only(name) == which = name /\ UNCHANGED which

LoopStep ==
    \/ Only("inverse") /\ Next /\ UNCHANGED <<scanVars, callVars, ringVars>>
    \/ Only("scan") /\ Scan!Next /\ UNCHANGED <<vars, callVars, ringVars>>

AlgorithmsNext ==
    \/ LoopStep
    \/ Only("call") /\ Arith!Call /\ UNCHANGED <<vars, scanVars, ringVars>>
    \/ Only("ring") /\ Ring!Call /\ UNCHANGED <<vars, scanVars, callVars>>

\* Each loop runs in one thread that is never stopped.
AlgorithmsSpec ==
    AlgorithmsInit /\ [][AlgorithmsNext]_allVars /\ WF_allVars(LoopStep)
-----------------------------------------------------------------------------
\* The loop of find_free_blocks returns the first fit, or -1.
ReturnsFirstFit == which = "scan" => Scan!ReturnsFirstFit

\* The host's modular sums, differences, products and powers are exact, although
\* Barrett's and Shoup's quotients are estimates that are corrected once (ModAdd,
\* ModSub, ModMulFast, ModMu, ModMulFastConst, ModExp), and changing the modulus
\* keeps the signed number (SwitchModulus, Mod).
ModularExact ==
    which = "call" => /\ Arith!AdditiveExact /\ Arith!BarrettExact
                      /\ Arith!ShoupExact /\ Arith!ExpExact
                      /\ Arith!SwitchKeepsCentred

\* The DPUs' products of words are exact, their Barrett product is the host's
\* (MultD, ModMulFastB, ModMulB), and where their other operations are the
\* host's.
DpuAgreesWhere ==
    which = "call" => Arith!DpuBarrettExact /\ Arith!DpuAgreesWhere

\* The transforms are evaluations, they are undone, and they turn products of
\* elements into products of places, for powers of two and for other orders
\* (transformnat-impl.h).
TransformsExact == which = "ring" => Ring!TransformsExact

\* An automorphism is the same in both formats and with a precomputed map
\* (AutomorphismTransform, PrecomputeAutoMap, FindAutomorphismIndex2n).
AutomorphismsAgree == which = "ring" => Ring!AutomorphismsAgree

\* Primes, factors, roots of unity and cyclotomic polynomials are what they
\* should be, whatever was drawn (nbtheory-impl.h, nbtheory2.cpp).
PrimesAndRoots == which = "ring" => Ring!PrimesAndRoots

\* Both loops end, for every argument, bitmap and request.
LoopsEnd ==
    /\ which = "inverse" => Terminates
    /\ which = "scan" => Scan!Terminates
=============================================================================
