---------------------------- MODULE MCNttTables ----------------------------
(* A small instance of NttTables.  On q1 both transforms are called in two  *)
(* dimensions, and in the smaller one with two roots; q2 is there so that a *)
(* chain has a second modulus and another call contends for the section.    *)
EXTENDS NttTables

CONSTANTS q1, q2

MCChains == {<<q1, q2>>}
MCDims == {2, 4}
MCJobs ==
    {j \in Transforms :
       \/ j.root = "r1" /\ j.chain = <<q1>>
       \/ j.kind = "forward" /\ j.dim = 2 /\ (j.root = "r1" \/ j.chain = <<q1>>)}
    \union {j \in Precomputations : j.root = "r1"}
=============================================================================
