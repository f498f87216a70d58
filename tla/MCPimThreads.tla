---------------------------- MODULE MCPimThreads ----------------------------
(***************************************************************************)
(* PimThreads with threads that ask for different numbers of DPUs, as the  *)
(* two constructors of PimData do.                                         *)
(***************************************************************************)
EXTENDS PimThreads, TLC

CONSTANTS t1, t2

Asked == [t \in Threads |-> IF t = t1 THEN 2 ELSE 1]

=============================================================================
