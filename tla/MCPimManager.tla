---------------------------- MODULE MCPimManager ----------------------------
(***************************************************************************)
(* PimManager on small banks.  AllSizes goes past what the banks hold and  *)
(* contains zero, sizes that stop short of the last chunk and sizes that   *)
(* are overshot.                                                           *)
(***************************************************************************)
EXTENDS PimManager

AllSizes == 0 .. NrDpus * CHUNK_SIZE + NrDpus
=============================================================================
