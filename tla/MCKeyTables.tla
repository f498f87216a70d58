---------------------------- MODULE MCKeyTables ----------------------------
(* Two parameter sets, of which one packs a single slot and so needs no sum  *)
(* keys, and two key pairs.                                                  *)
EXTENDS KeyTables

CONSTANTS small, large

MCSumIndices == small :> {} @@ large :> {3}
MCIndexLists == {{3}, {3, 5}}
MCSymmetry == Permutations(Tags)
=============================================================================
