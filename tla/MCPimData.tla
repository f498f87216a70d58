----------------------------- MODULE MCPimData -----------------------------
(***************************************************************************)
(* PimData with interchangeable variables.                                 *)
(***************************************************************************)
EXTENDS PimData, TLC

NameSymmetry == Permutations(Names)

\* No guard depends on the data themselves, only on where and how large they
\* are, and once an object was copied or overrun no property that is checked
\* depends on them: from then on states that differ in nothing else are one.
\* Once an object was copied and one has an uneven region, nothing that is
\* checked depends on anything.
Bookkeeping ==
    <<copied, uneven,
      IF copied /\ uneven THEN <<>>
      ELSE <<vars, crashed, overrun,
             IF copied \/ overrun
             THEN [o \in DOMAIN objs |->
                     <<objs[o].size, objs[o].metadata, DOMAIN objs[o].host>>]
             ELSE <<objs, mram>>>>>>
=============================================================================
