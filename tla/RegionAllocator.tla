-------------------------- MODULE RegionAllocator --------------------------
(***************************************************************************)
(* What an MRAM allocator promises, whatever its bookkeeping: sets of      *)
(* cells are lent out and taken back, no cell is lent twice at a time, and *)
(* a cell is busy exactly while somebody holds it.                         *)
(***************************************************************************)
CONSTANT Cells

VARIABLES
    busy,       \* the cells marked in use
    leases      \* the sets of cells lent out and not yet returned

Init == busy = {} /\ leases = {}

Lend ==
    \E lease \in SUBSET (Cells \ busy) :
        /\ lease # {}
        /\ busy' = busy \cup lease
        /\ leases' = leases \cup {lease}

TakeBack ==
    \E lease \in leases :
        /\ busy' = busy \ lease
        /\ leases' = leases \ {lease}

Next == Lend \/ TakeBack

Spec == Init /\ [][Next]_<<busy, leases>>

\* No two leases share a cell, and the busy cells are the ones lent out.
Exclusive ==
    /\ busy = UNION leases
    /\ \A l1, l2 \in leases : l1 # l2 => l1 \cap l2 = {}
=============================================================================
