--------------------------- MODULE FindFreeBlocks ---------------------------
(***************************************************************************)
(* The loop of DpuMemory::find_free_blocks, one iteration per step, on any *)
(* bitmap and for any number of blocks up to the whole bank.  It is shown  *)
(* to return what the operator find_free_blocks of module DpuMemory says.  *)
(***************************************************************************)
EXTENDS DpuMemory

VARIABLES
    free,               \* the bitmap, not written by the loop
    blocks_needed,
    i,
    consecutive_free,
    returned,           \* has the call returned?
    result              \* the value it returned (-1 if no run was found)

vars == <<free, blocks_needed, i, consecutive_free, returned, result>>

Init ==
    /\ free \in [Blocks -> BOOLEAN]
    /\ blocks_needed \in 0 .. TOTAL_BLOCKS
    /\ i = 0
    /\ consecutive_free = 0
    /\ returned = FALSE
    /\ result = NO_ADDR

InLoop == ~returned /\ i < TOTAL_BLOCKS

CountFree ==
    /\ InLoop
    /\ free[i]
    /\ consecutive_free + 1 # blocks_needed
    /\ consecutive_free' = consecutive_free + 1
    /\ i' = i + 1
    /\ UNCHANGED <<free, blocks_needed, returned, result>>

Found ==
    /\ InLoop
    /\ free[i]
    /\ consecutive_free + 1 = blocks_needed
    /\ consecutive_free' = consecutive_free + 1
    /\ returned' = TRUE
    /\ result' = i - blocks_needed + 1
    /\ UNCHANGED <<free, blocks_needed, i>>

\* Mutant: the run is not restarted at a busy block.
SkipBusy_no_reset ==
    /\ InLoop
    /\ ~free[i]
    /\ i' = i + 1
    /\ UNCHANGED <<free, blocks_needed, consecutive_free, returned, result>>

SkipBusy ==
    /\ InLoop
    /\ ~free[i]
    /\ consecutive_free' = 0
    /\ i' = i + 1
    /\ UNCHANGED <<free, blocks_needed, returned, result>>

GiveUp ==
    /\ ~returned
    /\ i = TOTAL_BLOCKS
    /\ returned' = TRUE
    /\ result' = NO_ADDR
    /\ UNCHANGED <<free, blocks_needed, i, consecutive_free>>

Next == CountFree \/ Found \/ SkipBusy \/ GiveUp

\* The loop runs in one thread that is never stopped.
Spec == Init /\ [][Next]_vars /\ WF_vars(Next)
-----------------------------------------------------------------------------
TypeOK ==
    /\ free \in [Blocks -> BOOLEAN]
    /\ blocks_needed \in 0 .. TOTAL_BLOCKS
    /\ i \in 0 .. TOTAL_BLOCKS
    /\ consecutive_free \in 0 .. TOTAL_BLOCKS
    /\ returned \in BOOLEAN
    /\ result \in {NO_ADDR} \cup Blocks

(***************************************************************************)
(* When the loop returns, it returns the lowest start of a run of          *)
(* blocks_needed free blocks, and -1 exactly when there is none            *)
(* (DpuMemory.h:63-76).                                                    *)
(***************************************************************************)
ReturnsFirstFit ==
    returned => result = find_free_blocks(free, blocks_needed)

(***************************************************************************)
(* What the counter knows at the head of the loop: the last                *)
(* consecutive_free blocks are free, the one before them is not, and no    *)
(* run that is long enough ends before block i.                            *)
(***************************************************************************)
CounterOK ==
    ~returned =>
        /\ consecutive_free <= i
        /\ blocks_needed > 0 => consecutive_free < blocks_needed
        /\ \A b \in i - consecutive_free .. i - 1 : free[b]
        /\ consecutive_free < i => ~free[i - consecutive_free - 1]
        /\ \A s \in FreeRuns(free, blocks_needed) : s + blocks_needed > i

\* The scan of a bank always comes to an end.
Terminates == <>returned
=============================================================================
