----------------------------- MODULE PimManager -----------------------------
(***************************************************************************)
(* The MRAM allocator of class PimManager (src/core/include/pim/           *)
(* PimManager.h, src/core/pim/host/PimManager.cpp): one DpuMemory per DPU, *)
(* a request split evenly over them, and a table of the live allocations.  *)
(* Calls are atomic here: one thread uses the manager.  Module             *)
(* PimThreads drops that.                                                  *)
(*                                                                         *)
(* A std::vector<pair<chunk index, address>> is modelled as a function     *)
(* from the chunk indices 0 .. k-1 to addresses: allocate fills it in      *)
(* chunk order, so entry i always belongs to chunk i.                      *)
(***************************************************************************)
EXTENDS DpuMemory

CONSTANTS
    NrDpus,         \* nr_dpus, fixed by the first getPim
    SIZE_T,         \* 2^w for the w bits of size_t
    Sizes           \* the sizes that callers pass to allocate

ASSUME PimManagerAssumption ==
    /\ NrDpus \in Nat \ {0}
    /\ SIZE_T \in Nat \ {0}
    /\ Sizes \subseteq 0 .. SIZE_T - 1

VARIABLES
    chunks,         \* chunk index -> DpuMemory
    allocations,    \* address in chunk 0 -> the vector that starts with it
    held            \* the vectors returned to callers and not yet given back

vars == <<chunks, allocations, held>>

Chunks == 0 .. NrDpus - 1

Vectors == UNION {[0 .. k - 1 -> BlockAddrs] : k \in 0 .. NrDpus}

EmptyVector == [i \in {} |-> 0]

size_per_chunk(size) == DIVROUNDUP(size, NrDpus)

\* The loop's own copy of size after k chunks: an unsigned subtraction, so that
\* "size <= 0" is "size = 0" and a size that is overshot wraps.
Remaining(size, k) == (size - k * size_per_chunk(size)) % SIZE_T

StopsAfter(size) == {k \in 1 .. NrDpus : Remaining(size, k) = 0}

\* How many chunks the loop asks when none of them refuses.
Wanted(size) ==
    IF StopsAfter(size) = {}
    THEN NrDpus
    ELSE CHOOSE k \in StopsAfter(size) : \A l \in StopsAfter(size) : k <= l

\* The chunks among those that refuse their share.
Refusing(size) ==
    {i \in 0 .. Wanted(size) - 1 :
        allocate_addr(chunks[i], size_per_chunk(size)) = NO_ADDR}

FirstRefusing(size) ==
    CHOOSE i \in Refusing(size) : \A j \in Refusing(size) : i <= j

\* Mutant: the last chunk reports the next block.
Granted_skewed(size, k) ==
    [i \in 0 .. k - 1 |->
        allocate_addr(chunks[i], size_per_chunk(size)) + (IF i = 1 THEN BLOCK_SIZE ELSE 0)]

\* allocated_addrs once the first k chunks have granted their share.
Granted(size, k) ==
    [i \in 0 .. k - 1 |-> allocate_addr(chunks[i], size_per_chunk(size))]

allocate_chunks(size, k) ==
    [i \in Chunks |-> IF i < k THEN allocate(chunks[i], size_per_chunk(size)) ELSE chunks[i]]

\* Mutant: only the first chunk gets its run back.
deallocate_first_chunk(cs, v) ==
    [i \in Chunks |-> IF i = 0 /\ i \in DOMAIN v THEN deallocate(cs[i], v[i]) ELSE cs[i]]

deallocate_chunks(cs, v) ==
    [i \in Chunks |-> IF i \in DOMAIN v THEN deallocate(cs[i], v[i]) ELSE cs[i]]

\* The end of deallocate: drop the table's entry for the vector, if it has one.
Forget(v) ==
    [a \in DOMAIN allocations \ (IF v = EmptyVector THEN {} ELSE {v[0]}) |-> allocations[a]]

\* Mutant: undoes nothing.
Rollback_missing(size, k) ==
    /\ chunks' = allocate_chunks(size, k)
    /\ UNCHANGED allocations

\* deallocate(allocated_addrs) on the two failure paths of allocate.
Rollback(size, k) ==
    /\ chunks' = deallocate_chunks(allocate_chunks(size, k), Granted(size, k))
    /\ allocations' = Forget(Granted(size, k))
-----------------------------------------------------------------------------
Init ==
    /\ chunks = [i \in Chunks |-> NewChunk]
    /\ allocations = [a \in {} |-> EmptyVector]
    /\ held = {}

AllocateOK(size) ==
    LET v == Granted(size, Wanted(size))
    IN  /\ StopsAfter(size) # {}
        /\ Refusing(size) = {}
        /\ chunks' = allocate_chunks(size, Wanted(size))
        /\ allocations' = [a \in DOMAIN allocations \cup {v[0]} |->
                             IF a = v[0] THEN v ELSE allocations[a]]
        /\ held' = held \cup {v}

\* "Allocation failed in one of the chunks."
AllocateRefused(size) ==
    /\ Refusing(size) # {}
    /\ Rollback(size, FirstRefusing(size))
    /\ UNCHANGED held

\* "Insufficient memory across all chunks.": every chunk granted its share, but
\* size was overshot and never became 0.
AllocateOvershot(size) ==
    /\ StopsAfter(size) = {}
    /\ Refusing(size) = {}
    /\ Rollback(size, NrDpus)
    /\ UNCHANGED held

\* Mutant: leaves the entry in the table.
Return_keeps_entry(v) ==
    /\ chunks' = deallocate_chunks(chunks, v)
    /\ held' = held \ {v}
    /\ UNCHANGED allocations

\* The body of deallocate, for any argument.
Return(v) ==
    /\ chunks' = deallocate_chunks(chunks, v)
    /\ allocations' = Forget(v)
    /\ held' = held \ {v}

\* A caller gives back, once, a vector it holds.
Deallocate(v) == v \in held /\ Return(v)

Next ==
    \/ \E size \in Sizes :
          AllocateOK(size) \/ AllocateRefused(size) \/ AllocateOvershot(size)
    \/ \E v \in held : Deallocate(v)

Spec == Init /\ [][Next]_vars
-----------------------------------------------------------------------------
TypeOK ==
    /\ chunks \in [Chunks -> Chunk]
    /\ allocations \in UNION {[as -> Vectors] : as \in SUBSET BlockAddrs}
    /\ held \subseteq Vectors \ {EmptyVector}

(***************************************************************************)
(* In every bank the bitmap and the allocation map agree after any         *)
(* sequence of allocations, refusals and frees: recorded runs stay inside  *)
(* the bank, never overlap, and cover exactly the busy blocks              *)
(* (DpuMemory::mark_blocks against DpuMemory::allocations).                *)
(***************************************************************************)
BookkeepingOK == \A i \in Chunks : ChunkOK(chunks[i])

(***************************************************************************)
(* What the manager records is what its callers hold: every part of a held *)
(* vector is an allocation of its chunk, no two held vectors share one,    *)
(* every allocation of a chunk belongs to a held vector (nothing leaks on  *)
(* the failure paths), and the table maps first addresses to held vectors. *)
(***************************************************************************)
HeldRecorded ==
    /\ \A v \in held : \A i \in DOMAIN v : v[i] \in DOMAIN chunks[i].allocations
    /\ \A v, w \in held :
          v # w => \A i \in DOMAIN v \cap DOMAIN w : v[i] # w[i]
    /\ \A i \in Chunks : \A a \in DOMAIN chunks[i].allocations :
          \E v \in held : i \in DOMAIN v /\ v[i] = a
    /\ DOMAIN allocations = {v[0] : v \in held}
    /\ \A v \in held : allocations[v[0]] = v

(***************************************************************************)
(* The three records of one lending, the bitmap and the map of every bank  *)
(* and the manager's table, agree with each other and with what the        *)
(* callers hold (mark_blocks, DpuMemory::allocations and                   *)
(* PimManager::allocations).                                               *)
(***************************************************************************)
RecordsAgree == BookkeepingOK /\ HeldRecorded

\* Once every vector has been given back all blocks are free again.
NoLeak == held = {} => chunks = [i \in Chunks |-> NewChunk]

(***************************************************************************)
(* A request that fails, in whichever chunk and however late in the loop,  *)
(* leaves the banks and the table as they were (the rollback in            *)
(* PimManager::allocate): no step changes them without changing what the   *)
(* callers hold.                                                           *)
(***************************************************************************)
FailureLeavesNoTrace == [][held' = held => UNCHANGED <<chunks, allocations>>]_vars

(***************************************************************************)
(* PimManager.h:40-41, "since the data is divided equally we assume that   *)
(* the offset is the same for all DPUs": copy_to_pim and copy_from_pim use *)
(* the address of chunk 0 for every DPU, so a held vector must have one    *)
(* and the same address in all its chunks.                                 *)
(***************************************************************************)
SameOffset == \A v \in held : \A i \in DOMAIN v : v[i] = v[0]

(***************************************************************************)
(* When the DPUs divide every size, the banks go through the same states   *)
(* and every vector spans all of them: this is why SameOffset holds then.  *)
(***************************************************************************)
LockStep ==
    /\ \A i \in Chunks : chunks[i] = chunks[0]
    /\ \A v \in held : DOMAIN v = Chunks

(***************************************************************************)
(* One offset is enough for all DPUs, and stays so whatever is given back  *)
(* and granted again (copy_to_pim, copy_from_pim and the kernels' meta).   *)
(***************************************************************************)
OffsetsInStep == SameOffset /\ LockStep

(***************************************************************************)
(* The manager seen from outside: cells (one block of one DPU) that are    *)
(* lent out and taken back.                                                *)
(***************************************************************************)
CellsOf(cs, v) == UNION {{i} \X BlocksOf(cs[i], v[i]) : i \in DOMAIN v}

BusyCells(cs) == {cell \in Chunks \X Blocks : ~cs[cell[1]].free[cell[2]]}

Abstract == INSTANCE RegionAllocator
                WITH Cells  <- Chunks \X Blocks,
                     busy   <- BusyCells(chunks),
                     leases <- {CellsOf(chunks, v) : v \in held}

(***************************************************************************)
(* The manager implements the abstract allocator: it only ever lends cells *)
(* that nobody holds, and takes back exactly the cells it lent.            *)
(***************************************************************************)
ImplementsRegionAllocator == Abstract!Spec
=============================================================================
