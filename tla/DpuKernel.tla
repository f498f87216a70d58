------------------------------ MODULE DpuKernel ------------------------------
(***************************************************************************)
(* One launch of an element-wise kernel on one DPU (src/core/pim/dpu/      *)
(* element-wise/*.c): NR_TASKLETS tasklets share the MRAM and a heap in    *)
(* WRAM, and each works on every NR_TASKLETS-th chunk of CACHE_SIZE.       *)
(*                                                                         *)
(* Addresses and sizes count words of 8 bytes (the DPUs divide the number  *)
(* of elements).  Word w starts with the value <<w>>, and the operation on *)
(* elements x and y gives <<x, y>>: which operation it is makes no         *)
(* difference to the movement of the data.  All heap requests of a launch  *)
(* have one size, so that a buffer is a slot number.                       *)
(***************************************************************************)
EXTENDS Integers, Sequences, SequencesExt

CONSTANTS
    NR_TASKLETS,
    CACHE_SIZE,     \* words in a cache buffer
    BLOCK_WORDS,    \* words in a block of DpuMemory
    MRAM_WORDS,
    Starts,         \* where the regions of the objects in the MRAM start
    OpSizes,        \* words of an operand on this DPU
    StaleHeap       \* slots that earlier launches left on the heap

Tasklets == 0 .. NR_TASKLETS - 1

\* A region as DpuMemory grants it: whole blocks.
Granted(start, size) ==
    start .. start + BLOCK_WORDS * ((size + BLOCK_WORDS - 1) \div BLOCK_WORDS) - 1

ASSUME KernelAssumption ==
    /\ NR_TASKLETS \in Nat \ {0}
    /\ CACHE_SIZE \in Nat \ {0}
    /\ BLOCK_WORDS \in Nat \ {0} /\ BLOCK_WORDS % CACHE_SIZE = 0
    /\ MRAM_WORDS \in Nat
    /\ OpSizes \subseteq Nat \ {0}
    /\ StaleHeap \in Nat

\* The manager grants disjoint runs of whole blocks.
ASSUME RegionsAssumption ==
    /\ \A s \in Starts : s \in Nat /\ s % BLOCK_WORDS = 0
    /\ \A s \in Starts, n \in OpSizes :
          /\ Granted(s, n) \subseteq 0 .. MRAM_WORDS - 1
          /\ \A t \in Starts \ {s} : Granted(s, n) \cap Granted(t, n) = {}

VARIABLES
    meta,       \* the host's arguments for this launch
    mram,       \* word -> value
    wram,       \* slot -> what the buffer there holds
    heap,       \* the next slot that mem_alloc returns
    pc,         \* tasklet -> what it does next
    buffers,    \* tasklet -> the slots it has allocated: A, then B, then result
    index       \* tasklet -> bytes_index, in words

vars == <<meta, mram, wram, heap, pc, buffers, index>>

Kernels == {"SCALAR", "SCALAR_EQ", "VECTOR", "VECTOR_EQ"}

Binary == meta.kernel \in {"VECTOR", "VECTOR_EQ"}

InPlace == meta.kernel \in {"SCALAR_EQ", "VECTOR_EQ"}

\* How many buffers a tasklet allocates.
NrBuffers == 1 + (IF Binary THEN 1 ELSE 0) + (IF InPlace THEN 0 ELSE 1)

size_to_copy == IF CACHE_SIZE < meta.size THEN CACHE_SIZE ELSE meta.size

\* Where the results go.
Target == IF InPlace THEN meta.op1 ELSE meta.res

Slots == 0 .. StaleHeap + 3 * NR_TASKLETS - 1

Metas ==
    {k \in [kernel : Kernels, op1 : Starts, op2 : Starts, res : Starts, size : OpSizes] :
        k.res \notin {k.op1, k.op2}}

Init ==
    /\ meta \in Metas
    /\ mram = [w \in 0 .. MRAM_WORDS - 1 |-> <<w>>]
    /\ wram = [s \in Slots |-> [k \in 0 .. size_to_copy - 1 |-> <<>>]]
    /\ heap = StaleHeap
    /\ pc = [t \in Tasklets |-> "start"]
    /\ buffers = [t \in Tasklets |-> <<>>]
    /\ index = [t \in Tasklets |-> t * CACHE_SIZE]

Goto(t, from, to) == pc[t] = from /\ pc' = [pc EXCEPT ![t] = to]

\* The loop's condition, for the index i.
LoopTest(t, i) ==
    pc' = [pc EXCEPT ![t] = IF i < meta.size THEN "readA" ELSE "done"]

Chunk(start, t) ==
    [k \in 0 .. size_to_copy - 1 |-> mram[start + index[t] + k]]

Load(slot, data) == wram' = [wram EXCEPT ![slot] = data]

-----------------------------------------------------------------------------
\* Mutant: nobody waits.
Reset_no_barrier(t) ==
    /\ Goto(t, "start", "alloc")
    /\ heap' = IF t = 0 THEN 0 ELSE heap
    /\ UNCHANGED <<meta, mram, wram, buffers, index>>

\* Tasklet 0 resets the heap; then everyone reaches the barrier.
Reset(t) ==
    /\ Goto(t, "start", "barrier")
    /\ heap' = IF t = 0 THEN 0 ELSE heap
    /\ UNCHANGED <<meta, mram, wram, buffers, index>>

\* Mutant: waits until all the others are through.
Pass_never(t) ==
    /\ \A u \in Tasklets \ {t} : pc[u] \notin {"start", "barrier"}
    /\ Goto(t, "barrier", "alloc")
    /\ UNCHANGED <<meta, mram, wram, heap, buffers, index>>

\* barrier_wait returns when all tasklets have called it.
Pass(t) ==
    /\ \A u \in Tasklets : pc[u] # "start"
    /\ Goto(t, "barrier", "alloc")
    /\ UNCHANGED <<meta, mram, wram, heap, buffers, index>>

\* One mem_alloc.
Alloc(t) ==
    /\ pc[t] = "alloc"
    /\ buffers' = [buffers EXCEPT ![t] = Append(@, heap)]
    /\ heap' = heap + 1
    /\ IF Len(buffers[t]) + 1 = NrBuffers THEN LoopTest(t, index[t]) ELSE UNCHANGED pc
    /\ UNCHANGED <<meta, mram, wram, index>>

ReadA(t) ==
    /\ Goto(t, "readA", IF Binary THEN "readB" ELSE "compute")
    /\ Load(Head(buffers[t]), Chunk(meta.op1, t))
    /\ UNCHANGED <<meta, mram, heap, buffers, index>>

ReadB(t) ==
    /\ Goto(t, "readB", "compute")
    /\ Load(buffers[t][2], Chunk(meta.op2, t))
    /\ UNCHANGED <<meta, mram, heap, buffers, index>>

Apply(x, y) == <<x, y>>

Scalar == <<>>

\* The result goes to the last buffer, which in place is that of operand A.
ResultSlot(t) == IF InPlace THEN Head(buffers[t]) ELSE Last(buffers[t])

Compute(t) ==
    /\ Goto(t, "compute", "write")
    /\ Load(ResultSlot(t),
            [k \in 0 .. size_to_copy - 1 |->
                Apply(wram[Head(buffers[t])][k],
                      IF Binary THEN wram[buffers[t][2]][k] ELSE Scalar)])
    /\ UNCHANGED <<meta, mram, heap, buffers, index>>

\* Mutant: goes on with the neighbour's chunk.
Write_stride_one(t) ==
    LET next == index[t] + CACHE_SIZE
    IN  /\ pc[t] = "write"
        /\ mram' = [w \in DOMAIN mram |->
                      IF w - Target - index[t] \in 0 .. size_to_copy - 1
                      THEN wram[ResultSlot(t)][w - Target - index[t]]
                      ELSE mram[w]]
        /\ index' = [index EXCEPT ![t] = next]
        /\ LoopTest(t, next)
        /\ UNCHANGED <<meta, wram, heap, buffers>>

\* Mutant: the chunk is written where the next one belongs.
Write_late(t) ==
    LET next == index[t] + CACHE_SIZE * NR_TASKLETS
    IN  /\ pc[t] = "write"
        /\ mram' = [w \in DOMAIN mram |->
                      IF w - Target - next \in 0 .. size_to_copy - 1
                      THEN wram[ResultSlot(t)][w - Target - next]
                      ELSE mram[w]]
        /\ index' = [index EXCEPT ![t] = next]
        /\ LoopTest(t, next)
        /\ UNCHANGED <<meta, wram, heap, buffers>>

\* mram_write moves size_to_copy words for the last chunk too, and the tasklet
\* goes on with its next chunk.
Write(t) ==
    LET next == index[t] + CACHE_SIZE * NR_TASKLETS
    IN  /\ pc[t] = "write"
        /\ mram' = [w \in DOMAIN mram |->
                      IF w - Target - index[t] \in 0 .. size_to_copy - 1
                      THEN wram[ResultSlot(t)][w - Target - index[t]]
                      ELSE mram[w]]
        /\ index' = [index EXCEPT ![t] = next]
        /\ LoopTest(t, next)
        /\ UNCHANGED <<meta, wram, heap, buffers>>

Step(t) ==
    \/ Reset(t) \/ Pass(t) \/ Alloc(t)
    \/ ReadA(t) \/ ReadB(t) \/ Compute(t) \/ Write(t)

Next == \E t \in Tasklets : Step(t)

\* The DPU's pipeline issues instructions of all tasklets in turn.
Spec == Init /\ [][Next]_vars /\ \A t \in Tasklets : WF_vars(Step(t))
-----------------------------------------------------------------------------
\* Programs stay within their code, and indexes fall on the starts of chunks.
TypeOK ==
    /\ meta \in Metas
    /\ DOMAIN mram = 0 .. MRAM_WORDS - 1
    /\ heap \in Nat
    /\ pc \in [Tasklets -> {"start", "barrier", "alloc", "readA", "readB",
                            "compute", "write", "done"}]
    /\ buffers \in [Tasklets -> Seq(Nat)]
    /\ index \in [Tasklets -> Nat]
    /\ \A t \in Tasklets : index[t] % CACHE_SIZE = 0

(***************************************************************************)
(* No two buffers, of one tasklet or of two, are the same piece of WRAM:   *)
(* no tasklet allocates before tasklet 0 has reset the heap (mem_reset and *)
(* barrier_wait at the head of each kernel).                               *)
(***************************************************************************)
BuffersDisjoint ==
    \A t, u \in Tasklets : \A i \in DOMAIN buffers[t], j \in DOMAIN buffers[u] :
        <<t, i>> # <<u, j>> => buffers[t][i] # buffers[u][j]

(***************************************************************************)
(* However the tasklets interleave, and with operands that are one and the *)
(* same object, when all have returned each element of the result is the   *)
(* operation on the original elements: no chunk is left out or done twice. *)
(***************************************************************************)
AllDone == \A t \in Tasklets : pc[t] = "done"

ResultCorrect ==
    AllDone =>
        \A k \in 0 .. meta.size - 1 :
            mram[Target + k] = Apply(<<meta.op1 + k>>,
                                     IF Binary THEN <<meta.op2 + k>> ELSE Scalar)

(***************************************************************************)
(* A kernel writes whole chunks, so it writes past the end of an operand   *)
(* whose size is no multiple of the cache's; yet no word outside the       *)
(* blocks of the result changes, because the cache divides the block.      *)
(***************************************************************************)
OthersUntouched ==
    \A w \in DOMAIN mram \ Granted(Target, meta.size) : mram[w] = <<w>>

\* Every launch ends: dpu_launch is synchronous and the host waits for it.
Terminates == <>AllDone
=============================================================================
