-------------------------- MODULE DpuKernelProofs --------------------------
(***************************************************************************)
(* Theorems about DpuKernel for any number of tasklets, any cache that     *)
(* divides the block, and any regions as the manager grants them.          *)
(***************************************************************************)
EXTENDS DpuKernel, FiniteSetTheorems, TLAPS

(***************************************************************************)
(* Nobody has a buffer before everyone has reached the barrier, and a      *)
(* buffer is below the top of the heap.  BuffersDisjoint alone is not      *)
(* inductive: a reset after an allocation would break it one step later.   *)
(***************************************************************************)
NoneBeforeBarrier ==
    \A t \in Tasklets : pc[t] \in {"start", "barrier"} => buffers[t] = <<>>

AllWaitForLast ==
    \A t, u \in Tasklets : pc[t] = "start" => pc[u] \in {"start", "barrier"}

BelowHeap ==
    \A t \in Tasklets : \A i \in DOMAIN buffers[t] : buffers[t][i] < heap

\* A tasklet that moves data does so for a chunk of the operand.
IndexInOperand ==
    \A t \in Tasklets :
        pc[t] \in {"readA", "readB", "compute", "write"} => index[t] < meta.size

Invariant ==
    TypeOK /\ NoneBeforeBarrier /\ AllWaitForLast /\ BelowHeap /\ IndexInOperand
           /\ BuffersDisjoint

-----------------------------------------------------------------------------
(***************************************************************************)
(* Multiples of a positive number.                                         *)
(***************************************************************************)
LEMMA ProductIsMultiple ==
    ASSUME NEW k \in Nat, NEW c \in Nat \ {0}
    PROVE  k * c \in Nat /\ (k * c) % c = 0
  OBVIOUS

LEMMA MultipleIsProduct ==
    ASSUME NEW n \in Nat, NEW c \in Nat \ {0}, n % c = 0
    PROVE  \E k \in Nat : n = k * c
<1> WITNESS n \div c \in Nat
<1> QED
  OBVIOUS

LEMMA SumOfMultiples ==
    ASSUME NEW m \in Nat, NEW n \in Nat, NEW c \in Nat \ {0}, m % c = 0, n % c = 0
    PROVE  (m + n) % c = 0
<1>1. PICK k \in Nat : m = k * c
  BY MultipleIsProduct
<1>2. PICK l \in Nat : n = l * c
  BY MultipleIsProduct
<1>3. m + n = (k + l) * c /\ k + l \in Nat
  BY <1>1, <1>2
<1>4. ((k + l) * c) % c = 0
  BY <1>3, ProductIsMultiple
<1> QED
  BY <1>3, <1>4

LEMMA NextMultiple ==
    ASSUME NEW m \in Nat, NEW n \in Nat, NEW c \in Nat \ {0},
           m % c = 0, n % c = 0, m < n
    PROVE  m + c <= n
<1>1. PICK k \in Nat : m = k * c
  BY MultipleIsProduct
<1>2. PICK l \in Nat : n = l * c
  BY MultipleIsProduct
<1>3. k + 1 <= l
  BY <1>1, <1>2
<1>4. (k + 1) * c <= l * c
  BY <1>3
<1> QED
  BY <1>1, <1>2, <1>4

-----------------------------------------------------------------------------
LEMMA MetaFields ==
    ASSUME meta \in Metas
    PROVE  /\ meta.size \in Nat \ {0} /\ meta.size \in OpSizes
           /\ Target \in Starts /\ Target \in Nat
           /\ size_to_copy \in Nat \ {0}
           /\ size_to_copy <= CACHE_SIZE /\ size_to_copy <= meta.size
           /\ size_to_copy = CACHE_SIZE \/ size_to_copy = meta.size
<1>1. meta \in [kernel : Kernels, op1 : Starts, op2 : Starts, res : Starts, size : OpSizes]
  BY DEF Metas
<1>2. /\ meta.size \in OpSizes /\ meta.op1 \in Starts /\ meta.res \in Starts
  BY <1>1
<1>3. meta.size \in Nat \ {0}
  BY <1>2, KernelAssumption
<1>4. Target \in Starts
  BY <1>2 DEF Target
<1>5. Target \in Nat
  BY <1>4, RegionsAssumption
<1> QED
  BY <1>2, <1>3, <1>4, <1>5, KernelAssumption DEF size_to_copy

LEMMA InitInvariant == Init => Invariant
<1> SUFFICES ASSUME Init PROVE Invariant
  OBVIOUS
<1> USE DEF Init
<1>1. \A t \in Tasklets : t * CACHE_SIZE \in Nat /\ (t * CACHE_SIZE) % CACHE_SIZE = 0
  <2> TAKE t \in Tasklets
  <2>1. t \in Nat
    BY KernelAssumption DEF Tasklets
  <2> QED
    BY <2>1, ProductIsMultiple, KernelAssumption
<1>2. TypeOK
  <2>1. buffers \in [Tasklets -> Seq(Nat)]
    OBVIOUS
  <2> QED
    BY <1>1, <2>1, KernelAssumption DEF TypeOK
<1>3. NoneBeforeBarrier /\ AllWaitForLast /\ BelowHeap /\ IndexInOperand /\ BuffersDisjoint
  BY DEF NoneBeforeBarrier, AllWaitForLast, BelowHeap, IndexInOperand, BuffersDisjoint
<1> QED
  BY <1>2, <1>3 DEF Invariant

LEMMA StepTypeOK ==
    ASSUME TypeOK, NEW t \in Tasklets, Step(t)
    PROVE  TypeOK'
<1>1. CASE Reset(t)
  <2>1. heap' \in Nat
    BY <1>1 DEF TypeOK, Reset
  <2>2. pc' = [pc EXCEPT ![t] = "barrier"] /\ UNCHANGED <<meta, mram, buffers, index>>
    BY <1>1 DEF Reset, Goto
  <2> QED
    BY <2>1, <2>2 DEF TypeOK
<1>2. CASE Pass(t)
  BY <1>2 DEF TypeOK, Pass, Goto
<1>3. CASE Alloc(t)
  <2>1. Append(buffers[t], heap) \in Seq(Nat)
    BY DEF TypeOK
  <2>2. buffers' \in [Tasklets -> Seq(Nat)]
    BY <1>3, <2>1 DEF TypeOK, Alloc
  <2>3. pc' \in [Tasklets -> {"start", "barrier", "alloc", "readA", "readB",
                              "compute", "write", "done"}]
    BY <1>3 DEF TypeOK, Alloc, LoopTest
  <2>4. heap' \in Nat /\ UNCHANGED <<meta, mram, index>>
    BY <1>3 DEF TypeOK, Alloc
  <2> QED
    BY <2>2, <2>3, <2>4 DEF TypeOK
<1>4. CASE ReadA(t)
  BY <1>4 DEF TypeOK, ReadA, Goto
<1>5. CASE ReadB(t)
  BY <1>5 DEF TypeOK, ReadB, Goto
<1>6. CASE Compute(t)
  BY <1>6 DEF TypeOK, Compute, Goto
<1>7. CASE Write(t)
  <2> DEFINE next == index[t] + CACHE_SIZE * NR_TASKLETS
  <2>1. next \in Nat /\ next % CACHE_SIZE = 0
    <3>1. NR_TASKLETS * CACHE_SIZE \in Nat /\ (NR_TASKLETS * CACHE_SIZE) % CACHE_SIZE = 0
      BY ProductIsMultiple, KernelAssumption
    <3>2. CACHE_SIZE * NR_TASKLETS = NR_TASKLETS * CACHE_SIZE
      BY KernelAssumption
    <3>3. index[t] \in Nat /\ index[t] % CACHE_SIZE = 0
      BY DEF TypeOK
    <3>4. (index[t] + NR_TASKLETS * CACHE_SIZE) % CACHE_SIZE = 0
      BY <3>1, <3>3, SumOfMultiples, KernelAssumption
    <3> QED
      BY <3>1, <3>2, <3>3, <3>4
  <2>2. index' = [index EXCEPT ![t] = next] /\ UNCHANGED <<meta, heap, buffers>>
    BY <1>7 DEF Write
  <2>3. DOMAIN mram' = DOMAIN mram
    BY <1>7 DEF Write
  <2>4. pc' = [pc EXCEPT ![t] = "readA"] \/ pc' = [pc EXCEPT ![t] = "done"]
    BY <1>7 DEF Write, LoopTest
  <2> HIDE DEF next
  <2> QED
    BY <2>1, <2>2, <2>3, <2>4 DEF TypeOK
<1> QED
  BY <1>1, <1>2, <1>3, <1>4, <1>5, <1>6, <1>7 DEF Step

\* Once no tasklet is before the barrier, none comes back there.
LEMMA StepBarrier ==
    ASSUME TypeOK, AllWaitForLast, NoneBeforeBarrier, NEW t \in Tasklets, Step(t)
    PROVE  AllWaitForLast' /\ NoneBeforeBarrier'
<1>1. CASE Reset(t)
  BY <1>1 DEF TypeOK, AllWaitForLast, NoneBeforeBarrier, Reset, Goto
<1>2. CASE Pass(t)
  BY <1>2 DEF TypeOK, AllWaitForLast, NoneBeforeBarrier, Pass, Goto
<1>3. CASE Alloc(t)
  BY <1>3 DEF TypeOK, AllWaitForLast, NoneBeforeBarrier, Alloc, LoopTest
<1>4. CASE ReadA(t)
  BY <1>4 DEF TypeOK, AllWaitForLast, NoneBeforeBarrier, ReadA, Goto
<1>5. CASE ReadB(t)
  BY <1>5 DEF TypeOK, AllWaitForLast, NoneBeforeBarrier, ReadB, Goto
<1>6. CASE Compute(t)
  BY <1>6 DEF TypeOK, AllWaitForLast, NoneBeforeBarrier, Compute, Goto
<1>7. CASE Write(t)
  BY <1>7 DEF TypeOK, AllWaitForLast, NoneBeforeBarrier, Write, LoopTest
<1> QED
  BY <1>1, <1>2, <1>3, <1>4, <1>5, <1>6, <1>7 DEF Step

(***************************************************************************)
(* The heap: a reset finds no buffers, and an allocation takes the top.    *)
(***************************************************************************)
LEMMA StepBuffers ==
    ASSUME Invariant, NEW t \in Tasklets, Step(t)
    PROVE  BelowHeap' /\ BuffersDisjoint'
<1> USE DEF Invariant
<1>1. CASE Reset(t)
  <2>1. \A u \in Tasklets : buffers'[u] = <<>>
    BY <1>1 DEF Reset, Goto, AllWaitForLast, NoneBeforeBarrier
  <2> QED
    BY <2>1 DEF BelowHeap, BuffersDisjoint
<1>2. CASE Alloc(t)
  <2>1. /\ heap \in Nat /\ heap' = heap + 1
        /\ \A u \in Tasklets : buffers[u] \in Seq(Nat)
        /\ buffers' = [buffers EXCEPT ![t] = Append(@, heap)]
    BY <1>2 DEF TypeOK, Alloc
  <2>2. DOMAIN buffers = Tasklets
    BY DEF TypeOK
  <2>3. \A u \in Tasklets \ {t} : buffers'[u] = buffers[u]
    BY <2>1, <2>2
  <2>4. buffers'[t] = Append(buffers[t], heap)
    BY <2>1, <2>2
  <2>5. /\ DOMAIN buffers'[t] = DOMAIN buffers[t] \cup {Len(buffers[t]) + 1}
        /\ \A i \in DOMAIN buffers[t] : buffers'[t][i] = buffers[t][i]
        /\ buffers'[t][Len(buffers[t]) + 1] = heap
    BY <2>1, <2>4
  <2>6. \A u \in Tasklets : \A i \in DOMAIN buffers[u] : buffers[u][i] \in Nat /\ buffers[u][i] < heap
    BY <2>1 DEF BelowHeap
  <2>7. \A u \in Tasklets : \A i \in DOMAIN buffers'[u] :
           \/ i \in DOMAIN buffers[u] /\ buffers'[u][i] = buffers[u][i]
           \/ u = t /\ i = Len(buffers[t]) + 1 /\ buffers'[u][i] = heap
    BY <2>3, <2>5
  <2>8. BelowHeap'
    BY <2>1, <2>6, <2>7 DEF BelowHeap
  <2>9. BuffersDisjoint'
    BY SMTT(30), <2>1, <2>6, <2>7 DEF BuffersDisjoint
  <2> QED
    BY <2>8, <2>9
<1>3. CASE UNCHANGED <<heap, buffers>>
  BY <1>3 DEF BelowHeap, BuffersDisjoint
<1> QED
  BY <1>1, <1>2, <1>3 DEF Step, Pass, ReadA, ReadB, Compute, Write

LEMMA StepIndex ==
    ASSUME TypeOK, IndexInOperand, NEW t \in Tasklets, Step(t)
    PROVE  IndexInOperand'
<1>1. CASE Reset(t)
  BY <1>1 DEF TypeOK, IndexInOperand, Reset, Goto
<1>2. CASE Pass(t)
  BY <1>2 DEF TypeOK, IndexInOperand, Pass, Goto
<1>3. CASE Alloc(t)
  BY <1>3 DEF TypeOK, IndexInOperand, Alloc, LoopTest
<1>4. CASE ReadA(t)
  BY <1>4 DEF TypeOK, IndexInOperand, ReadA, Goto
<1>5. CASE ReadB(t)
  BY <1>5 DEF TypeOK, IndexInOperand, ReadB, Goto
<1>6. CASE Compute(t)
  BY <1>6 DEF TypeOK, IndexInOperand, Compute, Goto
<1>7. CASE Write(t)
  BY <1>7 DEF TypeOK, IndexInOperand, Write, LoopTest
<1> QED
  BY <1>1, <1>2, <1>3, <1>4, <1>5, <1>6, <1>7 DEF Step

LEMMA StepInvariant == Invariant /\ [Next]_vars => Invariant'
<1>1. ASSUME Invariant, NEW t \in Tasklets, Step(t) PROVE Invariant'
  BY <1>1, StepTypeOK, StepBarrier, StepBuffers, StepIndex DEF Invariant
<1>2. ASSUME Invariant, UNCHANGED vars PROVE Invariant'
  BY <1>2 DEF Invariant, TypeOK, NoneBeforeBarrier, AllWaitForLast, BelowHeap,
              IndexInOperand, BuffersDisjoint, vars
<1> QED
  BY <1>1, <1>2 DEF Next

(***************************************************************************)
(* No two buffers of a launch share a piece of WRAM, whatever the number   *)
(* of tasklets and whatever earlier launches left on the heap (mem_reset   *)
(* and barrier_wait at the head of each kernel).                           *)
(***************************************************************************)
THEOREM BuffersDisjointHolds == Spec => []BuffersDisjoint
<1>1. Invariant => BuffersDisjoint
  BY DEF Invariant
<1> QED
  BY <1>1, InitInvariant, StepInvariant, PTL DEF Spec

-----------------------------------------------------------------------------
(***************************************************************************)
(* A chunk that starts inside the operand ends inside the operand's        *)
(* blocks: either it is the operand, at index 0, or the cache divides both *)
(* the index and the blocks.                                               *)
(***************************************************************************)
LEMMA ChunkInRegion ==
    ASSUME meta \in Metas, NEW start \in Starts,
           NEW b \in Nat, b % CACHE_SIZE = 0, b < meta.size,
           NEW k \in 0 .. size_to_copy - 1
    PROVE  start + b + k \in Granted(start, meta.size)
<1> DEFINE size == meta.size
           n == (size + BLOCK_WORDS - 1) \div BLOCK_WORDS
           granted == BLOCK_WORDS * n
<1>1. /\ size \in Nat \ {0} /\ start \in Nat
      /\ size_to_copy \in Nat \ {0}
      /\ size_to_copy = CACHE_SIZE \/ (size_to_copy = size /\ size_to_copy <= CACHE_SIZE)
  BY MetaFields, RegionsAssumption
<1>3. /\ BLOCK_WORDS \in Nat \ {0} /\ CACHE_SIZE \in Nat \ {0}
      /\ BLOCK_WORDS % CACHE_SIZE = 0
  BY KernelAssumption
<1>4. n \in Nat /\ size <= granted /\ granted \in Nat
  BY <1>1, <1>3
<1>5. granted % CACHE_SIZE = 0
  <2>1. PICK q \in Nat : BLOCK_WORDS = q * CACHE_SIZE
    BY <1>3, MultipleIsProduct
  <2>2. granted = (q * n) * CACHE_SIZE /\ q * n \in Nat
    BY <1>3, <1>4, <2>1
  <2>3. ((q * n) * CACHE_SIZE) % CACHE_SIZE = 0
    BY <1>3, <2>2, ProductIsMultiple
  <2> QED
    BY <2>2, <2>3
<1> HIDE DEF n, granted
<1>6. b + size_to_copy <= granted
  <2>1. CASE size_to_copy = CACHE_SIZE
    <3>1. b < granted
      BY <1>1, <1>4
    <3> QED
      BY <1>3, <1>4, <1>5, <2>1, <3>1, NextMultiple
  <2>2. CASE size_to_copy = size /\ size_to_copy <= CACHE_SIZE
    <3>1. b = 0
      BY <1>1, <1>3, <2>2
    <3> QED
      BY <1>1, <1>4, <2>2, <3>1
  <2> QED
    BY <1>1, <2>1, <2>2
<1>7. start + b + k >= start /\ start + b + k <= start + granted - 1
  BY <1>1, <1>4, <1>6
<1> QED
  BY <1>1, <1>4, <1>7 DEF Granted, granted, n

LEMMA StepOthersUntouched ==
    ASSUME Invariant, OthersUntouched, NEW t \in Tasklets, Step(t)
    PROVE  OthersUntouched'
<1> USE DEF Invariant
<1>1. Target' = Target /\ meta' = meta
  BY DEF Step, Reset, Pass, Alloc, ReadA, ReadB, Compute, Write, Target, InPlace
<1>2. CASE Write(t)
  <2>1. index[t] < meta.size
    BY <1>2 DEF Write, IndexInOperand
  <2>2. /\ DOMAIN mram' = DOMAIN mram
        /\ \A w \in DOMAIN mram :
              w - Target - index[t] \notin 0 .. size_to_copy - 1 => mram'[w] = mram[w]
    BY <1>2 DEF Write
  <2>3. ASSUME NEW w \in DOMAIN mram \ Granted(Target, meta.size)
        PROVE  mram'[w] = <<w>>
    <3>1. w \in Int
      BY DEF TypeOK
    <3>2. w - Target - index[t] \notin 0 .. size_to_copy - 1
      <4> SUFFICES ASSUME w - Target - index[t] \in 0 .. size_to_copy - 1
                   PROVE  FALSE
        OBVIOUS
      <4>1. /\ Target \in Starts /\ Target \in Nat
            /\ index[t] \in Nat /\ index[t] % CACHE_SIZE = 0
        BY MetaFields DEF TypeOK
      <4>2. Target + index[t] + (w - Target - index[t]) \in Granted(Target, meta.size)
        BY <2>1, <4>1, ChunkInRegion DEF TypeOK
      <4>3. Target + index[t] + (w - Target - index[t]) = w
        BY <3>1, <4>1
      <4> QED
        BY <4>2, <4>3
    <3> QED
      BY <2>2, <3>2 DEF OthersUntouched
  <2> QED
    BY <1>1, <2>2, <2>3 DEF OthersUntouched
<1>3. CASE UNCHANGED mram
  BY <1>1, <1>3 DEF OthersUntouched
<1> QED
  BY <1>2, <1>3 DEF Step, Reset, Pass, Alloc, ReadA, ReadB, Compute

(***************************************************************************)
(* A kernel changes no word outside the blocks of its result, although it  *)
(* writes past the end of an operand that is no multiple of the cache      *)
(* (mram_write of a whole cache in the kernels' loops).                    *)
(***************************************************************************)
THEOREM OthersUntouchedHolds == Spec => []OthersUntouched
<1>1. Init => OthersUntouched
  BY DEF Init, OthersUntouched
<1>2. Invariant /\ OthersUntouched /\ [Next]_vars => OthersUntouched'
  <2>1. ASSUME Invariant, OthersUntouched, NEW t \in Tasklets, Step(t)
        PROVE  OthersUntouched'
    BY <2>1, StepOthersUntouched
  <2>2. ASSUME OthersUntouched, UNCHANGED vars PROVE OthersUntouched'
    BY <2>2 DEF OthersUntouched, Target, InPlace, vars
  <2> QED
    BY <2>1, <2>2 DEF Next
<1> QED
  BY <1>1, <1>2, InitInvariant, StepInvariant, PTL DEF Spec
-----------------------------------------------------------------------------
(***************************************************************************)
(* Where the j-th chunk of tasklet t starts, and what the kernel makes of  *)
(* element i.                                                              *)
(***************************************************************************)
Base(t, j) == (t + NR_TASKLETS * j) * CACHE_SIZE

Result(i) ==
    Apply(<<meta.op1 + i>>, IF Binary THEN <<meta.op2 + i>> ELSE Scalar)

\* A tasklet goes from one of its own chunks to the next, until there is none.
IndexOwn == \A t \in Tasklets : \E j \in Nat : index[t] = Base(t, j)

DoneAtEnd == \A t \in Tasklets : pc[t] = "done" => index[t] >= meta.size

\* It has all its buffers when it starts to move data.
BufferCount ==
    \A t \in Tasklets :
        IF pc[t] \in {"start", "barrier", "alloc"}
        THEN Len(buffers[t]) < NrBuffers
        ELSE Len(buffers[t]) = NrBuffers

\* After the reset the heap holds nothing but the buffers of this launch.
HeapCovered ==
    pc[0] # "start" =>
        \A s \in 0 .. heap - 1 :
            \E t \in Tasklets : \E i \in DOMAIN buffers[t] : buffers[t][i] = s

\* The buffers hold the operands' original elements, then their result.
LoadedAt(t) ==
    /\ pc[t] = "readB" => Binary
    /\ \A k \in 0 .. size_to_copy - 1 :
          /\ pc[t] \in {"readB", "compute"} =>
                wram[buffers[t][1]][k] = <<meta.op1 + index[t] + k>>
          /\ pc[t] = "compute" /\ Binary =>
                wram[buffers[t][2]][k] = <<meta.op2 + index[t] + k>>
          /\ pc[t] = "write" => wram[ResultSlot(t)][k] = Result(index[t] + k)

Loaded == DOMAIN wram = Slots /\ \A t \in Tasklets : LoadedAt(t)

(***************************************************************************)
(* The chunks behind a tasklet's index are done, those from it on are as   *)
(* they were: in place, the operand is still to be read from them.         *)
(***************************************************************************)
Chunks ==
    \A t \in Tasklets, j \in Nat, k \in 0 .. size_to_copy - 1 :
        Base(t, j) < meta.size =>
            mram[Target + Base(t, j) + k] =
                IF Base(t, j) < index[t] THEN Result(Base(t, j) + k)
                                         ELSE <<Target + Base(t, j) + k>>

DataInvariant ==
    /\ Invariant /\ OthersUntouched
    /\ IndexOwn /\ DoneAtEnd /\ BufferCount /\ HeapCovered
    /\ Loaded /\ Chunks

LEMMA BaseIsMultiple ==
    ASSUME NEW t \in Tasklets, NEW j \in Nat
    PROVE  Base(t, j) \in Nat /\ Base(t, j) % CACHE_SIZE = 0
<1>1. t + NR_TASKLETS * j \in Nat
  <2>1. NR_TASKLETS * j \in Nat
    BY KernelAssumption
  <2> QED
    BY <2>1, KernelAssumption DEF Tasklets
<1> QED
  BY <1>1, ProductIsMultiple, KernelAssumption DEF Base

LEMMA NextBase ==
    ASSUME NEW t \in Tasklets, NEW j \in Nat
    PROVE  Base(t, j) + CACHE_SIZE * NR_TASKLETS = Base(t, j + 1)
<1>1. t \in Nat
  BY KernelAssumption DEF Tasklets
<1> QED
  BY <1>1, KernelAssumption DEF Base

\* Numbers that differ have products that differ by the factor.
LEMMA ProductsApart ==
    ASSUME NEW m \in Nat, NEW n \in Nat, NEW c \in Nat \ {0}, m < n
    PROVE  m * c + c <= n * c
<1>1. (m + 1) * c <= n * c
  BY m + 1 <= n
<1> QED
  BY <1>1

\* Two chunks, of one tasklet or of two, do not overlap.
LEMMA BasesApart ==
    ASSUME NEW t \in Tasklets, NEW u \in Tasklets, NEW i \in Nat, NEW j \in Nat,
           t # u \/ i # j
    PROVE  \/ Base(t, i) + CACHE_SIZE <= Base(u, j)
           \/ Base(u, j) + CACHE_SIZE <= Base(t, i)
<1> DEFINE n == NR_TASKLETS
           a == t + n * i
           b == u + n * j
<1>1. n \in Nat \ {0} /\ t \in Nat /\ u \in Nat /\ t < n /\ u < n
  BY KernelAssumption DEF Tasklets
<1>2. n * i \in Nat /\ n * j \in Nat
  BY <1>1
<1>3. a # b
  <2>1. CASE i = j
    BY <1>1, <1>2, <2>1
  <2>2. CASE i < j
    <3>1. i * n + n <= j * n
      BY <1>1, <2>2, ProductsApart
    <3> QED
      BY <1>1, <1>2, <3>1
  <2>3. CASE j < i
    <3>1. j * n + n <= i * n
      BY <1>1, <2>3, ProductsApart
    <3> QED
      BY <1>1, <1>2, <3>1
  <2> QED
    BY <2>1, <2>2, <2>3
<1>4. a \in Nat /\ b \in Nat
  BY <1>1, <1>2
<1> HIDE DEF a, b
<1>5. a * CACHE_SIZE + CACHE_SIZE <= b * CACHE_SIZE \/ b * CACHE_SIZE + CACHE_SIZE <= a * CACHE_SIZE
  <2>1. CASE a < b
    BY <1>4, <2>1, ProductsApart, KernelAssumption
  <2>2. CASE b < a
    BY <1>4, <2>2, ProductsApart, KernelAssumption
  <2> QED
    BY <1>3, <1>4, <2>1, <2>2
<1> QED
  BY <1>5 DEF Base, a, b, n

LEMMA BaseOrder ==
    ASSUME NEW t \in Tasklets, NEW i \in Nat, NEW j \in Nat
    PROVE  Base(t, i) < Base(t, j) <=> i < j
<1>1. NR_TASKLETS \in Nat \ {0} /\ CACHE_SIZE \in Nat \ {0} /\ t \in Nat
  BY KernelAssumption DEF Tasklets
<1>2. ASSUME NEW m \in Nat, NEW n \in Nat, m < n PROVE Base(t, m) < Base(t, n)
  <2>1. m * NR_TASKLETS + NR_TASKLETS <= n * NR_TASKLETS
    BY <1>1, <1>2, ProductsApart
  <2>2. /\ t + NR_TASKLETS * m \in Nat /\ t + NR_TASKLETS * n \in Nat
        /\ t + NR_TASKLETS * m < t + NR_TASKLETS * n
    BY <1>1, <2>1
  <2>3. (t + NR_TASKLETS * m) * CACHE_SIZE + CACHE_SIZE <= (t + NR_TASKLETS * n) * CACHE_SIZE
    BY <1>1, <2>2, ProductsApart
  <2>4. (t + NR_TASKLETS * m) * CACHE_SIZE \in Nat /\ (t + NR_TASKLETS * n) * CACHE_SIZE \in Nat
    BY <1>1, <2>2
  <2> QED
    BY <1>1, <2>3, <2>4 DEF Base
<1>3. Base(t, i) \in Nat /\ Base(t, j) \in Nat
  BY BaseIsMultiple
<1>4. CASE i < j
  BY <1>2, <1>4
<1>5. CASE j < i
  BY <1>2, <1>3, <1>5
<1>6. CASE i = j
  BY <1>3, <1>6
<1> QED
  BY <1>4, <1>5, <1>6
-----------------------------------------------------------------------------
Moving == {"readA", "readB", "compute", "write"}

\* The number, among its tasklet's buffers, of the one that gets the result.
ResultIndex == IF InPlace THEN 1 ELSE NrBuffers

LEMMA BuffersOfMoving ==
    ASSUME DataInvariant, NEW t \in Tasklets, pc[t] \in Moving
    PROVE  /\ NrBuffers \in 1 .. 3 /\ Len(buffers[t]) = NrBuffers
           /\ DOMAIN buffers[t] = 1 .. NrBuffers
           /\ Head(buffers[t]) = buffers[t][1]
           /\ 1 \in DOMAIN buffers[t] /\ (Binary => 2 \in DOMAIN buffers[t])
           /\ ResultIndex \in DOMAIN buffers[t]
           /\ ResultSlot(t) = buffers[t][ResultIndex]
<1>1. buffers[t] \in Seq(Nat)
  BY DEF DataInvariant, Invariant, TypeOK
<1>2. NrBuffers \in 1 .. 3 /\ (Binary => NrBuffers \in 2 .. 3)
  BY DEF NrBuffers
<1>3. Len(buffers[t]) = NrBuffers
  BY DEF DataInvariant, BufferCount, Moving
<1>4. DOMAIN buffers[t] = 1 .. NrBuffers
  BY <1>1, <1>3
<1>5. buffers[t] # <<>>
  BY <1>1, <1>2, <1>3
<1>6. Head(buffers[t]) = buffers[t][1]
  BY <1>1, <1>5
<1>7. ResultSlot(t) = buffers[t][ResultIndex]
  BY <1>3, <1>6 DEF ResultSlot, ResultIndex, Last
<1>8. ResultIndex \in 1 .. NrBuffers
  BY <1>2 DEF ResultIndex
<1> QED
  BY <1>2, <1>3, <1>4, <1>6, <1>7, <1>8

(***************************************************************************)
(* The heap has at most three slots a tasklet: each is one of the at most  *)
(* three buffers of one tasklet.                                           *)
(***************************************************************************)
LEMMA HeapBound ==
    ASSUME DataInvariant, pc[0] # "start"
    PROVE  heap <= 3 * NR_TASKLETS
<1> DEFINE S == 0 .. heap - 1
           T == Tasklets \X (1 .. 3)
           Holds(p, s) == p[2] \in DOMAIN buffers[p[1]] /\ buffers[p[1]][p[2]] = s
           f == [s \in S |-> CHOOSE p \in T : Holds(p, s)]
<1>1. heap \in Nat
  BY DEF DataInvariant, Invariant, TypeOK
<1>2. \A s \in S : \E p \in T : Holds(p, s)
  <2> TAKE s \in S
  <2>1. PICK t \in Tasklets : \E i \in DOMAIN buffers[t] : buffers[t][i] = s
    BY DEF DataInvariant, HeapCovered
  <2>2. PICK i \in DOMAIN buffers[t] : buffers[t][i] = s
    BY <2>1
  <2>3. i \in 1 .. 3
    <3>1. buffers[t] \in Seq(Nat)
      BY DEF DataInvariant, Invariant, TypeOK
    <3>2. Len(buffers[t]) <= 3
      BY <3>1 DEF DataInvariant, BufferCount, NrBuffers
    <3> QED
      BY <2>2, <3>1, <3>2
  <2>4. <<t, i>> \in T /\ Holds(<<t, i>>, s)
    BY <2>2, <2>3
  <2> QED
    BY <2>4
<1> HIDE DEF Holds
<1>3. \A s \in S : f[s] \in T /\ Holds(f[s], s)
  BY <1>2
<1>4. f \in [S -> T]
  BY <1>3
<1>5. \A r, s \in S : f[r] = f[s] => r = s
  BY <1>3 DEF Holds
<1>6. f \in Injection(S, T)
  <2> HIDE DEF f
  <2> QED
    BY <1>4, <1>5 DEF Injection, IsInjective
<1>7. IsFiniteSet(Tasklets) /\ Cardinality(Tasklets) = NR_TASKLETS
  BY FS_Interval, KernelAssumption DEF Tasklets
<1>8. IsFiniteSet(1 .. 3) /\ Cardinality(1 .. 3) = 3
  <2>1. /\ IsFiniteSet(1 .. 3)
        /\ Cardinality(1 .. 3) = IF 1 > 3 THEN 0 ELSE 3 - 1 + 1
    BY 1 \in Int, 3 \in Int, FS_Interval, Zenon
  <2> QED
    BY <2>1
<1>9. IsFiniteSet(T) /\ Cardinality(T) = NR_TASKLETS * 3
  BY <1>7, <1>8, FS_Product
<1>10. Cardinality(S) <= Cardinality(T)
  <2> HIDE DEF S, T, f
  <2> QED
    BY <1>6, <1>9, FS_Injection
<1>11. Cardinality(S) = heap
  <2>1. Cardinality(S) = IF 0 > heap - 1 THEN 0 ELSE heap - 1 - 0 + 1
    BY <1>1, FS_Interval
  <2> QED
    BY <1>1, <2>1
<1> HIDE DEF S, T, f
<1> QED
  BY <1>9, <1>10, <1>11, KernelAssumption

LEMMA BufferIsSlot ==
    ASSUME DataInvariant, NEW t \in Tasklets, NEW i \in DOMAIN buffers[t]
    PROVE  buffers[t][i] \in Slots
<1>1. 0 \in Tasklets
  BY KernelAssumption DEF Tasklets
<1>2. buffers[t] # <<>>
  OBVIOUS
<1>3. pc[0] # "start"
  BY <1>1, <1>2 DEF DataInvariant, Invariant, NoneBeforeBarrier, AllWaitForLast
<1>4. heap <= 3 * NR_TASKLETS
  BY <1>3, HeapBound
<1>5. buffers[t][i] \in Nat /\ buffers[t][i] < heap /\ heap \in Nat
  BY DEF DataInvariant, Invariant, TypeOK, BelowHeap
<1>6. buffers[t][i] <= StaleHeap + 3 * NR_TASKLETS - 1
  BY <1>4, <1>5, KernelAssumption
<1> QED
  BY <1>5, <1>6 DEF Slots

\* A load into one buffer changes that buffer and no other one.
LEMMA LoadOneBuffer ==
    ASSUME DataInvariant, NEW t \in Tasklets, NEW i \in DOMAIN buffers[t]
    PROVE  \A d : Load(buffers[t][i], d) =>
               /\ DOMAIN wram' = Slots
               /\ wram'[buffers[t][i]] = d
               /\ \A u \in Tasklets : \A j \in DOMAIN buffers[u] :
                     u # t \/ j # i => wram'[buffers[u][j]] = wram[buffers[u][j]]
<1> SUFFICES ASSUME NEW d, Load(buffers[t][i], d)
             PROVE  /\ DOMAIN wram' = Slots
                    /\ wram'[buffers[t][i]] = d
                    /\ \A u \in Tasklets : \A j \in DOMAIN buffers[u] :
                          u # t \/ j # i => wram'[buffers[u][j]] = wram[buffers[u][j]]
  OBVIOUS
<1>1. wram' = [wram EXCEPT ![buffers[t][i]] = d] /\ DOMAIN wram = Slots
  BY DEF Load, DataInvariant, Loaded
<1>2. buffers[t][i] \in Slots
  BY BufferIsSlot
<1>3. ASSUME NEW u \in Tasklets, NEW j \in DOMAIN buffers[u], u # t \/ j # i
      PROVE  wram'[buffers[u][j]] = wram[buffers[u][j]]
  <2>1. buffers[u][j] # buffers[t][i]
    BY <1>3 DEF DataInvariant, Invariant, BuffersDisjoint
  <2>2. buffers[u][j] \in Slots
    BY BufferIsSlot
  <2> QED
    BY <1>1, <2>1, <2>2
<1> QED
  BY <1>1, <1>2, <1>3
-----------------------------------------------------------------------------
\* What a launch is about does not change, nor do the others of a step.
LEMMA StepFrame ==
    ASSUME TypeOK, NEW t \in Tasklets, Step(t)
    PROVE  /\ meta' = meta /\ size_to_copy' = size_to_copy /\ Target' = Target
           /\ Binary' = Binary /\ InPlace' = InPlace /\ NrBuffers' = NrBuffers
           /\ \A i : Result(i)' = Result(i)
           /\ \A u \in Tasklets \ {t} :
                 pc'[u] = pc[u] /\ index'[u] = index[u] /\ buffers'[u] = buffers[u]
<1>1. meta' = meta
  BY DEF Step, Reset, Pass, Alloc, ReadA, ReadB, Compute, Write
<1>2. \A u \in Tasklets \ {t} :
          pc'[u] = pc[u] /\ index'[u] = index[u] /\ buffers'[u] = buffers[u]
  <2>1. CASE Reset(t) \/ Pass(t) \/ ReadA(t) \/ ReadB(t) \/ Compute(t)
    BY <2>1 DEF TypeOK, Reset, Pass, ReadA, ReadB, Compute, Goto
  <2>2. CASE Alloc(t)
    BY <2>2 DEF TypeOK, Alloc, LoopTest
  <2>3. CASE Write(t)
    BY <2>3 DEF TypeOK, Write, LoopTest
  <2> QED
    BY <2>1, <2>2, <2>3 DEF Step
<1>3. /\ size_to_copy' = size_to_copy /\ Target' = Target
      /\ Binary' = Binary /\ InPlace' = InPlace /\ NrBuffers' = NrBuffers
  BY <1>1 DEF size_to_copy, Target, Binary, InPlace, NrBuffers
<1>4. \A i : Result(i)' = Result(i)
  BY <1>1, <1>3 DEF Result
<1> QED
  BY <1>1, <1>2, <1>3, <1>4

LEMMA StepIndexOwn ==
    ASSUME DataInvariant, NEW t \in Tasklets, Step(t)
    PROVE  IndexOwn' /\ DoneAtEnd'
<1>1. TypeOK /\ IndexOwn /\ DoneAtEnd
  BY DEF DataInvariant, Invariant
<1>2. /\ meta' = meta
      /\ \A u \in Tasklets \ {t} : pc'[u] = pc[u] /\ index'[u] = index[u]
  BY <1>1, StepFrame
<1>3. (\E j \in Nat : index'[t] = Base(t, j)) /\ (pc'[t] = "done" => index'[t] >= meta.size)
  <2>1. /\ index \in [Tasklets -> Nat] /\ meta.size \in Nat
        /\ pc \in [Tasklets -> {"start", "barrier", "alloc", "readA", "readB",
                                "compute", "write", "done"}]
    BY <1>1, MetaFields DEF TypeOK
  <2>2. CASE Write(t)
    <3>1. PICK j \in Nat : index[t] = Base(t, j)
      BY <1>1 DEF IndexOwn
    <3>2. index'[t] = index[t] + CACHE_SIZE * NR_TASKLETS
      BY <2>1, <2>2 DEF Write
    <3>3. index'[t] = Base(t, j + 1) /\ j + 1 \in Nat
      BY <3>1, <3>2, NextBase
    <3>4. index'[t] \in Nat
      BY <3>3, BaseIsMultiple
    <3>5. pc'[t] = IF index'[t] < meta.size THEN "readA" ELSE "done"
      BY <2>1, <2>2, <3>2 DEF Write, LoopTest
    <3> QED
      BY <2>1, <3>3, <3>4, <3>5
  <2>3. CASE Alloc(t)
    <3>1. index' = index
      BY <2>3 DEF Alloc
    <3>2. pc'[t] = "done" => index[t] >= meta.size
      BY <2>1, <2>3 DEF Alloc, LoopTest
    <3> QED
      BY <1>1, <3>1, <3>2 DEF IndexOwn
  <2>4. CASE Reset(t) \/ Pass(t) \/ ReadA(t) \/ ReadB(t) \/ Compute(t)
    <3>1. index' = index /\ pc'[t] # "done"
      BY <2>1, <2>4 DEF Reset, Pass, ReadA, ReadB, Compute, Goto
    <3> QED
      BY <1>1, <3>1 DEF IndexOwn
  <2> QED
    BY <2>2, <2>3, <2>4 DEF Step
<1>4. \A u \in Tasklets : \E j \in Nat : index'[u] = Base(u, j)
  BY <1>1, <1>2, <1>3 DEF IndexOwn
<1>5. \A u \in Tasklets : pc'[u] = "done" => index'[u] >= meta'.size
  BY <1>1, <1>2, <1>3 DEF DoneAtEnd
<1> QED
  BY <1>4, <1>5 DEF IndexOwn, DoneAtEnd, Base

LEMMA StepBufferCount ==
    ASSUME DataInvariant, NEW t \in Tasklets, Step(t)
    PROVE  BufferCount'
<1>1. TypeOK /\ BufferCount
  BY DEF DataInvariant, Invariant
<1>2. /\ NrBuffers' = NrBuffers
      /\ \A u \in Tasklets \ {t} : pc'[u] = pc[u] /\ buffers'[u] = buffers[u]
  BY <1>1, StepFrame
<1>3. NrBuffers \in 1 .. 3
  BY DEF NrBuffers
<1>4. IF pc'[t] \in {"start", "barrier", "alloc"}
      THEN Len(buffers'[t]) < NrBuffers
      ELSE Len(buffers'[t]) = NrBuffers
  <2>1. buffers[t] \in Seq(Nat) /\ t \in DOMAIN buffers /\ t \in DOMAIN pc
    BY <1>1 DEF TypeOK
  <2>2. CASE Alloc(t)
    <3>1. buffers'[t] = Append(buffers[t], heap)
      BY <2>1, <2>2 DEF Alloc
    <3>2. Len(buffers'[t]) = Len(buffers[t]) + 1
      BY <1>1, <2>1, <3>1 DEF TypeOK
    <3>3. Len(buffers[t]) < NrBuffers /\ Len(buffers[t]) \in Nat
      BY <1>1, <2>1, <2>2 DEF BufferCount, Alloc
    <3>4. CASE Len(buffers[t]) + 1 = NrBuffers
      <4>1. pc'[t] \in {"readA", "done"}
        BY <2>1, <2>2, <3>4 DEF Alloc, LoopTest
      <4> QED
        BY <3>2, <3>4, <4>1
    <3>5. CASE Len(buffers[t]) + 1 # NrBuffers
      <4>1. pc'[t] = "alloc"
        BY <2>2, <3>5 DEF Alloc
      <4> QED
        BY <1>3, <3>2, <3>3, <3>5, <4>1
    <3> QED
      BY <3>4, <3>5
  <2>3. CASE Reset(t) \/ Pass(t)
    BY <1>1, <2>1, <2>3 DEF BufferCount, Reset, Pass, Goto
  <2>4. CASE ReadA(t) \/ ReadB(t) \/ Compute(t)
    BY <1>1, <2>1, <2>4 DEF BufferCount, ReadA, ReadB, Compute, Goto
  <2>5. CASE Write(t)
    BY <1>1, <2>1, <2>5 DEF BufferCount, Write, LoopTest
  <2> QED
    BY <2>2, <2>3, <2>4, <2>5 DEF Step
<1> QED
  BY <1>1, <1>2, <1>4 DEF BufferCount

LEMMA StepHeapCovered ==
    ASSUME DataInvariant, NEW t \in Tasklets, Step(t)
    PROVE  HeapCovered'
<1>1. TypeOK /\ HeapCovered
  BY DEF DataInvariant, Invariant
<1>2. 0 \in Tasklets /\ heap \in Nat
  BY <1>1, KernelAssumption DEF Tasklets, TypeOK
<1>3. CASE Reset(t)
  <2>1. CASE t = 0
    BY <1>3, <2>1 DEF Reset, HeapCovered
  <2>2. CASE t # 0
    <3>1. heap' = heap /\ buffers' = buffers /\ pc'[0] = pc[0]
      BY <1>1, <1>2, <1>3, <2>2 DEF Reset, Goto, TypeOK
    <3> QED
      BY <1>1, <3>1 DEF HeapCovered
  <2> QED
    BY <2>1, <2>2
<1>4. CASE Alloc(t)
  <2>1. /\ heap' = heap + 1 /\ pc[t] = "alloc"
        /\ buffers' = [buffers EXCEPT ![t] = Append(@, heap)]
    BY <1>4 DEF Alloc
  <2>2. pc[0] # "start"
    BY <1>2, <2>1 DEF DataInvariant, Invariant, AllWaitForLast
  <2>3. /\ \A u \in Tasklets \ {t} : buffers'[u] = buffers[u]
        /\ buffers'[t] = Append(buffers[t], heap)
    BY <1>1, <2>1 DEF TypeOK
  <2>4. /\ \A i \in DOMAIN buffers[t] : i \in DOMAIN buffers'[t] /\ buffers'[t][i] = buffers[t][i]
        /\ Len(buffers[t]) + 1 \in DOMAIN buffers'[t]
        /\ buffers'[t][Len(buffers[t]) + 1] = heap
    <3>1. buffers[t] \in Seq(Nat)
      BY <1>1 DEF TypeOK
    <3> QED
      BY <1>2, <2>3, <3>1
  <2>5. ASSUME NEW s \in 0 .. heap' - 1
        PROVE  \E u \in Tasklets : \E i \in DOMAIN buffers'[u] : buffers'[u][i] = s
    <3>1. s = heap \/ s \in 0 .. heap - 1
      BY <1>2, <2>1
    <3>2. CASE s = heap
      BY <2>4, <3>2
    <3>3. CASE s \in 0 .. heap - 1
      <4>1. PICK u \in Tasklets : \E i \in DOMAIN buffers[u] : buffers[u][i] = s
        BY <1>1, <2>2, <3>3 DEF HeapCovered
      <4> QED
        BY <2>3, <2>4, <4>1
    <3> QED
      BY <3>1, <3>2, <3>3
  <2> QED
    BY <2>5 DEF HeapCovered
<1>5. CASE Pass(t) \/ ReadA(t) \/ ReadB(t) \/ Compute(t) \/ Write(t)
  <2>1. heap' = heap /\ buffers' = buffers /\ pc[t] # "start"
    BY <1>5 DEF Pass, ReadA, ReadB, Compute, Write, Goto
  <2>2. pc[0] # "start"
    BY <1>2, <1>5 DEF DataInvariant, Invariant, AllWaitForLast,
                      Pass, ReadA, ReadB, Compute, Write, Goto
  <2> QED
    BY <1>1, <2>1, <2>2 DEF HeapCovered
<1> QED
  BY <1>3, <1>4, <1>5 DEF Step
-----------------------------------------------------------------------------
(***************************************************************************)
(* A tasklet at work finds the original elements of its chunk, also in     *)
(* place: it has not written that chunk, and nobody else writes it.        *)
(***************************************************************************)
LEMMA OperandUnread ==
    ASSUME DataInvariant, NEW t \in Tasklets, pc[t] \in Moving,
           NEW op \in {meta.op1, meta.op2}, NEW k \in 0 .. size_to_copy - 1
    PROVE  mram[op + index[t] + k] = <<op + index[t] + k>>
<1>1. TypeOK /\ IndexOwn /\ Chunks /\ OthersUntouched /\ meta \in Metas
  BY DEF DataInvariant, Invariant, TypeOK
<1>2. index[t] < meta.size /\ index[t] \in Nat /\ index[t] % CACHE_SIZE = 0
  BY DEF DataInvariant, Invariant, IndexInOperand, Moving, TypeOK
<1>3. CASE op = Target
  <2>1. PICK j \in Nat : index[t] = Base(t, j)
    BY <1>1 DEF IndexOwn
  <2>2. Base(t, j) < meta.size /\ ~(Base(t, j) < index[t])
    BY <1>2, <2>1
  <2>3. mram[Target + Base(t, j) + k] = <<Target + Base(t, j) + k>>
    BY <1>1, <2>2 DEF Chunks
  <2> QED
    BY <1>3, <2>1, <2>3
<1>4. CASE op # Target
  <2>1. op \in Starts /\ Target \in Starts /\ meta.size \in OpSizes
    BY <1>1, MetaFields DEF Metas
  <2>2. op + index[t] + k \in Granted(op, meta.size)
    BY <1>1, <1>2, <2>1, ChunkInRegion
  <2>3. op + index[t] + k \in 0 .. MRAM_WORDS - 1
    BY <2>1, <2>2, RegionsAssumption
  <2>4. op + index[t] + k \notin Granted(Target, meta.size)
    BY <1>4, <2>1, <2>2, RegionsAssumption
  <2> QED
    BY <1>1, <2>3, <2>4 DEF OthersUntouched, TypeOK
<1> QED
  BY <1>3, <1>4

\* What holds of a tasklet's buffers is kept by a step that leaves it alone.
LEMMA LoadedKept ==
    ASSUME DataInvariant, NEW u \in Tasklets, LoadedAt(u),
           meta' = meta, pc'[u] = pc[u], index'[u] = index[u],
           buffers'[u] = buffers[u],
           \A j \in DOMAIN buffers[u] : wram'[buffers[u][j]] = wram[buffers[u][j]]
    PROVE  LoadedAt(u)'
<1>1. /\ size_to_copy' = size_to_copy /\ Binary' = Binary /\ InPlace' = InPlace
      /\ \A i : Result(i)' = Result(i)
  BY DEF size_to_copy, Binary, InPlace, Result
<1>2. ResultSlot(u)' = ResultSlot(u)
  BY <1>1 DEF ResultSlot, Last
<1>3. CASE pc[u] \in Moving
  BY <1>1, <1>2, <1>3, BuffersOfMoving DEF LoadedAt
<1>4. CASE pc[u] \notin Moving
  BY <1>4 DEF LoadedAt, Moving
<1> QED
  BY <1>3, <1>4

LEMMA StepLoaded ==
    ASSUME DataInvariant, NEW t \in Tasklets, Step(t)
    PROVE  Loaded'
<1>1. /\ TypeOK /\ DOMAIN wram = Slots /\ (\A u \in Tasklets : LoadedAt(u))
      /\ t \in DOMAIN pc
  BY DEF DataInvariant, Invariant, Loaded, TypeOK
<1>2. /\ meta' = meta /\ size_to_copy' = size_to_copy
      /\ Binary' = Binary /\ (\A i : Result(i)' = Result(i))
      /\ \A u \in Tasklets \ {t} :
            pc'[u] = pc[u] /\ index'[u] = index[u] /\ buffers'[u] = buffers[u]
  BY <1>1, StepFrame
<1>3. CASE Reset(t) \/ Pass(t) \/ Alloc(t) \/ Write(t)
  <2>1. wram' = wram
    BY <1>3 DEF Reset, Pass, Alloc, Write
  <2>2. pc'[t] \in {"barrier", "alloc", "readA", "done"}
    BY <1>1, <1>3 DEF Reset, Pass, Alloc, Write, Goto, LoopTest
  <2>3. LoadedAt(t)'
    BY <2>2 DEF LoadedAt
  <2>4. \A u \in Tasklets \ {t} : LoadedAt(u)'
    BY <1>1, <1>2, <2>1, LoadedKept
  <2> QED
    BY <1>1, <2>1, <2>3, <2>4 DEF Loaded, Slots
<1>4. CASE ReadA(t)
  <2>1. PICK data : data = Chunk(meta.op1, t)
    OBVIOUS
  <2>2. /\ pc[t] = "readA" /\ pc'[t] = IF Binary THEN "readB" ELSE "compute"
        /\ Load(Head(buffers[t]), data)
        /\ index' = index /\ buffers' = buffers
    BY <1>1, <1>4, <2>1 DEF ReadA, Goto
  <2>3. Head(buffers[t]) = buffers[t][1] /\ 1 \in DOMAIN buffers[t]
    BY <2>2, BuffersOfMoving DEF Moving
  <2>4. \A k \in 0 .. size_to_copy - 1 : data[k] = <<meta.op1 + index[t] + k>>
    BY <2>1, <2>2, OperandUnread DEF Chunk, Moving
  <2>5. /\ DOMAIN wram' = Slots /\ wram'[buffers[t][1]] = data
        /\ \A u \in Tasklets : \A j \in DOMAIN buffers[u] :
              u # t \/ j # 1 => wram'[buffers[u][j]] = wram[buffers[u][j]]
    BY <2>2, <2>3, LoadOneBuffer
  <2>6. \A k \in 0 .. size_to_copy - 1 :
            wram'[buffers[t][1]][k] = <<meta.op1 + index[t] + k>>
    BY <2>4, <2>5
  <2>7. LoadedAt(t)'
    BY <1>2, <2>2, <2>6 DEF LoadedAt
  <2>8. \A u \in Tasklets \ {t} : LoadedAt(u)'
    BY <1>1, <1>2, <2>5, LoadedKept
  <2> QED
    BY <2>5, <2>7, <2>8 DEF Loaded, Slots
<1>5. CASE ReadB(t)
  <2>1. PICK data : data = Chunk(meta.op2, t)
    OBVIOUS
  <2>2. /\ pc[t] = "readB" /\ pc'[t] = "compute" /\ Binary
        /\ Load(buffers[t][2], data)
        /\ index' = index /\ buffers' = buffers
    BY <1>1, <1>5, <2>1 DEF ReadB, Goto, LoadedAt
  <2>3. /\ Head(buffers[t]) = buffers[t][1]
        /\ 1 \in DOMAIN buffers[t] /\ 2 \in DOMAIN buffers[t]
    BY <2>2, BuffersOfMoving DEF Moving
  <2>4. \A k \in 0 .. size_to_copy - 1 : data[k] = <<meta.op2 + index[t] + k>>
    BY <2>1, <2>2, OperandUnread DEF Chunk, Moving
  <2>5. /\ DOMAIN wram' = Slots /\ wram'[buffers[t][2]] = data
        /\ \A u \in Tasklets : \A j \in DOMAIN buffers[u] :
              u # t \/ j # 2 => wram'[buffers[u][j]] = wram[buffers[u][j]]
    <3>1. Load(buffers[t][2], data)
      BY <2>2
    <3>2. \A d : Load(buffers[t][2], d) =>
              /\ DOMAIN wram' = Slots /\ wram'[buffers[t][2]] = d
              /\ \A u \in Tasklets : \A j \in DOMAIN buffers[u] :
                   u # t \/ j # 2 => wram'[buffers[u][j]] = wram[buffers[u][j]]
      BY <2>3, LoadOneBuffer, Z3
    <3> QED
      BY <3>1, <3>2
  <2>6. \A k \in 0 .. size_to_copy - 1 :
            /\ wram'[buffers[t][2]][k] = <<meta.op2 + index[t] + k>>
            /\ wram'[buffers[t][1]][k] = <<meta.op1 + index[t] + k>>
    BY <1>1, <2>2, <2>3, <2>5, <2>4 DEF LoadedAt
  <2>7. LoadedAt(t)'
    BY <1>2, <2>2, <2>6 DEF LoadedAt
  <2>8. \A u \in Tasklets \ {t} : LoadedAt(u)'
    BY <1>1, <1>2, <2>5, LoadedKept
  <2> QED
    BY <2>5, <2>7, <2>8 DEF Loaded, Slots
<1>6. CASE Compute(t)
  <2>1. PICK data : data = [k \in 0 .. size_to_copy - 1 |->
                           Apply(wram[Head(buffers[t])][k],
                                 IF Binary THEN wram[buffers[t][2]][k] ELSE Scalar)]
    OBVIOUS
  <2>2. /\ pc[t] = "compute" /\ pc'[t] = "write"
        /\ Load(ResultSlot(t), data)
        /\ index' = index /\ buffers' = buffers
    BY <1>1, <1>6, <2>1 DEF Compute, Goto
  <2>3. /\ Head(buffers[t]) = buffers[t][1] /\ ResultIndex \in DOMAIN buffers[t]
        /\ ResultSlot(t) = buffers[t][ResultIndex]
    BY <2>2, BuffersOfMoving DEF Moving
  <2>4. \A k \in 0 .. size_to_copy - 1 : data[k] = Result(index[t] + k)
    <3> TAKE k \in 0 .. size_to_copy - 1
    <3>1. wram[Head(buffers[t])][k] = <<meta.op1 + index[t] + k>>
      BY <1>1, <2>2, <2>3 DEF LoadedAt
    <3>2. Binary => wram[buffers[t][2]][k] = <<meta.op2 + index[t] + k>>
      BY <1>1, <2>2 DEF LoadedAt
    <3>3. /\ meta.op1 \in Nat /\ meta.op2 \in Nat /\ index[t] \in Nat
          /\ size_to_copy \in Nat
      BY <1>1, MetaFields, RegionsAssumption DEF TypeOK, Metas
    <3>4. /\ meta.op1 + index[t] + k = meta.op1 + (index[t] + k)
          /\ meta.op2 + index[t] + k = meta.op2 + (index[t] + k)
      BY <3>3
    <3> QED
      BY <2>1, <3>1, <3>2, <3>4 DEF Result
  <2>5. /\ DOMAIN wram' = Slots /\ wram'[ResultSlot(t)] = data
        /\ \A u \in Tasklets : \A j \in DOMAIN buffers[u] :
              u # t \/ j # ResultIndex => wram'[buffers[u][j]] = wram[buffers[u][j]]
    BY SMTT(30), <2>2, <2>3, LoadOneBuffer
  <2>6. ResultSlot(t)' = ResultSlot(t)
    BY <1>2, <2>2 DEF ResultSlot, InPlace, Last
  <2>7. LoadedAt(t)'
    BY <1>2, <2>2, <2>4, <2>5, <2>6 DEF LoadedAt
  <2>8. \A u \in Tasklets \ {t} : LoadedAt(u)'
    BY <1>1, <1>2, <2>5, LoadedKept
  <2> QED
    BY <2>5, <2>7, <2>8 DEF Loaded, Slots
<1> QED
  BY <1>3, <1>4, <1>5, <1>6 DEF Step
LEMMA StepChunks ==
    ASSUME DataInvariant, NEW t \in Tasklets, Step(t)
    PROVE  Chunks'
<1>1. /\ TypeOK /\ meta \in Metas /\ Chunks /\ IndexOwn /\ index \in [Tasklets -> Nat]
      /\ DOMAIN mram = 0 .. MRAM_WORDS - 1
  BY DEF DataInvariant, Invariant, TypeOK
<1>2. /\ meta' = meta /\ size_to_copy' = size_to_copy /\ Target' = Target
      /\ \A i : Result(i)' = Result(i)
  BY <1>1, StepFrame
<1>3. CASE Write(t)
  <2>1. /\ index' = [index EXCEPT ![t] = index[t] + CACHE_SIZE * NR_TASKLETS]
        /\ mram' = [w \in DOMAIN mram |->
                      IF w - Target - index[t] \in 0 .. size_to_copy - 1
                      THEN wram[ResultSlot(t)][w - Target - index[t]]
                      ELSE mram[w]]
        /\ pc[t] = "write"
    BY <1>3 DEF Write
  <2>2. PICK own \in Nat : index[t] = Base(t, own)
    BY <1>1 DEF IndexOwn
  <2>3. index'[t] = Base(t, own + 1) /\ own + 1 \in Nat
    BY <1>1, <2>1, <2>2, NextBase
  <2>4. SUFFICES ASSUME NEW u \in Tasklets, NEW j \in Nat, NEW k \in 0 .. size_to_copy - 1,
                        Base(u, j) < meta.size
                 PROVE  mram'[Target + Base(u, j) + k] =
                            IF Base(u, j) < index'[u] THEN Result(Base(u, j) + k)
                                                      ELSE <<Target + Base(u, j) + k>>
    BY <1>2 DEF Chunks, Base
  <2> DEFINE w == Target + Base(u, j) + k
  <2>5. /\ Base(u, j) \in Nat /\ Base(u, j) % CACHE_SIZE = 0 /\ index[t] \in Nat
        /\ Target \in Starts /\ Target \in Nat /\ meta.size \in OpSizes
        /\ size_to_copy \in Nat /\ size_to_copy <= CACHE_SIZE
        /\ CACHE_SIZE \in Nat
    BY <1>1, MetaFields, BaseIsMultiple, KernelAssumption
  <2>6. w \in DOMAIN mram
    <3>1. w \in Granted(Target, meta.size)
      BY <1>1, <2>4, <2>5, ChunkInRegion
    <3> QED
      BY <1>1, <2>5, <3>1, RegionsAssumption
  <2>7. CASE u = t /\ j = own
    <3>1. w - Target - index[t] = k
      BY <2>2, <2>5, <2>7
    <3>2. mram'[w] = wram[ResultSlot(t)][k]
      BY <2>1, <2>6, <3>1
    <3>3. wram[ResultSlot(t)][k] = Result(index[t] + k)
      BY <2>1 DEF DataInvariant, Loaded, LoadedAt
    <3>4. Base(u, j) < index'[u]
      BY <2>3, <2>7, BaseOrder
    <3> QED
      BY <2>2, <2>7, <3>2, <3>3, <3>4
  <2>8. CASE u # t \/ j # own
    <3>1. \/ Base(u, j) + CACHE_SIZE <= index[t]
          \/ index[t] + CACHE_SIZE <= Base(u, j)
      BY <2>2, <2>8, BasesApart
    <3>2. w - Target - index[t] \notin 0 .. size_to_copy - 1
      BY <2>5, <3>1
    <3>3. mram'[w] = mram[w]
      BY <2>1, <2>6, <3>2
    <3>4. Base(u, j) < index'[u] <=> Base(u, j) < index[u]
      <4>1. CASE u # t
        BY <1>1, <2>1, <4>1
      <4>2. CASE u = t
        <5>1. Base(t, j) < Base(t, own + 1) <=> j < own + 1
          BY <2>3, BaseOrder
        <5>2. Base(t, j) < Base(t, own) <=> j < own
          BY BaseOrder
        <5> QED
          BY <2>2, <2>3, <2>8, <4>2, <5>1, <5>2
      <4> QED
        BY <4>1, <4>2
    <3>5. mram[w] = IF Base(u, j) < index[u] THEN Result(Base(u, j) + k) ELSE <<w>>
      BY <1>1, <2>4 DEF Chunks
    <3> QED
      BY <3>3, <3>4, <3>5
  <2> QED
    BY <2>7, <2>8
<1>4. CASE UNCHANGED <<mram, index>>
  BY <1>1, <1>2, <1>4 DEF Chunks, Base
<1> QED
  BY <1>3, <1>4 DEF Step, Reset, Pass, Alloc, ReadA, ReadB, Compute

LEMMA InitDataInvariant == Init => DataInvariant
<1> SUFFICES ASSUME Init PROVE DataInvariant
  OBVIOUS
<1>1. Invariant /\ OthersUntouched
  BY InitInvariant DEF Init, OthersUntouched
<1>2. meta \in Metas /\ TypeOK
  BY <1>1 DEF Invariant, TypeOK
<1>3. \A t \in Tasklets : index[t] = Base(t, 0)
  <2> TAKE t \in Tasklets
  <2>1. t \in Nat
    BY KernelAssumption DEF Tasklets
  <2> QED
    BY <2>1, KernelAssumption DEF Init, Base
<1>4. \A t \in Tasklets : pc[t] = "start" /\ buffers[t] = <<>>
  BY DEF Init
<1>5. IndexOwn /\ DoneAtEnd
  BY <1>3, <1>4 DEF IndexOwn, DoneAtEnd
<1>6. BufferCount
  <2>1. NrBuffers \in 1 .. 3
    BY DEF NrBuffers
  <2> QED
    BY <1>4, <2>1 DEF BufferCount
<1>7. HeapCovered
  <2>1. 0 \in Tasklets
    BY KernelAssumption DEF Tasklets
  <2> QED
    BY <1>4, <2>1 DEF HeapCovered
<1>8. Loaded
  BY <1>4 DEF Loaded, LoadedAt, Init
<1>9. Chunks
  <2> SUFFICES ASSUME NEW t \in Tasklets, NEW j \in Nat, NEW k \in 0 .. size_to_copy - 1,
                      Base(t, j) < meta.size
               PROVE  mram[Target + Base(t, j) + k] =
                          IF Base(t, j) < index[t] THEN Result(Base(t, j) + k)
                                                   ELSE <<Target + Base(t, j) + k>>
    BY DEF Chunks
  <2>1. ~(Base(t, j) < index[t])
    BY <1>3, BaseOrder
  <2>2. Base(t, j) \in Nat /\ Base(t, j) % CACHE_SIZE = 0
    BY BaseIsMultiple
  <2>3. Target + Base(t, j) + k \in Granted(Target, meta.size)
    BY <1>2, <2>2, MetaFields, ChunkInRegion
  <2>4. Target + Base(t, j) + k \in 0 .. MRAM_WORDS - 1
    BY <1>2, <2>3, MetaFields, RegionsAssumption
  <2> QED
    BY <2>1, <2>4 DEF Init
<1> QED
  BY <1>1, <1>5, <1>6, <1>7, <1>8, <1>9 DEF DataInvariant

LEMMA StepDataInvariant == DataInvariant /\ [Next]_vars => DataInvariant'
<1>1. ASSUME DataInvariant, NEW t \in Tasklets, Step(t) PROVE DataInvariant'
  <2>1. Invariant' /\ OthersUntouched'
    BY <1>1, StepInvariant, StepOthersUntouched DEF DataInvariant, Next
  <2>2. IndexOwn' /\ DoneAtEnd' /\ BufferCount' /\ HeapCovered'
    BY <1>1, StepIndexOwn, StepBufferCount, StepHeapCovered
  <2>3. Loaded' /\ Chunks'
    BY <1>1, StepLoaded, StepChunks
  <2> QED
    BY <2>1, <2>2, <2>3 DEF DataInvariant
<1>2. ASSUME DataInvariant, UNCHANGED vars PROVE DataInvariant'
  <2>1. Invariant'
    BY <1>2, StepInvariant DEF DataInvariant
  <2>2. /\ OthersUntouched' /\ IndexOwn' /\ DoneAtEnd' /\ BufferCount' /\ HeapCovered'
        /\ Loaded' /\ Chunks'
    <3>1. UNCHANGED <<meta, mram, wram, heap, pc, buffers, index>>
      BY <1>2 DEF vars
    <3>2. OthersUntouched' /\ IndexOwn' /\ DoneAtEnd' /\ HeapCovered'
      BY <1>2, <3>1 DEF DataInvariant, OthersUntouched, IndexOwn, DoneAtEnd, HeapCovered,
                        Base, Target, InPlace
    <3>3. BufferCount'
      BY <1>2, <3>1 DEF DataInvariant, BufferCount, NrBuffers, Binary, InPlace
    <3>4. Loaded'
      <4>1. \A u \in Tasklets : LoadedAt(u)'
        BY <1>2, <3>1, LoadedKept DEF DataInvariant, Loaded
      <4> QED
        BY <1>2, <3>1, <4>1 DEF DataInvariant, Loaded, Slots
    <3>5. Chunks'
      BY <1>2, <3>1 DEF DataInvariant, Chunks, Base, Result, Target, InPlace, Binary,
                        size_to_copy
    <3> QED
      BY <3>2, <3>3, <3>4, <3>5
  <2> QED
    BY <2>1, <2>2 DEF DataInvariant
<1> QED
  BY <1>1, <1>2 DEF Next

(***************************************************************************)
(* Every element of the operand is in one chunk of one tasklet.            *)
(***************************************************************************)
LEMMA ElementInChunk ==
    ASSUME meta \in Metas, NEW i \in 0 .. meta.size - 1
    PROVE  \E t \in Tasklets, j \in Nat, k \in 0 .. size_to_copy - 1 :
               i = Base(t, j) + k /\ Base(t, j) < meta.size
<1> DEFINE q == i \div CACHE_SIZE
           t == q % NR_TASKLETS
           j == q \div NR_TASKLETS
           k == i % CACHE_SIZE
<1>1. /\ CACHE_SIZE \in Nat \ {0} /\ NR_TASKLETS \in Nat \ {0} /\ i \in Nat
      /\ meta.size \in Nat /\ i < meta.size
      /\ size_to_copy \in Nat \ {0}
      /\ size_to_copy = CACHE_SIZE \/ (size_to_copy = meta.size /\ size_to_copy <= CACHE_SIZE)
  BY MetaFields, KernelAssumption
<1>2. q \in Nat /\ k \in 0 .. CACHE_SIZE - 1 /\ i = q * CACHE_SIZE + k
  BY <1>1
<1>3. k <= i
  <2>1. q * CACHE_SIZE \in Nat
    BY <1>1, <1>2
  <2> QED
    BY <1>1, <1>2, <2>1
<1>4. k \in 0 .. size_to_copy - 1
  BY <1>1, <1>2, <1>3
<1> HIDE DEF q, k
<1>5. t \in Tasklets /\ j \in Nat /\ q = t + NR_TASKLETS * j
  BY <1>1, <1>2 DEF Tasklets
<1>6. Base(t, j) = q * CACHE_SIZE
  BY <1>5 DEF Base
<1>7. i = Base(t, j) + k /\ Base(t, j) < meta.size
  <2>1. q * CACHE_SIZE \in Nat
    BY <1>1, <1>2
  <2> QED
    BY <1>1, <1>2, <1>6, <2>1
<1> QED
  BY <1>4, <1>5, <1>7

(***************************************************************************)
(* Whatever the number of tasklets and their interleaving, the size of the *)
(* operand and whether operands are the same object or the result goes to  *)
(* the first one, when all tasklets have returned every element of the     *)
(* result is the operation on the original elements (the kernels' loops).  *)
(***************************************************************************)
THEOREM ResultCorrectHolds == Spec => []ResultCorrect
<1>1. ASSUME DataInvariant PROVE ResultCorrect
  <2> SUFFICES ASSUME AllDone, NEW i \in 0 .. meta.size - 1
               PROVE  mram[Target + i] = Result(i)
    BY DEF ResultCorrect, Result
  <2>1. meta \in Metas /\ index \in [Tasklets -> Nat]
    BY <1>1 DEF DataInvariant, Invariant, TypeOK
  <2>2. PICK t \in Tasklets, j \in Nat, k \in 0 .. size_to_copy - 1 :
            i = Base(t, j) + k /\ Base(t, j) < meta.size
    BY <2>1, ElementInChunk
  <2>3. /\ meta.size \in Nat /\ Target \in Nat /\ index[t] \in Nat
        /\ Base(t, j) \in Nat /\ size_to_copy \in Nat
    BY <2>1, MetaFields, BaseIsMultiple
  <2>4. Base(t, j) < index[t]
    <3>1. index[t] >= meta.size
      BY <1>1 DEF AllDone, DataInvariant, DoneAtEnd
    <3> QED
      BY <2>2, <2>3, <3>1
  <2>5. mram[Target + Base(t, j) + k] = Result(Base(t, j) + k)
    BY <1>1, <2>2, <2>4 DEF DataInvariant, Chunks
  <2>6. Target + Base(t, j) + k = Target + i
    BY <2>2, <2>3
  <2> QED
    BY <2>2, <2>5, <2>6
<1> QED
  BY <1>1, InitDataInvariant, StepDataInvariant, PTL DEF Spec
=============================================================================
