-------------------------- MODULE PimManagerProofs --------------------------
(***************************************************************************)
(* Theorems about the banks (DpuMemory), the manager (PimManager) and the  *)
(* objects over it (PimData), for any number of DPUs, any bank and any     *)
(* requests.  The manager's Invariant is inductive because a loop that     *)
(* grants lends fresh blocks in every chunk it visits, a rollback restores *)
(* the chunks it visited, and a vector that is given back is recorded in   *)
(* all its chunks.                                                         *)
(***************************************************************************)
EXTENDS PimData, NaturalsInduction, WellFoundedInduction, TLAPS

-----------------------------------------------------------------------------
(***************************************************************************)
(* What the operators of DpuMemory return and preserve, for every bank     *)
(* size, block size and request.                                           *)
(***************************************************************************)
LessThan == {pair \in Nat \X Nat : pair[1] < pair[2]}

\* A non-empty set of naturals has a least element (so first fit is defined).
LEMMA LeastNatural ==
    ASSUME NEW S \in SUBSET Nat, S # {}
    PROVE  \E m \in S : \A t \in S : m <= t
<1>1. IsWellFoundedOn(LessThan, Nat)
  <2>1. LessThan = OpToRel(<, Nat)
    BY Zenon DEF OpToRel, LessThan
  <2> QED  BY <2>1, NatLessThanWellFounded, Zenon
<1>2. PICK m \in S : \A t \in S : <<t, m>> \notin LessThan
  BY <1>1, WFMin, Zenon
<1>3. \A a, b \in Nat : <<a, b>> \in LessThan <=> a < b
  BY DEF LessThan
<1>4. \A t \in S : ~(t < m)
  BY <1>2, <1>3, Zenon
<1> QED  BY <1>4

\* Block numbers and their addresses.
LEMMA BlockAddress ==
    ASSUME NEW b \in Blocks
    PROVE  /\ b * BLOCK_SIZE \in BlockAddrs
           /\ DIV(b * BLOCK_SIZE, BLOCK_SIZE) = b
           /\ b * BLOCK_SIZE # NO_ADDR
<1>1. b \in Nat /\ BLOCK_SIZE \in Nat \ {0} /\ TOTAL_BLOCKS \in Nat \ {0}
  BY DpuMemoryAssumption DEF Blocks
<1>2. (b * BLOCK_SIZE) \div BLOCK_SIZE = b
  BY <1>1
<1>3. b * BLOCK_SIZE \in Nat
  BY <1>1
<1> QED  BY <1>2, <1>3 DEF BlockAddrs, DIV, NO_ADDR

LEMMA AddressBlock ==
    ASSUME NEW a \in BlockAddrs
    PROVE  /\ DIV(a, BLOCK_SIZE) \in Blocks
           /\ a = DIV(a, BLOCK_SIZE) * BLOCK_SIZE
           /\ a \in Nat
<1>1. PICK b \in Blocks : a = b * BLOCK_SIZE
  BY DEF BlockAddrs
<1>2. DIV(a, BLOCK_SIZE) = b
  BY <1>1, BlockAddress
<1>3. a \in Nat
  BY <1>1, DpuMemoryAssumption DEF Blocks
<1> QED  BY <1>1, <1>2, <1>3

\* A request that fits a bank takes between one and TOTAL_BLOCKS blocks.
LEMMA BlocksNeeded ==
    ASSUME NEW size \in Nat
    PROVE  /\ DIVROUNDUP(size, BLOCK_SIZE) \in Nat
           /\ size <= CHUNK_SIZE => DIVROUNDUP(size, BLOCK_SIZE) <= TOTAL_BLOCKS
BY DpuMemoryAssumption DEF DIVROUNDUP, CHUNK_SIZE

\* find_free_blocks answers -1, or the lowest start of a free run.
LEMMA FirstFit ==
    ASSUME NEW free, NEW n \in Nat
    PROVE  LET s == find_free_blocks(free, n)
           IN  \/ s = NO_ADDR /\ FreeRuns(free, n) = {}
               \/ s \in FreeRuns(free, n) /\ \A t \in FreeRuns(free, n) : s <= t
<1>1. FreeRuns(free, n) \in SUBSET Nat
  BY DpuMemoryAssumption DEF FreeRuns, Blocks
<1>2. CASE FreeRuns(free, n) = {}
  BY <1>2 DEF find_free_blocks
<1>3. CASE FreeRuns(free, n) # {}
  <2>1. \E s \in FreeRuns(free, n) : \A t \in FreeRuns(free, n) : s <= t
    BY <1>1, <1>3, LeastNatural
  <2> QED  BY <2>1, <1>3 DEF find_free_blocks
<1> QED  BY <1>2, <1>3

\* The fields of a bank.
LEMMA ChunkFields ==
    ASSUME NEW c \in Chunk
    PROVE  /\ c = [free |-> c.free, allocations |-> c.allocations]
           /\ c.free \in [Blocks -> BOOLEAN]
           /\ DOMAIN c.allocations \subseteq BlockAddrs
           /\ c.allocations \in [DOMAIN c.allocations -> 1 .. TOTAL_BLOCKS]
BY DEF Chunk

LEMMA MakeChunk ==
    ASSUME NEW f \in [Blocks -> BOOLEAN], NEW as \in SUBSET BlockAddrs,
           NEW g \in [as -> 1 .. TOTAL_BLOCKS]
    PROVE  [free |-> f, allocations |-> g] \in Chunk
BY DEF Chunk

\* A new bank is consistent.
LEMMA NewChunkOK == NewChunk \in Chunk /\ ChunkOK(NewChunk)
<1>1. NewChunk \in Chunk
  <2>1. NewChunk.allocations \in [{} -> 1 .. TOTAL_BLOCKS]
    BY DEF NewChunk
  <2> QED  BY <2>1, MakeChunk DEF NewChunk
<1>2. ChunkOK(NewChunk)
  BY DEF NewChunk, ChunkOK, RunsInRange, RunsDisjoint, BitmapMatches
<1> QED  BY <1>1, <1>2

-----------------------------------------------------------------------------
\* An address that allocate grants starts a run of free blocks.
LEMMA GrantedRun ==
    ASSUME NEW c \in Chunk, NEW size \in Nat,
           allocate_addr(c, size) # NO_ADDR
    PROVE  LET addr  == allocate_addr(c, size)
               n     == DIVROUNDUP(size, BLOCK_SIZE)
               start == DIV(addr, BLOCK_SIZE)
           IN  /\ size <= CHUNK_SIZE
               /\ addr \in BlockAddrs
               /\ n \in 1 .. TOTAL_BLOCKS
               /\ start \in FreeRuns(c.free, n)
               /\ Run(start, n) \subseteq Blocks
               /\ Run(start, n) # {}
<1> DEFINE n == DIVROUNDUP(size, BLOCK_SIZE)
           s == find_free_blocks(c.free, n)
<1>1. size <= CHUNK_SIZE /\ s # NO_ADDR /\ allocate_addr(c, size) = s * BLOCK_SIZE
  <2>1. size <= CHUNK_SIZE \/ size > CHUNK_SIZE
    BY DpuMemoryAssumption DEF CHUNK_SIZE
  <2> QED  BY <2>1 DEF allocate_addr
<1>2. n \in Nat /\ n <= TOTAL_BLOCKS
  BY <1>1, BlocksNeeded
<1>3. s \in FreeRuns(c.free, n)
  BY <1>1, <1>2, FirstFit
<1>4. s \in Blocks /\ n > 0 /\ s + n <= TOTAL_BLOCKS
  BY <1>3 DEF FreeRuns
<1>5. s * BLOCK_SIZE \in BlockAddrs /\ DIV(s * BLOCK_SIZE, BLOCK_SIZE) = s
  BY <1>4, BlockAddress
<1>6. Run(s, n) \subseteq Blocks /\ Run(s, n) # {} /\ n \in 1 .. TOTAL_BLOCKS
  BY <1>2, <1>4, DpuMemoryAssumption DEF Run, Blocks
<1> HIDE DEF n, s
<1>7. QED  BY <1>1, <1>3, <1>5, <1>6 DEF n

\* d is c with one more allocation, at addr, made of blocks that c had free.
Lends(c, d, addr) ==
    /\ d \in Chunk
    /\ ChunkOK(d)
    /\ addr \in BlockAddrs
    /\ addr \notin DOMAIN c.allocations
    /\ DOMAIN d.allocations = DOMAIN c.allocations \cup {addr}
    /\ \A a \in DOMAIN c.allocations : d.allocations[a] = c.allocations[a]
    /\ BlocksOf(d, addr) # {}
    /\ BlocksOf(d, addr) \subseteq {b \in Blocks : c.free[b]}
    /\ d.free = [b \in Blocks |-> IF b \in BlocksOf(d, addr) THEN FALSE ELSE c.free[b]]

\* d is c without the allocation at addr, whose blocks are free again.
TakesBack(c, d, addr) ==
    /\ d \in Chunk
    /\ ChunkOK(d)
    /\ DOMAIN d.allocations = DOMAIN c.allocations \ {addr}
    /\ \A a \in DOMAIN d.allocations : d.allocations[a] = c.allocations[a]
    /\ d.free = [b \in Blocks |-> IF b \in BlocksOf(c, addr) THEN TRUE ELSE c.free[b]]

\* An allocation that a consistent bank grants is new and takes free blocks only.
LEMMA AllocateLends ==
    ASSUME NEW c \in Chunk, ChunkOK(c), NEW size \in Nat,
           NEW addr, addr = allocate_addr(c, size), addr # NO_ADDR
    PROVE  Lends(c, allocate(c, size), addr)
<1> DEFINE n == DIVROUNDUP(size, BLOCK_SIZE)
           start == DIV(addr, BLOCK_SIZE)
           d == allocate(c, size)
           f == mark_blocks(c.free, start, n, FALSE)
           g == [a \in DOMAIN c.allocations \cup {addr} |->
                    IF a = addr THEN n ELSE c.allocations[a]]
<1>1. /\ addr \in BlockAddrs
      /\ n \in 1 .. TOTAL_BLOCKS
      /\ start \in FreeRuns(c.free, n)
      /\ Run(start, n) \subseteq Blocks
      /\ Run(start, n) # {}
  BY GrantedRun
<1>2. d = [free |-> f, allocations |-> g]
  BY DEF allocate, allocate_at
<1>3. \A b \in Run(start, n) : c.free[b]
  BY <1>1 DEF FreeRuns
<1>4. start \in Run(start, n)
  BY <1>1 DEF Run, FreeRuns, Blocks
<1>5. addr \notin DOMAIN c.allocations
  <2>1. SUFFICES ASSUME addr \in DOMAIN c.allocations PROVE FALSE
    OBVIOUS
  <2>2. start \in BlocksOf(c, addr)
    <3>1. c.allocations[addr] \in 1 .. TOTAL_BLOCKS
      BY <2>1, ChunkFields
    <3>2. start \in Int
      BY <1>1 DEF FreeRuns, Blocks
    <3> QED  BY <3>1, <3>2, DpuMemoryAssumption DEF BlocksOf, Run
  <2>3. ~c.free[start]
    BY <1>1, <1>4, <2>1, <2>2 DEF ChunkOK, BitmapMatches
  <2> QED  BY <1>3, <1>4, <2>3
<1>6. d \in Chunk
  <2>1. f \in [Blocks -> BOOLEAN]
    BY ChunkFields DEF mark_blocks
  <2>2. g \in [DOMAIN c.allocations \cup {addr} -> 1 .. TOTAL_BLOCKS]
    BY <1>1, ChunkFields
  <2>3. DOMAIN c.allocations \cup {addr} \in SUBSET BlockAddrs
    BY <1>1, ChunkFields
  <2> HIDE DEF d, f, g
  <2> QED  BY <1>2, <2>1, <2>2, <2>3, MakeChunk
<1>7. d.free = f /\ d.allocations = g
  BY <1>2
<1>8. DOMAIN d.allocations = DOMAIN c.allocations \cup {addr}
  BY <1>7
<1>9. \A a \in DOMAIN c.allocations : BlocksOf(d, a) = BlocksOf(c, a)
  BY <1>5, <1>7 DEF BlocksOf
<1>10. BlocksOf(d, addr) = Run(start, n)
  BY <1>7 DEF BlocksOf
<1>11. d.free = [b \in Blocks |-> IF b \in BlocksOf(d, addr) THEN FALSE ELSE c.free[b]]
  BY <1>7, <1>10 DEF mark_blocks
<1>12. ChunkOK(d)
  <2> HIDE DEF d, start, n, f, g
  <2>1. RunsInRange(d)
    BY <1>1, <1>8, <1>9, <1>10 DEF ChunkOK, RunsInRange
  <2>2. \A a \in DOMAIN c.allocations : BlocksOf(c, a) \cap Run(start, n) = {}
    BY <1>1, <1>3 DEF ChunkOK, BitmapMatches
  <2>3. RunsDisjoint(d)
    BY <1>8, <1>9, <1>10, <2>2 DEF ChunkOK, RunsDisjoint
  <2>4. BitmapMatches(d)
    BY <1>8, <1>9, <1>11 DEF ChunkOK, BitmapMatches
  <2> QED  BY <2>1, <2>3, <2>4 DEF ChunkOK
<1>13. \A a \in DOMAIN c.allocations : d.allocations[a] = c.allocations[a]
  BY <1>5, <1>7
<1>14. Run(start, n) \subseteq {b \in Blocks : c.free[b]}
  BY <1>1, <1>3
<1> HIDE DEF n, start, f, g, d
<1>15. Lends(c, d, addr)
  BY <1>1, <1>5, <1>6, <1>8, <1>10, <1>11, <1>12, <1>13, <1>14 DEF Lends
<1> QED  BY <1>15 DEF d

\* Giving back a recorded address frees its blocks and no others.
LEMMA DeallocateTakesBack ==
    ASSUME NEW c \in Chunk, ChunkOK(c), NEW addr \in DOMAIN c.allocations
    PROVE  TakesBack(c, deallocate(c, addr), addr)
<1> DEFINE d == deallocate(c, addr)
           f == mark_blocks(c.free, DIV(addr, BLOCK_SIZE), c.allocations[addr], TRUE)
           g == [a \in DOMAIN c.allocations \ {addr} |-> c.allocations[a]]
<1>1. d.free = f /\ d.allocations = g /\ d = [free |-> f, allocations |-> g]
  BY DEF deallocate
<1>2. d \in Chunk
  <2>1. f \in [Blocks -> BOOLEAN]
    BY ChunkFields DEF mark_blocks
  <2>2. g \in [DOMAIN c.allocations \ {addr} -> 1 .. TOTAL_BLOCKS]
    BY ChunkFields
  <2>3. DOMAIN c.allocations \ {addr} \in SUBSET BlockAddrs
    BY ChunkFields
  <2> HIDE DEF d, f, g
  <2> QED  BY <1>1, <2>1, <2>2, <2>3, MakeChunk
<1>3. DOMAIN d.allocations = DOMAIN c.allocations \ {addr}
  BY <1>1
<1>4. \A a \in DOMAIN d.allocations : BlocksOf(d, a) = BlocksOf(c, a)
  BY <1>1 DEF BlocksOf
<1>5. d.free = [b \in Blocks |-> IF b \in BlocksOf(c, addr) THEN TRUE ELSE c.free[b]]
  BY <1>1 DEF mark_blocks, BlocksOf
<1>6. ChunkOK(d)
  <2> HIDE DEF d, f, g
  <2>1. RunsInRange(d) /\ RunsDisjoint(d)
    BY <1>3, <1>4 DEF ChunkOK, RunsInRange, RunsDisjoint
  <2>2. BitmapMatches(d)
    <3>1. \A b \in Blocks : ~d.free[b] <=> b \notin BlocksOf(c, addr) /\ ~c.free[b]
      BY <1>5
    <3>2. \A a \in DOMAIN d.allocations : BlocksOf(c, a) \cap BlocksOf(c, addr) = {}
      BY <1>3 DEF ChunkOK, RunsDisjoint
    <3>3. ASSUME NEW b \in Blocks
          PROVE  ~d.free[b] <=> \E a \in DOMAIN d.allocations : b \in BlocksOf(d, a)
      BY <1>3, <1>4, <3>1, <3>2 DEF ChunkOK, BitmapMatches
    <3> QED  BY <3>3 DEF BitmapMatches
  <2> QED  BY <2>1, <2>2 DEF ChunkOK
<1>7. \A a \in DOMAIN d.allocations : d.allocations[a] = c.allocations[a]
  BY <1>1
<1> HIDE DEF f, g, d
<1>8. TakesBack(c, d, addr)
  BY <1>2, <1>3, <1>5, <1>6, <1>7 DEF TakesBack
<1> QED  BY <1>8 DEF d

\* Giving back at once what was just granted restores the bank.
LEMMA DeallocateUndoesAllocate ==
    ASSUME NEW c \in Chunk, ChunkOK(c), NEW size \in Nat,
           NEW addr, addr = allocate_addr(c, size), addr # NO_ADDR
    PROVE  deallocate(allocate(c, size), addr) = c
<1> DEFINE d == allocate(c, size)
           e == deallocate(d, addr)
<1>1. Lends(c, d, addr)
  BY AllocateLends
<1>2. TakesBack(d, e, addr)
  BY <1>1, DeallocateTakesBack DEF Lends
<1>3. /\ c.free \in [Blocks -> BOOLEAN]
      /\ c.allocations = [a \in DOMAIN c.allocations |-> c.allocations[a]]
      /\ c = [free |-> c.free, allocations |-> c.allocations]
  BY ChunkFields
<1>4. /\ e.allocations = [a \in DOMAIN e.allocations |-> e.allocations[a]]
      /\ e = [free |-> e.free, allocations |-> e.allocations]
  BY <1>2, ChunkFields DEF TakesBack
<1> HIDE DEF d, e
<1>5. e.free = c.free
  <2>1. e.free \in [Blocks -> BOOLEAN]
    BY <1>2, ChunkFields DEF TakesBack
  <2>2. ASSUME NEW b \in Blocks
        PROVE  e.free[b] = c.free[b]
    <3>1. CASE b \in BlocksOf(d, addr)
      <4>1. e.free[b]
        BY <1>2, <3>1, Zenon DEF TakesBack
      <4>2. c.free[b]
        BY <1>1, <3>1, Zenon DEF Lends
      <4>3. e.free[b] \in BOOLEAN /\ c.free[b] \in BOOLEAN
        BY <1>3, <2>1
      <4> QED  BY <4>1, <4>2, <4>3, Zenon
    <3>2. CASE b \notin BlocksOf(d, addr)
      BY <1>1, <1>2, <3>2 DEF Lends, TakesBack
    <3> QED  BY <3>1, <3>2
  <2> QED  BY <1>3, <2>1, <2>2
<1>6. /\ DOMAIN e.allocations = DOMAIN c.allocations
      /\ \A a \in DOMAIN c.allocations : e.allocations[a] = c.allocations[a]
  BY <1>1, <1>2 DEF Lends, TakesBack
<1>7. e.allocations = c.allocations
  BY <1>3, <1>4, <1>6
<1>8. e = c
  BY <1>3, <1>4, <1>5, <1>7
<1> QED  BY <1>8 DEF d, e
-----------------------------------------------------------------------------
(***************************************************************************)
(* The manager.                                                            *)
(***************************************************************************)
Invariant == TypeOK /\ BookkeepingOK /\ HeldRecorded

LEMMA VectorFields ==
    ASSUME NEW v \in Vectors
    PROVE  /\ \E k \in 0 .. NrDpus : v \in [0 .. k - 1 -> BlockAddrs]
           /\ DOMAIN v \subseteq Chunks
           /\ v \in [DOMAIN v -> BlockAddrs]
           /\ v # EmptyVector => 0 \in DOMAIN v
<1>1. PICK k \in 0 .. NrDpus : v \in [0 .. k - 1 -> BlockAddrs]
  BY DEF Vectors
<1>2. DOMAIN v = 0 .. k - 1
  BY <1>1
<1>3. DOMAIN v \subseteq Chunks
  BY <1>2, PimManagerAssumption DEF Chunks
<1>4. ASSUME v # EmptyVector PROVE 0 \in DOMAIN v
  <2>1. CASE k = 0
    <3>1. DOMAIN v = {}
      BY <1>2, <2>1
    <3>2. v = EmptyVector
      BY <1>1, <1>2, <3>1 DEF EmptyVector
    <3> QED  BY <1>4, <3>2
  <2>2. CASE k # 0
    BY <1>2, <2>2
  <2> QED  BY <2>1, <2>2
<1> QED  BY <1>1, <1>2, <1>3, <1>4

\* The loop of allocate visits between one chunk and all of them.
LEMMA LoopBounds ==
    ASSUME NEW size \in Sizes
    PROVE  /\ size_per_chunk(size) \in Nat
           /\ Wanted(size) \in 1 .. NrDpus
<1>1. size \in Nat /\ NrDpus \in Nat \ {0}
  BY PimManagerAssumption
<1>2. size_per_chunk(size) \in Nat
  BY <1>1 DEF size_per_chunk, DIVROUNDUP
<1>3. CASE StopsAfter(size) = {}
  BY <1>1, <1>2, <1>3 DEF Wanted
<1>4. CASE StopsAfter(size) # {}
  <2>1. StopsAfter(size) \in SUBSET Nat
    BY <1>1 DEF StopsAfter
  <2>2. \E k \in StopsAfter(size) : \A l \in StopsAfter(size) : k <= l
    BY <1>4, <2>1, LeastNatural
  <2>3. Wanted(size) \in StopsAfter(size)
    BY <1>4, <2>2 DEF Wanted
  <2> QED  BY <1>2, <2>3 DEF StopsAfter
<1> QED  BY <1>2, <1>3, <1>4

\* The chunks before the first one that refuses have granted their share.
LEMMA FirstRefusal ==
    ASSUME NEW size \in Sizes, Refusing(size) # {}
    PROVE  /\ FirstRefusing(size) \in 0 .. NrDpus
           /\ \A i \in 0 .. FirstRefusing(size) - 1 :
                  allocate_addr(chunks[i], size_per_chunk(size)) # NO_ADDR
<1>1. NrDpus \in Nat /\ Wanted(size) \in 1 .. NrDpus
  BY LoopBounds, PimManagerAssumption
<1>2. Refusing(size) \in SUBSET Nat
  BY <1>1 DEF Refusing
<1>3. \E i \in Refusing(size) : \A j \in Refusing(size) : i <= j
  BY <1>2, LeastNatural
<1>4. /\ FirstRefusing(size) \in Refusing(size)
      /\ \A j \in Refusing(size) : FirstRefusing(size) <= j
  BY <1>3 DEF FirstRefusing
<1>5. FirstRefusing(size) \in 0 .. Wanted(size) - 1
  BY <1>4 DEF Refusing
<1>6. \A i \in 0 .. FirstRefusing(size) - 1 : i \notin Refusing(size)
  BY <1>4, <1>5, <1>1
<1> QED  BY <1>1, <1>5, <1>6 DEF Refusing
-----------------------------------------------------------------------------
LEMMA TypeFacts ==
    ASSUME TypeOK
    PROVE  /\ chunks = [i \in Chunks |-> chunks[i]]
           /\ \A i \in Chunks : chunks[i] \in Chunk
           /\ DOMAIN allocations \subseteq BlockAddrs
           /\ allocations \in [DOMAIN allocations -> Vectors]
           /\ \A v \in held : v \in Vectors /\ v # EmptyVector /\ 0 \in DOMAIN v
BY VectorFields DEF TypeOK

\* The vector that the loop builds from the first k chunks.
LEMMA GrantedFields ==
    ASSUME TypeOK, BookkeepingOK, NEW size \in Sizes, NEW k \in 0 .. NrDpus,
           \A i \in 0 .. k - 1 : allocate_addr(chunks[i], size_per_chunk(size)) # NO_ADDR
    PROVE  LET v == Granted(size, k)
           IN  /\ v \in Vectors
               /\ DOMAIN v = 0 .. k - 1
               /\ DOMAIN v \subseteq Chunks
               /\ \A i \in DOMAIN v :
                     /\ v[i] = allocate_addr(chunks[i], size_per_chunk(size))
                     /\ Lends(chunks[i], allocate_chunks(size, k)[i], v[i])
               /\ \A i \in Chunks \ DOMAIN v : allocate_chunks(size, k)[i] = chunks[i]
<1> DEFINE v == Granted(size, k)
           spc == size_per_chunk(size)
<1>1. DOMAIN v = 0 .. k - 1
  BY DEF Granted
<1>2. 0 .. k - 1 \subseteq Chunks
  BY PimManagerAssumption DEF Chunks
<1>3. ASSUME NEW i \in 0 .. k - 1
      PROVE  /\ v[i] = allocate_addr(chunks[i], spc)
             /\ Lends(chunks[i], allocate_chunks(size, k)[i], v[i])
  <2>1. v[i] = allocate_addr(chunks[i], spc)
    BY DEF Granted
  <2>2. allocate_chunks(size, k)[i] = allocate(chunks[i], spc)
    BY <1>2 DEF allocate_chunks
  <2>3. chunks[i] \in Chunk /\ ChunkOK(chunks[i]) /\ spc \in Nat
    BY <1>2, TypeFacts, LoopBounds DEF BookkeepingOK
  <2>4. Lends(chunks[i], allocate(chunks[i], spc), v[i])
    BY <2>1, <2>3, AllocateLends
  <2> QED  BY <2>1, <2>2, <2>4
<1>4. v \in [0 .. k - 1 -> BlockAddrs]
  <2>1. v = [i \in 0 .. k - 1 |-> v[i]]
    BY DEF Granted
  <2> HIDE DEF v
  <2> QED  BY <1>3, <2>1 DEF Lends
<1>5. \A i \in Chunks \ DOMAIN v : allocate_chunks(size, k)[i] = chunks[i]
  BY <1>1, PimManagerAssumption DEF allocate_chunks, Chunks
<1>6. v \in Vectors
  BY <1>4 DEF Vectors
<1> HIDE DEF v
<1>7. QED  BY <1>1, <1>2, <1>3, <1>5, <1>6 DEF v

\* Both failure paths of allocate leave the banks and the table unchanged.
LEMMA RollbackRestores ==
    ASSUME Invariant, NEW size \in Sizes, NEW k \in 0 .. NrDpus,
           \A i \in 0 .. k - 1 : allocate_addr(chunks[i], size_per_chunk(size)) # NO_ADDR,
           Rollback(size, k)
    PROVE  chunks' = chunks /\ allocations' = allocations
<1> DEFINE v == Granted(size, k)
           spc == size_per_chunk(size)
<1>0. TypeOK /\ BookkeepingOK /\ HeldRecorded
  BY DEF Invariant
<1>1. /\ v \in Vectors
      /\ DOMAIN v = 0 .. k - 1
      /\ DOMAIN v \subseteq Chunks
      /\ \A i \in DOMAIN v :
            /\ v[i] = allocate_addr(chunks[i], spc)
            /\ Lends(chunks[i], allocate_chunks(size, k)[i], v[i])
      /\ \A i \in Chunks \ DOMAIN v : allocate_chunks(size, k)[i] = chunks[i]
  BY <1>0, GrantedFields
<1>2. ASSUME NEW i \in Chunks PROVE chunks'[i] = chunks[i]
  <2>1. CASE i \in DOMAIN v
    <3>1. /\ allocate_chunks(size, k)[i] = allocate(chunks[i], spc)
          /\ chunks'[i] = deallocate(allocate_chunks(size, k)[i], v[i])
      BY <1>1, <2>1 DEF Rollback, allocate_chunks, deallocate_chunks, Chunks
    <3>2. chunks[i] \in Chunk /\ ChunkOK(chunks[i]) /\ spc \in Nat
      BY <1>0, TypeFacts, LoopBounds DEF BookkeepingOK
    <3>3. v[i] = allocate_addr(chunks[i], spc) /\ v[i] # NO_ADDR
      BY <1>1, <2>1
    <3>4. deallocate(allocate(chunks[i], spc), v[i]) = chunks[i]
      BY <3>2, <3>3, DeallocateUndoesAllocate
    <3> QED  BY <3>1, <3>4
  <2>2. CASE i \notin DOMAIN v
    BY <1>1, <2>2 DEF Rollback, deallocate_chunks
  <2> QED  BY <2>1, <2>2
<1>3. chunks' = chunks
  <2>1. chunks' = [i \in Chunks |-> chunks'[i]]
    BY DEF Rollback, deallocate_chunks
  <2> QED  BY <1>0, <1>2, <2>1, TypeFacts
<1>4. allocations' = Forget(v)
  BY DEF Rollback
<1>5. allocations = [a \in DOMAIN allocations |-> allocations[a]]
  BY <1>0, TypeFacts
<1>6. CASE v = EmptyVector
  BY <1>3, <1>4, <1>5, <1>6 DEF Forget
<1>7. CASE v # EmptyVector
  <2>1. 0 \in DOMAIN v /\ 0 \in Chunks
    BY <1>1, <1>7, VectorFields
  <2>2. v[0] \notin DOMAIN chunks[0].allocations
    BY <1>1, <2>1 DEF Lends
  <2>3. \A a \in DOMAIN allocations : a \in DOMAIN chunks[0].allocations
    BY <1>0, TypeFacts DEF HeldRecorded
  <2>4. DOMAIN allocations \ {v[0]} = DOMAIN allocations
    BY <2>2, <2>3
  <2> HIDE DEF v
  <2> QED  BY <1>3, <1>4, <1>5, <1>7, <2>4 DEF Forget
<1> QED  BY <1>6, <1>7

-----------------------------------------------------------------------------
\* A successful allocate lends one new run in each chunk of a new vector.
LEMMA AllocateEffect ==
    ASSUME Invariant, NEW size \in Sizes, AllocateOK(size)
    PROVE  LET v == Granted(size, Wanted(size))
           IN  /\ v \in Vectors /\ v # EmptyVector /\ 0 \in DOMAIN v
               /\ DOMAIN v \subseteq Chunks
               /\ \A i \in DOMAIN v : Lends(chunks[i], chunks'[i], v[i])
               /\ \A i \in Chunks \ DOMAIN v : chunks'[i] = chunks[i]
               /\ chunks' = [i \in Chunks |-> chunks'[i]]
               /\ \A w \in held : \A i \in DOMAIN v \cap DOMAIN w : v[i] # w[i]
               /\ v \notin held
               /\ held' = held \cup {v}
               /\ allocations' = [a \in DOMAIN allocations \cup {v[0]} |->
                                    IF a = v[0] THEN v ELSE allocations[a]]
<1> DEFINE k == Wanted(size)
           v == Granted(size, k)
<1>1. TypeOK /\ BookkeepingOK /\ HeldRecorded
  BY DEF Invariant
<1>2. k \in 1 .. NrDpus /\ k \in 0 .. NrDpus /\ k \in Nat
  BY LoopBounds, PimManagerAssumption
<1>3. \A i \in 0 .. k - 1 : allocate_addr(chunks[i], size_per_chunk(size)) # NO_ADDR
  BY DEF AllocateOK, Refusing
<1>4. chunks' = allocate_chunks(size, k)
  BY DEF AllocateOK
<1>5. /\ v \in Vectors
      /\ DOMAIN v = 0 .. k - 1
      /\ DOMAIN v \subseteq Chunks
      /\ \A i \in DOMAIN v : Lends(chunks[i], chunks'[i], v[i])
      /\ \A i \in Chunks \ DOMAIN v : chunks'[i] = chunks[i]
  <2> HIDE DEF k
  <2> QED  BY <1>1, <1>2, <1>3, <1>4, GrantedFields
<1>6. 0 \in DOMAIN v /\ v # EmptyVector
  BY <1>2, <1>5 DEF EmptyVector
<1>7. chunks' = [i \in Chunks |-> chunks'[i]]
  BY <1>4 DEF allocate_chunks
<1>8. \A w \in held : \A i \in DOMAIN v \cap DOMAIN w : v[i] # w[i]
  BY <1>1, <1>5 DEF HeldRecorded, Lends
<1>9. v \notin held
  BY <1>6, <1>8
<1>10. held' = held \cup {v} /\ allocations' = [a \in DOMAIN allocations \cup {v[0]} |->
                                    IF a = v[0] THEN v ELSE allocations[a]]
  BY DEF AllocateOK
<1> HIDE DEF v
<1> QED  BY <1>5, <1>6, <1>7, <1>8, <1>9, <1>10 DEF v

\* deallocate takes back the run of each chunk of a held vector.
LEMMA DeallocateEffect ==
    ASSUME Invariant, NEW v \in held, Deallocate(v)
    PROVE  /\ v \in Vectors /\ v # EmptyVector /\ 0 \in DOMAIN v
           /\ DOMAIN v \subseteq Chunks
           /\ \A i \in DOMAIN v : TakesBack(chunks[i], chunks'[i], v[i])
           /\ \A i \in Chunks \ DOMAIN v : chunks'[i] = chunks[i]
           /\ chunks' = [i \in Chunks |-> chunks'[i]]
           /\ held' = held \ {v}
           /\ allocations' = [a \in DOMAIN allocations \ {v[0]} |-> allocations[a]]
<1>1. TypeOK /\ BookkeepingOK /\ HeldRecorded
  BY DEF Invariant
<1>2. v \in Vectors /\ v # EmptyVector /\ 0 \in DOMAIN v /\ DOMAIN v \subseteq Chunks
  BY <1>1, TypeFacts, VectorFields
<1>3. ASSUME NEW i \in DOMAIN v PROVE TakesBack(chunks[i], chunks'[i], v[i])
  <2>1. chunks'[i] = deallocate(chunks[i], v[i])
    BY <1>2 DEF Deallocate, Return, deallocate_chunks
  <2>2. chunks[i] \in Chunk /\ ChunkOK(chunks[i]) /\ v[i] \in DOMAIN chunks[i].allocations
    BY <1>1, <1>2, TypeFacts DEF BookkeepingOK, HeldRecorded
  <2> QED  BY <2>1, <2>2, DeallocateTakesBack
<1>4. \A i \in Chunks \ DOMAIN v : chunks'[i] = chunks[i]
  BY DEF Deallocate, Return, deallocate_chunks
<1>5. chunks' = [i \in Chunks |-> chunks'[i]]
  BY DEF Deallocate, Return, deallocate_chunks
<1>6. held' = held \ {v} /\ allocations' = [a \in DOMAIN allocations \ {v[0]} |-> allocations[a]]
  BY <1>2 DEF Deallocate, Return, Forget
<1> QED  BY <1>2, <1>3, <1>4, <1>5, <1>6
-----------------------------------------------------------------------------
LEMMA InitInvariant == Init => Invariant
<1> SUFFICES ASSUME Init PROVE Invariant
  OBVIOUS
<1>1. TypeOK
  <2>1. chunks \in [Chunks -> Chunk]
    BY NewChunkOK DEF Init
  <2>2. {} \in SUBSET BlockAddrs /\ allocations \in [{} -> Vectors]
    BY DEF Init
  <2> QED  BY <2>1, <2>2 DEF Init, TypeOK
<1>2. BookkeepingOK
  BY NewChunkOK DEF Init, BookkeepingOK
<1>3. HeldRecorded
  BY DEF Init, HeldRecorded, NewChunk
<1> QED  BY <1>1, <1>2, <1>3 DEF Invariant

LEMMA AllocateOKInvariant ==
    ASSUME Invariant, NEW size \in Sizes, AllocateOK(size)
    PROVE  Invariant'
<1>1. TypeOK /\ BookkeepingOK /\ HeldRecorded
  BY DEF Invariant
<1>2. PICK v : /\ v \in Vectors /\ v # EmptyVector /\ 0 \in DOMAIN v
               /\ DOMAIN v \subseteq Chunks
               /\ \A i \in DOMAIN v : Lends(chunks[i], chunks'[i], v[i])
               /\ \A i \in Chunks \ DOMAIN v : chunks'[i] = chunks[i]
               /\ chunks' = [i \in Chunks |-> chunks'[i]]
               /\ \A w \in held : \A i \in DOMAIN v \cap DOMAIN w : v[i] # w[i]
               /\ v \notin held
               /\ held' = held \cup {v}
               /\ allocations' = [a \in DOMAIN allocations \cup {v[0]} |->
                                    IF a = v[0] THEN v ELSE allocations[a]]
  BY AllocateEffect
<1>3. \A i \in Chunks : chunks'[i] \in Chunk /\ ChunkOK(chunks'[i])
  BY <1>1, <1>2, TypeFacts DEF BookkeepingOK, Lends
<1>4. TypeOK'
  <2>1. chunks' \in [Chunks -> Chunk]
    BY <1>2, <1>3
  <2>2. v[0] \in BlockAddrs
    BY <1>2 DEF Lends
  <2>3. DOMAIN allocations \cup {v[0]} \in SUBSET BlockAddrs
    BY <1>1, <2>2, TypeFacts
  <2>4. allocations' \in [DOMAIN allocations \cup {v[0]} -> Vectors]
    BY <1>1, <1>2, TypeFacts
  <2>5. held' \subseteq Vectors \ {EmptyVector}
    BY <1>1, <1>2 DEF TypeOK
  <2> QED  BY <2>1, <2>3, <2>4, <2>5 DEF TypeOK
<1>5. BookkeepingOK'
  BY <1>3 DEF BookkeepingOK
<1>6. HeldRecorded'
  <2>1. \A i \in Chunks : DOMAIN chunks[i].allocations \subseteq DOMAIN chunks'[i].allocations
    BY <1>2 DEF Lends
  <2>2. \A w \in held : DOMAIN w \subseteq Chunks /\ 0 \in DOMAIN w
    BY <1>1, TypeFacts, VectorFields
  <2>3. ASSUME NEW w \in held', NEW i \in DOMAIN w
        PROVE  w[i] \in DOMAIN chunks'[i].allocations
    <3>1. CASE w \in held
      BY <1>1, <2>1, <2>2, <3>1 DEF HeldRecorded
    <3>2. CASE w = v
      <4>1. Lends(chunks[i], chunks'[i], v[i])
        BY <1>2, <3>2
      <4> QED  BY <3>2, <4>1 DEF Lends
    <3> QED  BY <1>2, <3>1, <3>2
  <2>4. \A w, x \in held' : w # x => \A i \in DOMAIN w \cap DOMAIN x : w[i] # x[i]
    BY <1>1, <1>2 DEF HeldRecorded
  <2>5. ASSUME NEW i \in Chunks, NEW a \in DOMAIN chunks'[i].allocations
        PROVE  \E w \in held' : i \in DOMAIN w /\ w[i] = a
    <3>1. CASE a \in DOMAIN chunks[i].allocations
      BY <1>1, <1>2, <3>1 DEF HeldRecorded
    <3>2. CASE a \notin DOMAIN chunks[i].allocations
      <4>1. i \in DOMAIN v
        BY <1>2, <3>2
      <4>2. Lends(chunks[i], chunks'[i], v[i])
        BY <1>2, <4>1
      <4>3. a = v[i]
        BY <3>2, <4>2 DEF Lends
      <4> QED  BY <1>2, <4>1, <4>3
    <3> QED  BY <3>1, <3>2
  <2>6. DOMAIN allocations' = {w[0] : w \in held'}
    BY <1>1, <1>2 DEF HeldRecorded
  <2>7. \A w \in held' : allocations'[w[0]] = w
    BY <1>1, <1>2, <2>2 DEF HeldRecorded
  <2> QED  BY <2>3, <2>4, <2>5, <2>6, <2>7 DEF HeldRecorded
<1> QED  BY <1>4, <1>5, <1>6 DEF Invariant

LEMMA DeallocateInvariant ==
    ASSUME Invariant, NEW v \in held, Deallocate(v)
    PROVE  Invariant'
<1>1. TypeOK /\ BookkeepingOK /\ HeldRecorded
  BY DEF Invariant
<1>2. /\ v \in Vectors /\ v # EmptyVector /\ 0 \in DOMAIN v
      /\ DOMAIN v \subseteq Chunks
      /\ \A i \in DOMAIN v : TakesBack(chunks[i], chunks'[i], v[i])
      /\ \A i \in Chunks \ DOMAIN v : chunks'[i] = chunks[i]
      /\ chunks' = [i \in Chunks |-> chunks'[i]]
      /\ held' = held \ {v}
      /\ allocations' = [a \in DOMAIN allocations \ {v[0]} |-> allocations[a]]
  BY DeallocateEffect
<1>3. \A i \in Chunks : chunks'[i] \in Chunk /\ ChunkOK(chunks'[i])
  BY <1>1, <1>2, TypeFacts DEF BookkeepingOK, TakesBack
<1>4. TypeOK'
  <2>1. chunks' \in [Chunks -> Chunk]
    BY <1>2, <1>3
  <2>2. DOMAIN allocations \ {v[0]} \in SUBSET BlockAddrs
    BY <1>1, TypeFacts
  <2>3. allocations' \in [DOMAIN allocations \ {v[0]} -> Vectors]
    BY <1>1, <1>2, TypeFacts
  <2>4. held' \subseteq Vectors \ {EmptyVector}
    BY <1>1, <1>2 DEF TypeOK
  <2> QED  BY <2>1, <2>2, <2>3, <2>4 DEF TypeOK
<1>5. BookkeepingOK'
  BY <1>3 DEF BookkeepingOK
<1>6. HeldRecorded'
  <2>1. \A w \in held : DOMAIN w \subseteq Chunks /\ 0 \in DOMAIN w
    BY <1>1, TypeFacts, VectorFields
  <2>2. \A w \in held' : \A i \in DOMAIN v \cap DOMAIN w : w[i] # v[i]
    BY <1>1, <1>2 DEF HeldRecorded
  <2>3. ASSUME NEW w \in held', NEW i \in DOMAIN w
        PROVE  w[i] \in DOMAIN chunks'[i].allocations
    <3>1. w \in held /\ i \in Chunks /\ w[i] \in DOMAIN chunks[i].allocations
      BY <1>1, <1>2, <2>1 DEF HeldRecorded
    <3>2. CASE i \in DOMAIN v
      BY <1>2, <2>2, <3>1, <3>2 DEF TakesBack
    <3>3. CASE i \notin DOMAIN v
      BY <1>2, <3>1, <3>3
    <3> QED  BY <3>2, <3>3
  <2>4. \A w, x \in held' : w # x => \A i \in DOMAIN w \cap DOMAIN x : w[i] # x[i]
    BY <1>1, <1>2 DEF HeldRecorded
  <2>5. ASSUME NEW i \in Chunks, NEW a \in DOMAIN chunks'[i].allocations
        PROVE  \E w \in held' : i \in DOMAIN w /\ w[i] = a
    <3>1. a \in DOMAIN chunks[i].allocations /\ (i \in DOMAIN v => v[i] # a)
      <4>1. CASE i \in DOMAIN v
        <5>1. TakesBack(chunks[i], chunks'[i], v[i])
          BY <1>2, <4>1
        <5> QED  BY <5>1 DEF TakesBack
      <4>2. CASE i \notin DOMAIN v
        BY <1>2, <4>2
      <4> QED  BY <4>1, <4>2
    <3>2. PICK w \in held : i \in DOMAIN w /\ w[i] = a
      BY <1>1, <3>1 DEF HeldRecorded
    <3> QED  BY <1>2, <3>1, <3>2
  <2>6. DOMAIN allocations' = {w[0] : w \in held'}
    <3>1. \A w \in held' : w[0] # v[0]
      BY <1>2, <2>1, <2>2
    <3> QED  BY <1>1, <1>2, <3>1 DEF HeldRecorded
  <2>7. \A w \in held' : allocations'[w[0]] = w
    BY <1>1, <1>2, <2>1, <2>2 DEF HeldRecorded
  <2> QED  BY <2>3, <2>4, <2>5, <2>6, <2>7 DEF HeldRecorded
<1> QED  BY <1>4, <1>5, <1>6 DEF Invariant

\* A request that fails, on either path, is a stuttering step.
LEMMA FailedAllocateStutters ==
    ASSUME Invariant, NEW size \in Sizes,
           AllocateRefused(size) \/ AllocateOvershot(size)
    PROVE  UNCHANGED vars
<1>1. CASE AllocateRefused(size)
  <2>1. Rollback(size, FirstRefusing(size)) /\ held' = held
    BY <1>1 DEF AllocateRefused
  <2>2. chunks' = chunks /\ allocations' = allocations
    BY <1>1, <2>1, FirstRefusal, RollbackRestores DEF AllocateRefused
  <2> QED  BY <2>1, <2>2 DEF vars
<1>2. CASE AllocateOvershot(size)
  <2>1. Rollback(size, NrDpus) /\ held' = held
    BY <1>2 DEF AllocateOvershot
  <2>2. NrDpus \in 0 .. NrDpus
    BY PimManagerAssumption
  <2>3. Wanted(size) = NrDpus
    BY <1>2 DEF AllocateOvershot, Wanted
  <2>4. \A i \in 0 .. NrDpus - 1 : allocate_addr(chunks[i], size_per_chunk(size)) # NO_ADDR
    BY <1>2, <2>3 DEF AllocateOvershot, Refusing
  <2>5. chunks' = chunks /\ allocations' = allocations
    BY <2>1, <2>2, <2>4, RollbackRestores
  <2> QED  BY <2>1, <2>5 DEF vars
<1> QED  BY <1>1, <1>2

LEMMA NextInvariant == Invariant /\ [Next]_vars => Invariant'
<1> SUFFICES ASSUME Invariant, [Next]_vars PROVE Invariant'
  OBVIOUS
<1>1. CASE UNCHANGED vars
  BY <1>1 DEF vars, Invariant, TypeOK, BookkeepingOK, HeldRecorded
<1>2. ASSUME NEW size \in Sizes, AllocateOK(size) PROVE Invariant'
  BY <1>2, AllocateOKInvariant
<1>3. ASSUME NEW size \in Sizes, AllocateRefused(size) \/ AllocateOvershot(size)
      PROVE  Invariant'
  BY <1>1, <1>3, FailedAllocateStutters
<1>4. ASSUME NEW v \in held, Deallocate(v) PROVE Invariant'
  BY <1>4, DeallocateInvariant
<1> QED  BY <1>1, <1>2, <1>3, <1>4 DEF Next

\* The inductive invariant holds in every reachable state.
THEOREM InvariantHolds == Spec => []Invariant
BY InitInvariant, NextInvariant, PTL DEF Spec

\* The variables always have their types.
THEOREM TypeCorrect == Spec => []TypeOK
<1>1. Invariant => TypeOK
  BY DEF Invariant
<1> QED  BY <1>1, InvariantHolds, PTL

\* In every bank the bitmap and the allocation map always agree, and no two
\* recorded runs overlap.
THEOREM BookkeepingCorrect == Spec => []BookkeepingOK
<1>1. Invariant => BookkeepingOK
  BY DEF Invariant
<1> QED  BY <1>1, InvariantHolds, PTL

\* The banks and the table always record exactly what the callers hold.
THEOREM HeldRecordedCorrect == Spec => []HeldRecorded
<1>1. Invariant => HeldRecorded
  BY DEF Invariant
<1> QED  BY <1>1, InvariantHolds, PTL

\* Bitmaps, maps, table and callers always agree.
THEOREM RecordsAgreeAlways == Spec => []RecordsAgree
<1>1. Invariant => RecordsAgree
  BY DEF Invariant, RecordsAgree
<1> QED  BY <1>1, InvariantHolds, PTL

\* When nothing is held every block of every bank is free.
THEOREM NothingLeaks == Spec => []NoLeak
<1>1. ASSUME Invariant, held = {}, NEW i \in Chunks PROVE chunks[i] = NewChunk
  <2>1. chunks[i] \in Chunk /\ ChunkOK(chunks[i]) /\ DOMAIN chunks[i].allocations = {}
    BY <1>1, TypeFacts DEF Invariant, BookkeepingOK, HeldRecorded
  <2>2. \A b \in Blocks : chunks[i].free[b]
    BY <2>1 DEF ChunkOK, BitmapMatches
  <2>3. /\ chunks[i].free \in [Blocks -> BOOLEAN]
        /\ chunks[i].allocations = [a \in {} |-> chunks[i].allocations[a]]
        /\ chunks[i] = [free |-> chunks[i].free, allocations |-> chunks[i].allocations]
    BY <2>1, ChunkFields
  <2>4. chunks[i].free = [b \in Blocks |-> TRUE]
    <3>1. ASSUME NEW b \in Blocks PROVE chunks[i].free[b] = TRUE
      <4>1. chunks[i].free[b] \in BOOLEAN
        BY <2>3
      <4> QED  BY <2>2, <4>1, Zenon
    <3> QED  BY <2>3, <3>1
  <2>5. chunks[i].allocations = [a \in {} |-> 0]
    BY <2>3
  <2> QED  BY <2>3, <2>4, <2>5 DEF NewChunk
<1>2. Invariant => NoLeak
  <2> SUFFICES ASSUME Invariant, held = {} PROVE chunks = [i \in Chunks |-> NewChunk]
    BY DEF NoLeak
  <2>1. chunks = [i \in Chunks |-> chunks[i]]
    BY TypeFacts DEF Invariant
  <2> QED  BY <1>1, <2>1
<1> QED  BY <1>2, InvariantHolds, PTL

\* A failed request never changes the banks or the table.
THEOREM FailureLeavesNoTraceHolds == Spec => FailureLeavesNoTrace
<1>1. ASSUME Invariant, Next, held' = held PROVE UNCHANGED <<chunks, allocations>>
  <2>1. ASSUME NEW size \in Sizes, AllocateOK(size) PROVE FALSE
    BY <1>1, <2>1, AllocateEffect
  <2>2. ASSUME NEW v \in held, Deallocate(v) PROVE FALSE
    BY <1>1, <2>2 DEF Deallocate, Return
  <2>3. ASSUME NEW size \in Sizes, AllocateRefused(size) \/ AllocateOvershot(size)
        PROVE  UNCHANGED <<chunks, allocations>>
    BY <1>1, <2>3, FailedAllocateStutters DEF vars
  <2> QED  BY <1>1, <2>1, <2>2, <2>3 DEF Next
<1>2. Invariant /\ [Next]_vars => [held' = held => UNCHANGED <<chunks, allocations>>]_vars
  BY <1>1
<1> QED  BY <1>2, InvariantHolds, PTL DEF Spec, FailureLeavesNoTrace
-----------------------------------------------------------------------------
(***************************************************************************)
(* Requests that the DPUs divide.  Of those that they do not, the ones     *)
(* that allocate always refuses do no harm.                                *)
(***************************************************************************)
DividedEqually == \A size \in Sizes : StopsAfter(size) = {} \/ size % NrDpus = 0

\* Such a request is split exactly, and the loop stops after the last chunk.
LEMMA EvenSplit ==
    ASSUME NEW size \in Sizes, size % NrDpus = 0, size # 0
    PROVE  Wanted(size) = NrDpus /\ StopsAfter(size) # {}
<1> DEFINE q == size \div NrDpus
<1>1. NrDpus \in Nat \ {0} /\ SIZE_T \in Nat \ {0} /\ size \in Nat /\ size < SIZE_T
  BY PimManagerAssumption
<1>2. q \in Nat \ {0} /\ size = NrDpus * q
  BY <1>1
<1> HIDE DEF q
<1>3. size_per_chunk(size) = q
  BY <1>1, <1>2 DEF size_per_chunk, DIVROUNDUP
<1>4. Remaining(size, NrDpus) = 0
  BY <1>1, <1>2, <1>3 DEF Remaining
<1>5. ASSUME NEW k \in 1 .. NrDpus - 1 PROVE Remaining(size, k) # 0
  <2>1. size - k * q = (NrDpus - k) * q
    BY <1>1, <1>2
  <2>2. NrDpus - k \in 1 .. NrDpus
    BY <1>1
  <2>3. (NrDpus - k) * q >= 1 /\ (NrDpus - k) * q <= NrDpus * q
    BY <1>1, <1>2, <2>2
  <2>4. size - k * q \in 1 .. SIZE_T - 1
    BY <1>1, <1>2, <2>1, <2>3
  <2>5. (size - k * q) % SIZE_T = size - k * q
    BY <1>1, <2>4
  <2> QED  BY <1>3, <2>4, <2>5 DEF Remaining
<1>6. StopsAfter(size) = {NrDpus}
  BY <1>1, <1>4, <1>5 DEF StopsAfter
<1> QED  BY <1>1, <1>6 DEF Wanted

\* No bank grants an empty request.
LEMMA NothingIsRefused ==
    ASSUME NEW c PROVE allocate_addr(c, size_per_chunk(0)) = NO_ADDR
<1>1. size_per_chunk(0) = 0 /\ DIVROUNDUP(0, BLOCK_SIZE) = 0
  BY PimManagerAssumption, DpuMemoryAssumption DEF size_per_chunk, DIVROUNDUP
<1>2. FreeRuns(c.free, 0) = {}
  BY DEF FreeRuns
<1> QED  BY <1>1, <1>2 DEF allocate_addr, find_free_blocks

EvenInvariant == Invariant /\ LockStep /\ SameOffset

LEMMA EvenAllocate ==
    ASSUME EvenInvariant, NEW size \in Sizes, size % NrDpus = 0, AllocateOK(size)
    PROVE  (LockStep /\ SameOffset)'
<1> DEFINE v == Granted(size, NrDpus)
<1>1. Invariant /\ LockStep /\ SameOffset /\ TypeOK
  BY DEF EvenInvariant, Invariant
<1>2. 0 \in Chunks /\ NrDpus \in Nat \ {0}
  BY PimManagerAssumption DEF Chunks
<1>3. size # 0
  <2>1. SUFFICES ASSUME size = 0 PROVE FALSE
    OBVIOUS
  <2>2. 0 \in 0 .. Wanted(size) - 1
    BY LoopBounds, PimManagerAssumption
  <2>3. 0 \in Refusing(size)
    BY <2>1, <2>2, NothingIsRefused DEF Refusing
  <2> QED  BY <2>3 DEF AllocateOK
<1>4. Wanted(size) = NrDpus
  BY <1>3, EvenSplit
<1>5. /\ held' = held \cup {v}
      /\ chunks' = allocate_chunks(size, NrDpus)
  BY <1>4 DEF AllocateOK
<1>6. \A i \in Chunks : /\ chunks'[i] = allocate(chunks[i], size_per_chunk(size))
                        /\ v[i] = allocate_addr(chunks[i], size_per_chunk(size))
  BY <1>2, <1>5 DEF allocate_chunks, Granted, Chunks
<1>7. DOMAIN v = Chunks
  BY DEF Granted, Chunks
<1>8. \A i \in Chunks : chunks[i] = chunks[0]
  BY <1>1 DEF LockStep
<1> HIDE DEF v
<1>9. \A i \in Chunks : chunks'[i] = chunks'[0] /\ v[i] = v[0]
  BY <1>2, <1>6, <1>8
<1> QED  BY <1>1, <1>5, <1>7, <1>9 DEF LockStep, SameOffset

LEMMA EvenDeallocate ==
    ASSUME EvenInvariant, NEW v \in held, Deallocate(v)
    PROVE  (LockStep /\ SameOffset)'
<1>1. 0 \in Chunks
  BY PimManagerAssumption DEF Chunks
<1>2. DOMAIN v = Chunks /\ \A i \in Chunks : v[i] = v[0] /\ chunks[i] = chunks[0]
  BY DEF EvenInvariant, LockStep, SameOffset
<1>3. \A i \in Chunks : chunks'[i] = deallocate(chunks[i], v[i])
  BY <1>2 DEF Deallocate, Return, deallocate_chunks
<1>4. \A i \in Chunks : chunks'[i] = chunks'[0]
  BY <1>1, <1>2, <1>3
<1> QED  BY <1>4 DEF EvenInvariant, LockStep, SameOffset, Deallocate, Return

LEMMA EvenStep ==
    ASSUME DividedEqually, EvenInvariant, [Next]_vars
    PROVE  EvenInvariant'
<1>1. Invariant'
  BY NextInvariant DEF EvenInvariant
<1>2. CASE UNCHANGED vars
  BY <1>1, <1>2 DEF EvenInvariant, LockStep, SameOffset, vars
<1>3. ASSUME NEW size \in Sizes, AllocateOK(size) PROVE EvenInvariant'
  BY <1>1, <1>3, EvenAllocate DEF EvenInvariant, DividedEqually, AllocateOK
<1>4. ASSUME NEW size \in Sizes, AllocateRefused(size) \/ AllocateOvershot(size)
      PROVE  EvenInvariant'
  BY <1>2, <1>4, FailedAllocateStutters DEF EvenInvariant
<1>5. ASSUME NEW v \in held, Deallocate(v) PROVE EvenInvariant'
  BY <1>1, <1>5, EvenDeallocate DEF EvenInvariant
<1> QED  BY <1>2, <1>3, <1>4, <1>5 DEF Next

LEMMA EvenInvariantHolds == ASSUME DividedEqually PROVE Spec => []EvenInvariant
<1>1. Init => EvenInvariant
  <2> SUFFICES ASSUME Init PROVE EvenInvariant
    OBVIOUS
  <2>1. 0 \in Chunks
    BY PimManagerAssumption DEF Chunks
  <2>2. LockStep /\ SameOffset
    BY <2>1 DEF Init, LockStep, SameOffset
  <2> QED  BY <2>2, InitInvariant DEF EvenInvariant
<1>2. EvenInvariant /\ [Next]_vars => EvenInvariant'
  BY EvenStep
<1> QED  BY <1>1, <1>2, PTL DEF Spec

\* If every request that is granted is divided equally, a vector has one offset for all DPUs,
\* as the comment of copy_to_pim assumes.
THEOREM SameOffsetHolds == ASSUME DividedEqually PROVE Spec => []SameOffset
<1>1. EvenInvariant => SameOffset
  BY DEF EvenInvariant
<1> QED  BY <1>1, EvenInvariantHolds, PTL

\* ... and the banks of all DPUs go through the same states.
THEOREM LockStepHolds == ASSUME DividedEqually PROVE Spec => []LockStep
<1>1. EvenInvariant => LockStep
  BY DEF EvenInvariant
<1> QED  BY <1>1, EvenInvariantHolds, PTL

\* If every request that is granted is divided equally, both hold.
THEOREM OffsetsInStepHolds == ASSUME DividedEqually PROVE Spec => []OffsetsInStep
<1>1. EvenInvariant => OffsetsInStep
  BY DEF EvenInvariant, OffsetsInStep
<1> QED  BY <1>1, EvenInvariantHolds, PTL
-----------------------------------------------------------------------------
(***************************************************************************)
(* The manager implements RegionAllocator.                                 *)
(***************************************************************************)
LEMMA CellMembership ==
    ASSUME NEW cs, NEW v, NEW cell
    PROVE  cell \in CellsOf(cs, v) <=>
               \E i \in DOMAIN v : \E b \in BlocksOf(cs[i], v[i]) : cell = <<i, b>>
<1>1. ASSUME NEW i \in DOMAIN v
      PROVE  cell \in {i} \X BlocksOf(cs[i], v[i]) <=> \E b \in BlocksOf(cs[i], v[i]) : cell = <<i, b>>
  OBVIOUS
<1> QED  BY <1>1 DEF CellsOf

\* Held vectors have non-empty, busy, pairwise disjoint sets of cells.
LEMMA HeldCells ==
    ASSUME Invariant
    PROVE  /\ \A v \in held : /\ CellsOf(chunks, v) # {}
                              /\ CellsOf(chunks, v) \subseteq BusyCells(chunks)
           /\ \A v, w \in held : v # w => CellsOf(chunks, v) \cap CellsOf(chunks, w) = {}
<1>1. TypeOK /\ BookkeepingOK /\ HeldRecorded
  BY DEF Invariant
<1>2. ASSUME NEW v \in held, NEW i \in DOMAIN v
      PROVE  /\ i \in Chunks
             /\ v[i] \in DOMAIN chunks[i].allocations
             /\ BlocksOf(chunks[i], v[i]) # {}
             /\ BlocksOf(chunks[i], v[i]) \subseteq {b \in Blocks : ~chunks[i].free[b]}
  <2>1. i \in Chunks /\ v[i] \in DOMAIN chunks[i].allocations
    BY <1>1, TypeFacts, VectorFields DEF HeldRecorded
  <2>2. chunks[i] \in Chunk /\ ChunkOK(chunks[i])
    BY <1>1, <2>1, TypeFacts DEF BookkeepingOK
  <2>3. chunks[i].allocations[v[i]] \in 1 .. TOTAL_BLOCKS /\ DIV(v[i], BLOCK_SIZE) \in Blocks
    BY <2>1, <2>2, ChunkFields, AddressBlock
  <2>4. BlocksOf(chunks[i], v[i]) # {}
    BY <2>3, DpuMemoryAssumption DEF BlocksOf, Run, Blocks
  <2>5. BlocksOf(chunks[i], v[i]) \subseteq {b \in Blocks : ~chunks[i].free[b]}
    BY <2>1, <2>2 DEF ChunkOK, RunsInRange, BitmapMatches
  <2> QED  BY <2>1, <2>4, <2>5
<1>3. ASSUME NEW v \in held PROVE CellsOf(chunks, v) # {}
  <2>1. 0 \in DOMAIN v
    BY <1>1, TypeFacts
  <2>2. PICK b \in BlocksOf(chunks[0], v[0]) : TRUE
    BY <1>2, <2>1
  <2>3. <<0, b>> \in CellsOf(chunks, v)
    BY <2>1, <2>2, CellMembership
  <2> QED  BY <2>3
<1>4. ASSUME NEW v \in held, NEW cell \in CellsOf(chunks, v)
      PROVE  cell \in BusyCells(chunks)
  <2>1. PICK i, b : i \in DOMAIN v /\ b \in BlocksOf(chunks[i], v[i]) /\ cell = <<i, b>>
    BY CellMembership
  <2>2. i \in Chunks /\ b \in Blocks /\ ~chunks[i].free[b]
    BY <1>2, <2>1
  <2> QED  BY <2>1, <2>2 DEF BusyCells
<1>5. ASSUME NEW v \in held, NEW w \in held, v # w,
             NEW cell \in CellsOf(chunks, v), cell \in CellsOf(chunks, w)
      PROVE  FALSE
  <2>1. PICK i, b : i \in DOMAIN v /\ b \in BlocksOf(chunks[i], v[i]) /\ cell = <<i, b>>
    BY CellMembership
  <2>2. PICK j, c : j \in DOMAIN w /\ c \in BlocksOf(chunks[j], w[j]) /\ cell = <<j, c>>
    BY <1>5, CellMembership
  <2>3. i = j /\ b = c
    BY <2>1, <2>2
  <2>4. v[i] # w[i]
    BY <1>1, <1>5, <2>1, <2>2, <2>3 DEF HeldRecorded
  <2>5. /\ i \in Chunks
        /\ v[i] \in DOMAIN chunks[i].allocations
        /\ w[i] \in DOMAIN chunks[i].allocations
    BY <1>2, <2>1, <2>2, <2>3
  <2>6. BlocksOf(chunks[i], v[i]) \cap BlocksOf(chunks[i], w[i]) = {}
    BY <1>1, <2>4, <2>5 DEF BookkeepingOK, ChunkOK, RunsDisjoint
  <2> QED  BY <2>1, <2>2, <2>3, <2>6
<1> QED  BY <1>3, <1>4, <1>5

\* A successful allocate lends cells that were not busy.
LEMMA AllocateIsLend ==
    ASSUME Invariant, NEW size \in Sizes, AllocateOK(size)
    PROVE  Abstract!Lend
<1>1. TypeOK /\ BookkeepingOK /\ HeldRecorded
  BY DEF Invariant
<1>2. PICK v : /\ v \in Vectors /\ 0 \in DOMAIN v
               /\ DOMAIN v \subseteq Chunks
               /\ \A i \in DOMAIN v : Lends(chunks[i], chunks'[i], v[i])
               /\ \A i \in Chunks \ DOMAIN v : chunks'[i] = chunks[i]
               /\ held' = held \cup {v}
  BY AllocateEffect
<1>3. \A w \in held : CellsOf(chunks', w) = CellsOf(chunks, w)
  <2>1. ASSUME NEW w \in held, NEW i \in DOMAIN w
        PROVE  BlocksOf(chunks'[i], w[i]) = BlocksOf(chunks[i], w[i])
    <3>1. i \in Chunks /\ w[i] \in DOMAIN chunks[i].allocations
      BY <1>1, TypeFacts, VectorFields DEF HeldRecorded
    <3>2. CASE i \in DOMAIN v
      <4>1. Lends(chunks[i], chunks'[i], v[i])
        BY <1>2, <3>2
      <4> QED  BY <3>1, <4>1 DEF Lends, BlocksOf
    <3>3. CASE i \notin DOMAIN v
      BY <1>2, <3>1, <3>3
    <3> QED  BY <3>2, <3>3
  <2> QED  BY <2>1 DEF CellsOf
<1> DEFINE lease == CellsOf(chunks', v)
<1>4. lease # {}
  <2>1. BlocksOf(chunks'[0], v[0]) # {}
    BY <1>2 DEF Lends
  <2>2. PICK b \in BlocksOf(chunks'[0], v[0]) : TRUE
    BY <2>1
  <2>3. <<0, b>> \in lease
    BY <1>2, <2>2, CellMembership
  <2> QED  BY <2>3
<1>5. lease \subseteq (Chunks \X Blocks) \ BusyCells(chunks)
  <2>1. SUFFICES ASSUME NEW cell \in lease
                 PROVE  cell \in Chunks \X Blocks /\ cell \notin BusyCells(chunks)
    OBVIOUS
  <2>2. PICK i, b : i \in DOMAIN v /\ b \in BlocksOf(chunks'[i], v[i]) /\ cell = <<i, b>>
    BY CellMembership
  <2>3. i \in Chunks /\ b \in Blocks /\ chunks[i].free[b]
    BY <1>2, <2>2 DEF Lends
  <2> QED  BY <2>2, <2>3 DEF BusyCells
<1>6. BusyCells(chunks') = BusyCells(chunks) \cup lease
  <2>1. ASSUME NEW i \in Chunks, NEW b \in Blocks
        PROVE  <<i, b>> \in BusyCells(chunks') <=>
                  <<i, b>> \in BusyCells(chunks) \/ <<i, b>> \in lease
    <3>1. <<i, b>> \in lease <=> i \in DOMAIN v /\ b \in BlocksOf(chunks'[i], v[i])
      BY CellMembership
    <3>2. CASE i \in DOMAIN v
      <4>1. ~chunks'[i].free[b] <=> ~chunks[i].free[b] \/ b \in BlocksOf(chunks'[i], v[i])
        <5>1. Lends(chunks[i], chunks'[i], v[i])
          BY <1>2, <3>2
        <5>2. chunks'[i].free[b] =
                (IF b \in BlocksOf(chunks'[i], v[i]) THEN FALSE ELSE chunks[i].free[b])
          BY <5>1 DEF Lends
        <5> QED  BY <5>2
      <4> QED  BY <3>1, <3>2, <4>1 DEF BusyCells
    <3>3. CASE i \notin DOMAIN v
      <4>1. chunks'[i] = chunks[i]
        BY <1>2, <3>3
      <4> QED  BY <3>1, <3>3, <4>1 DEF BusyCells
    <3> QED  BY <3>2, <3>3
  <2>2. /\ BusyCells(chunks') \subseteq Chunks \X Blocks
        /\ BusyCells(chunks) \subseteq Chunks \X Blocks
    BY DEF BusyCells
  <2> HIDE DEF lease
  <2> QED  BY <1>5, <2>1, <2>2
<1>7. {CellsOf(chunks', w) : w \in held'} = {CellsOf(chunks, w) : w \in held} \cup {lease}
  BY <1>2, <1>3
<1> HIDE DEF lease
<1> QED  BY <1>4, <1>5, <1>6, <1>7 DEF Abstract!Lend

\* deallocate takes back exactly the cells it lent for the vector.
LEMMA DeallocateIsTakeBack ==
    ASSUME Invariant, NEW v \in held, Deallocate(v)
    PROVE  Abstract!TakeBack
<1>1. TypeOK /\ BookkeepingOK /\ HeldRecorded
  BY DEF Invariant
<1>2. /\ 0 \in DOMAIN v /\ DOMAIN v \subseteq Chunks
      /\ \A i \in DOMAIN v : TakesBack(chunks[i], chunks'[i], v[i])
      /\ \A i \in Chunks \ DOMAIN v : chunks'[i] = chunks[i]
      /\ held' = held \ {v}
  BY DeallocateEffect
<1> DEFINE lease == CellsOf(chunks, v)
<1>3. \A w \in held' : CellsOf(chunks', w) = CellsOf(chunks, w)
  <2>1. ASSUME NEW w \in held', NEW i \in DOMAIN w
        PROVE  BlocksOf(chunks'[i], w[i]) = BlocksOf(chunks[i], w[i])
    <3>1. i \in Chunks /\ w[i] \in DOMAIN chunks[i].allocations
      BY <1>1, <1>2, TypeFacts, VectorFields DEF HeldRecorded
    <3>2. CASE i \in DOMAIN v
      <4>1. TakesBack(chunks[i], chunks'[i], v[i])
        BY <1>2, <3>2
      <4>2. w[i] # v[i]
        BY <1>1, <1>2, <3>2 DEF HeldRecorded
      <4> QED  BY <3>1, <4>1, <4>2 DEF TakesBack, BlocksOf
    <3>3. CASE i \notin DOMAIN v
      BY <1>2, <3>1, <3>3
    <3> QED  BY <3>2, <3>3
  <2> QED  BY <2>1 DEF CellsOf
<1>4. BusyCells(chunks') = BusyCells(chunks) \ lease
  <2>1. ASSUME NEW i \in Chunks, NEW b \in Blocks
        PROVE  <<i, b>> \in BusyCells(chunks') <=>
                  <<i, b>> \in BusyCells(chunks) /\ <<i, b>> \notin lease
    <3>1. <<i, b>> \in lease <=> i \in DOMAIN v /\ b \in BlocksOf(chunks[i], v[i])
      BY CellMembership
    <3>2. CASE i \in DOMAIN v
      <4>1. ~chunks'[i].free[b] <=> ~chunks[i].free[b] /\ b \notin BlocksOf(chunks[i], v[i])
        BY ZenonT(60), <1>2, <3>2 DEF TakesBack
      <4> QED  BY <3>1, <3>2, <4>1 DEF BusyCells
    <3>3. CASE i \notin DOMAIN v
      <4>1. chunks'[i] = chunks[i]
        BY <1>2, <3>3
      <4> QED  BY <3>1, <3>3, <4>1 DEF BusyCells
    <3> QED  BY <3>2, <3>3
  <2>2. /\ BusyCells(chunks') \subseteq Chunks \X Blocks
        /\ BusyCells(chunks) \subseteq Chunks \X Blocks
    BY DEF BusyCells
  <2> HIDE DEF lease
  <2> QED  BY <2>1, <2>2
<1>5. \A w \in held' : CellsOf(chunks, w) # lease
  BY <1>1, <1>2, HeldCells
<1>6. {CellsOf(chunks', w) : w \in held'} = {CellsOf(chunks, w) : w \in held} \ {lease}
  BY <1>2, <1>3, <1>5
<1>7. lease \in {CellsOf(chunks, w) : w \in held}
  OBVIOUS
<1> HIDE DEF lease
<1> QED  BY <1>4, <1>6, <1>7 DEF Abstract!TakeBack

\* The manager implements the abstract allocator, for any requests.
THEOREM Implementation == Spec => ImplementsRegionAllocator
<1>1. Init => Abstract!Init
  BY DEF Init, Abstract!Init, BusyCells, NewChunk
<1>2. Invariant /\ [Next]_vars
        => [Abstract!Next]_<<BusyCells(chunks), {CellsOf(chunks, v) : v \in held}>>
  <2> SUFFICES ASSUME Invariant, [Next]_vars
               PROVE  [Abstract!Next]_<<BusyCells(chunks), {CellsOf(chunks, v) : v \in held}>>
    OBVIOUS
  <2>1. CASE UNCHANGED vars
    BY <2>1 DEF vars
  <2>2. ASSUME NEW size \in Sizes, AllocateOK(size) PROVE Abstract!Next
    BY <2>2, AllocateIsLend DEF Abstract!Next
  <2>3. ASSUME NEW size \in Sizes, AllocateRefused(size) \/ AllocateOvershot(size)
        PROVE  UNCHANGED vars
    BY <2>3, FailedAllocateStutters
  <2>4. ASSUME NEW v \in held, Deallocate(v) PROVE Abstract!Next
    BY <2>4, DeallocateIsTakeBack DEF Abstract!Next
  <2> QED  BY <2>1, <2>2, <2>3, <2>4 DEF Next
<1> QED  BY <1>1, <1>2, InvariantHolds, PTL DEF Spec, ImplementsRegionAllocator, Abstract!Spec
-----------------------------------------------------------------------------
(***************************************************************************)
(* PimData.  In a program that copies no object the manager's invariant    *)
(* holds and the objects and the held vectors correspond one to one: an    *)
(* object is bound to a vector that is new, and gives back that of no      *)
(* other.  Their blocks are disjoint then, so are the words that fit into  *)
(* them, and a transfer changes the words of one object only.              *)
(***************************************************************************)
IsObject(obj) ==
    /\ obj = [size |-> obj.size, metadata |-> obj.metadata, data |-> obj.data, host |-> obj.host]
    /\ obj.size \in Sizes /\ StopsAfter(obj.size) # {}

OneToOne ==
    /\ held = {objs[o].metadata : o \in DOMAIN objs}
    /\ \A o, p \in DOMAIN objs : o # p => objs[o].metadata # objs[p].metadata

\* The first bank remembers how many blocks each object has.
SharesRecorded ==
    \A o \in DOMAIN objs : chunks[0].allocations[objs[o].metadata[0]] = Share(objs[o].size)

Ownership ==
    Invariant /\ (\A o \in DOMAIN objs : IsObject(objs[o])) /\ OneToOne /\ SharesRecorded

WordsFrom(a, size) == a \div WORD .. a \div WORD + EachDpu(size) - 1

\* The object's blocks take its data, and its words hold them.
Resides(obj) ==
    /\ ~TooLarge(obj.size)
    /\ InBank(obj.metadata, obj.size)
    /\ \A i \in Chunks : \A w \in WordsFrom(obj.metadata[0], obj.size) :
          mram[i][w] = <<obj.data, i * EachDpu(obj.size) + w - FirstWord(obj.metadata)>>

Residence ==
    /\ ~copied => Ownership
    /\ ~copied /\ ~overrun => \A o \in DOMAIN objs : Resides(objs[o])

-----------------------------------------------------------------------------
LEMMA TimesMonotone ==
    ASSUME NEW a \in Int, NEW b \in Int, NEW r \in Nat, a <= b
    PROVE  a * r <= b * r
<1>1. (b - a) \in Nat
  OBVIOUS
<1>2. (b - a) * r >= 0
  BY <1>1
<1>3. (b - a) * r = b * r - a * r
  OBVIOUS
<1>4. a * r \in Int /\ b * r \in Int
  OBVIOUS
<1> QED  BY <1>2, <1>3, <1>4

\* A word of a transfer lies in a block of the region.
LEMMA WordInRun ==
    ASSUME NEW a \in BlockAddrs, NEW size \in Nat, NEW n \in Nat,
           EachDpu(size) * WORD <= n * BLOCK_SIZE, NEW w \in WordsFrom(a, size)
    PROVE  w \div (BLOCK_SIZE \div WORD) \in Run(DIV(a, BLOCK_SIZE), n)
<1>1. BLOCK_SIZE \in Nat \ {0} /\ WORD \in Nat \ {0} /\ BLOCK_SIZE % WORD = 0
  BY DpuMemoryAssumption, PimDataAssumption
<1>2. PICK r : r = BLOCK_SIZE \div WORD
  OBVIOUS
<1>3. r \in Nat \ {0} /\ BLOCK_SIZE = r * WORD
  BY <1>1, <1>2
<1>4. PICK b, e : b = DIV(a, BLOCK_SIZE) /\ e = EachDpu(size)
  OBVIOUS
<1>5. b \in Nat /\ e \in Nat
  BY <1>4, AddressBlock, DpuMemoryAssumption, PimManagerAssumption DEF Blocks, EachDpu, DIV
<1>6. a \div WORD = b * r
  <2>1. a = (b * r) * WORD
    <3>1. a = b * BLOCK_SIZE
      BY <1>4, AddressBlock
    <3>2. b * (r * WORD) = (b * r) * WORD
      BY <1>1, <1>3, <1>5
    <3> QED  BY <1>3, <3>1, <3>2
  <2>2. b * r \in Nat
    BY <1>3, <1>5
  <2> QED  BY <1>1, <2>1, <2>2
<1>7. e <= n * r
  <2>1. SUFFICES ASSUME n * r + 1 <= e PROVE FALSE
    BY <1>3, <1>5
  <2>2. (n * r + 1) * WORD <= e * WORD
    BY <1>1, <1>3, <1>5, <2>1, TimesMonotone
  <2>3. (n * r + 1) * WORD = n * BLOCK_SIZE + WORD
    BY <1>1, <1>3
  <2>4. n * BLOCK_SIZE \in Nat /\ e * WORD \in Nat
    BY <1>1, <1>5
  <2> QED  BY <1>1, <1>4, <2>2, <2>3, <2>4
<1>8. w \in Nat /\ b * r <= w /\ w < (b + n) * r
  <2>1. w \in b * r .. b * r + e - 1 /\ b * r \in Nat
    BY <1>3, <1>4, <1>5, <1>6 DEF WordsFrom
  <2>2. (b + n) * r = b * r + n * r /\ n * r \in Nat
    BY <1>3, <1>5
  <2> QED  BY <1>5, <1>7, <2>1, <2>2
<1>9. PICK q : q = w \div r
  OBVIOUS
<1>10. q \in Nat /\ q * r <= w /\ w < (q + 1) * r
  BY <1>3, <1>8, <1>9
<1>11. b <= q
  <2>1. SUFFICES ASSUME q + 1 <= b PROVE FALSE
    BY <1>5, <1>10
  <2>2. (q + 1) * r <= b * r
    BY <1>3, <1>5, <1>10, <2>1, TimesMonotone
  <2>3. (q + 1) * r \in Int /\ b * r \in Int
    BY <1>3, <1>5, <1>10
  <2> QED  BY <1>8, <1>10, <2>2, <2>3
<1>12. q < b + n
  <2>1. SUFFICES ASSUME b + n <= q PROVE FALSE
    BY <1>5, <1>10
  <2>2. (b + n) * r <= q * r
    BY <1>3, <1>5, <1>10, <2>1, TimesMonotone
  <2>3. (b + n) * r \in Int /\ q * r \in Int
    BY <1>3, <1>5, <1>10
  <2> QED  BY <1>8, <1>10, <2>2, <2>3
<1> QED  BY <1>2, <1>4, <1>5, <1>9, <1>10, <1>11, <1>12 DEF Run

\* The words of two allocations of one bank are disjoint.
LEMMA WordsApart ==
    ASSUME NEW c \in Chunk, ChunkOK(c),
           NEW a \in DOMAIN c.allocations, NEW b \in DOMAIN c.allocations, a # b,
           NEW s \in Nat, ~TooLarge(s), c.allocations[a] = Share(s),
           NEW t \in Nat, ~TooLarge(t), c.allocations[b] = Share(t)
    PROVE  WordsFrom(a, s) \cap WordsFrom(b, t) = {}
<1>1. a \in BlockAddrs /\ b \in BlockAddrs /\ Share(s) \in Nat /\ Share(t) \in Nat
  BY ChunkFields
<1>2. Run(DIV(a, BLOCK_SIZE), Share(s)) \cap Run(DIV(b, BLOCK_SIZE), Share(t)) = {}
  BY DEF ChunkOK, RunsDisjoint, BlocksOf
<1>3. EachDpu(s) \in Nat /\ EachDpu(t) \in Nat
  BY PimManagerAssumption DEF EachDpu, DIV
<1>4. EachDpu(s) * WORD <= Share(s) * BLOCK_SIZE /\ EachDpu(t) * WORD <= Share(t) * BLOCK_SIZE
  <2>1. /\ EachDpu(s) * WORD \in Nat /\ Share(s) * BLOCK_SIZE \in Nat
        /\ EachDpu(t) * WORD \in Nat /\ Share(t) * BLOCK_SIZE \in Nat
    BY <1>1, <1>3, DpuMemoryAssumption, PimDataAssumption
  <2> QED  BY <2>1 DEF TooLarge
<1> SUFFICES ASSUME NEW w \in WordsFrom(a, s), w \in WordsFrom(b, t) PROVE FALSE
  OBVIOUS
<1>5. /\ w \div (BLOCK_SIZE \div WORD) \in Run(DIV(a, BLOCK_SIZE), Share(s))
      /\ w \div (BLOCK_SIZE \div WORD) \in Run(DIV(b, BLOCK_SIZE), Share(t))
  BY <1>1, <1>4, WordInRun
<1> QED  BY <1>2, <1>5

\* A transfer inside the bank puts the data in its words, and changes no others.
LEMMA WrittenWords ==
    ASSUME NEW v, v[0] \in BlockAddrs, NEW size \in Nat, InBank(v, size), NEW d,
           mram' = Written(v, size, d), NEW i \in Chunks
    PROVE  /\ \A w \in WordsFrom(v[0], size) :
                 mram'[i][w] = <<d, i * EachDpu(size) + w - FirstWord(v)>>
           /\ \A w \in Words \ WordsFrom(v[0], size) : mram'[i][w] = mram[i][w]
<1>1. EachDpu(size) \in Nat /\ FirstWord(v) \in Nat /\ CHUNK_SIZE \div WORD \in Int
  <2>1. v[0] \in Nat
    BY AddressBlock
  <2>2. CHUNK_SIZE \in Nat
    BY DpuMemoryAssumption DEF CHUNK_SIZE
  <2> QED  BY <2>1, <2>2, PimManagerAssumption, PimDataAssumption DEF EachDpu, DIV, FirstWord
<1>2. WordsFrom(v[0], size) = FirstWord(v) .. FirstWord(v) + EachDpu(size) - 1
  BY DEF WordsFrom, FirstWord
<1>3. WordsFrom(v[0], size) \subseteq Words
  BY <1>1, <1>2 DEF InBank, Words
<1>4. mram'[i] = [w \in Words |->
                    IF w \in WordsFrom(v[0], size)
                    THEN <<d, i * EachDpu(size) + w - FirstWord(v)>> ELSE mram[i][w]]
  BY <1>2 DEF Written
<1> QED  BY <1>3, <1>4

\* The words of an object that resides are words of the bank.
LEMMA ResidentWords ==
    ASSUME NEW v, v[0] \in BlockAddrs, NEW size \in Nat, InBank(v, size)
    PROVE  WordsFrom(v[0], size) \subseteq Words
<1>1. EachDpu(size) \in Nat /\ FirstWord(v) \in Nat /\ CHUNK_SIZE \div WORD \in Int
  <2>1. v[0] \in Nat
    BY AddressBlock
  <2>2. CHUNK_SIZE \in Nat
    BY DpuMemoryAssumption DEF CHUNK_SIZE
  <2> QED  BY <2>1, <2>2, PimManagerAssumption, PimDataAssumption DEF EachDpu, DIV, FirstWord
<1> QED  BY <1>1 DEF WordsFrom, FirstWord, InBank, Words
-----------------------------------------------------------------------------
\* The vectors of the objects, as the theorems about the manager know them.
LEMMA ObjectFacts ==
    ASSUME Ownership, NEW o \in DOMAIN objs
    PROVE  /\ objs[o].metadata \in held
           /\ objs[o].metadata[0] \in BlockAddrs
           /\ objs[o].metadata[0] \in DOMAIN chunks[0].allocations
           /\ chunks[0].allocations[objs[o].metadata[0]] = Share(objs[o].size)
           /\ objs[o].size \in Nat
           /\ 0 \in DOMAIN objs[o].metadata /\ 0 \in Chunks
<1>1. objs[o].metadata \in held
  BY DEF Ownership, OneToOne
<1>2. /\ TypeOK /\ HeldRecorded /\ 0 \in Chunks
  BY PimManagerAssumption DEF Ownership, Invariant, Chunks
<1>3. 0 \in DOMAIN objs[o].metadata /\ objs[o].metadata \in Vectors
  BY <1>1, <1>2, TypeFacts
<1>4. objs[o].metadata[0] \in BlockAddrs
  BY <1>3, VectorFields
<1>5. objs[o].metadata[0] \in DOMAIN chunks[0].allocations
  BY <1>1, <1>2, <1>3 DEF HeldRecorded
<1>6. objs[o].size \in Nat
  <2>1. IsObject(objs[o])
    BY DEF Ownership
  <2>2. PICK s \in Sizes : s = objs[o].size
    BY <2>1 DEF IsObject
  <2>3. s \in Nat
    BY PimManagerAssumption
  <2> QED  BY <2>2, <2>3
<1> QED  BY <1>1, <1>2, <1>3, <1>4, <1>5, <1>6 DEF Ownership, SharesRecorded

\* Two objects have different runs in the first bank.
LEMMA FirstRunsDiffer ==
    ASSUME Ownership, NEW o \in DOMAIN objs, NEW p \in DOMAIN objs, o # p
    PROVE  objs[o].metadata[0] # objs[p].metadata[0]
<1>1. objs[o].metadata # objs[p].metadata
  BY DEF Ownership, OneToOne
<1>2. HeldRecorded
  BY DEF Ownership, Invariant
<1> QED  BY <1>1, <1>2, ObjectFacts DEF HeldRecorded

\* The words of two objects that reside are disjoint.
LEMMA ObjectsApart ==
    ASSUME Ownership, NEW o \in DOMAIN objs, NEW p \in DOMAIN objs, o # p,
           Resides(objs[o]), Resides(objs[p])
    PROVE  WordsFrom(objs[o].metadata[0], objs[o].size)
             \cap WordsFrom(objs[p].metadata[0], objs[p].size) = {}
<1>1. chunks[0] \in Chunk /\ ChunkOK(chunks[0])
  BY PimManagerAssumption, TypeFacts DEF Ownership, Invariant, BookkeepingOK, Chunks
<1> QED  BY <1>1, ObjectFacts, FirstRunsDiffer, WordsApart DEF Resides

\* allocate either leaves the manager as it is and returns nothing, or lends a
\* new vector whose part of the first bank has the share's blocks.
LEMMA AllocateOutcome ==
    ASSUME Invariant, NEW size \in Sizes, NEW v, Allocate(size, v)
    PROVE  /\ v = EmptyVector => UNCHANGED vars
           /\ v # EmptyVector =>
                /\ StopsAfter(size) # {}
                /\ v \notin held /\ held' = held \cup {v}
                /\ v[0] \notin DOMAIN chunks[0].allocations
                /\ \A a \in DOMAIN chunks[0].allocations :
                      chunks'[0].allocations[a] = chunks[0].allocations[a]
                /\ chunks'[0].allocations[v[0]] = Share(size)
           /\ Invariant'
<1>1. CASE AllocateOK(size) /\ v = Granted(size, Wanted(size))
  <2>1. /\ v # EmptyVector /\ 0 \in DOMAIN v
        /\ Lends(chunks[0], chunks'[0], v[0])
        /\ v \notin held /\ held' = held \cup {v}
    <3>1. 0 \in DOMAIN v
      BY <1>1, AllocateEffect
    <3> QED  BY <1>1, <3>1, AllocateEffect
  <2>2. chunks'[0].allocations[v[0]] = Share(size)
    <3>1. PICK k : k = Wanted(size)
      OBVIOUS
    <3>2. k \in 1 .. NrDpus /\ 0 \in Chunks /\ NrDpus \in Nat
      BY <3>1, LoopBounds, PimManagerAssumption DEF Chunks
    <3>3. v[0] = allocate_addr(chunks[0], size_per_chunk(size))
      BY <1>1, <3>1, <3>2 DEF Granted
    <3>4. chunks'[0] = allocate(chunks[0], size_per_chunk(size))
      BY <1>1, <3>1, <3>2 DEF AllocateOK, allocate_chunks
    <3>5. v[0] # NO_ADDR
      <4>1. v[0] \in BlockAddrs
        BY <2>1 DEF Lends
      <4> QED  BY <4>1, AddressBlock DEF NO_ADDR
    <3>6. chunks'[0] = allocate_at(chunks[0], size_per_chunk(size), v[0])
      BY <3>3, <3>4, <3>5 DEF allocate
    <3> QED  BY <3>6 DEF allocate_at, Share
  <2>3. Invariant' /\ StopsAfter(size) # {}
    BY <1>1, AllocateOKInvariant DEF AllocateOK
  <2> QED  BY <2>1, <2>2, <2>3 DEF Lends
<1>2. CASE (AllocateRefused(size) \/ AllocateOvershot(size)) /\ v = EmptyVector
  <2>1. UNCHANGED vars
    BY <1>2, FailedAllocateStutters
  <2> QED  BY <1>2, <2>1, NextInvariant
<1> QED  BY <1>1, <1>2 DEF Allocate

\* A new object, filled: a constructor, or an operation that returns one.
Filled(o, size, v, h) ==
    /\ v # EmptyVector /\ InBank(v, size)
    /\ objs' = Bind(o, [size |-> size, metadata |-> v, data |-> <<o, 0>>, host |-> h])
    /\ mram' = Written(v, size, <<o, 0>>)
    /\ overrun' = (overrun \/ TooLarge(size))

LEMMA FilledKeeps ==
    ASSUME Residence, NEW size \in Sizes, NEW o, NEW v, NEW h, o \notin DOMAIN objs,
           Allocate(size, v), Filled(o, size, v, h), copied' = copied
    PROVE  Residence'
<1> SUFFICES ASSUME ~copied
             PROVE  Ownership' /\ (~overrun => \A p \in DOMAIN objs : Resides(objs[p]))'
  BY DEF Residence
<1>1. Ownership /\ (~overrun => \A p \in DOMAIN objs : Resides(objs[p]))
  BY DEF Residence
<1>2. /\ StopsAfter(size) # {}
      /\ v \notin held /\ held' = held \cup {v}
      /\ v[0] \notin DOMAIN chunks[0].allocations
      /\ \A a \in DOMAIN chunks[0].allocations :
            chunks'[0].allocations[a] = chunks[0].allocations[a]
      /\ chunks'[0].allocations[v[0]] = Share(size)
      /\ Invariant'
  BY <1>1, AllocateOutcome DEF Ownership, Filled
<1>3. PICK obj : obj = [size |-> size, metadata |-> v, data |-> <<o, 0>>, host |-> h]
  OBVIOUS
<1>4. /\ DOMAIN objs' = DOMAIN objs \cup {o} /\ objs'[o] = obj
      /\ \A p \in DOMAIN objs : p # o /\ objs'[p] = objs[p]
  BY <1>3 DEF Filled, Bind
<1>5. obj.size = size /\ obj.metadata = v /\ obj.data = <<o, 0>> /\ IsObject(obj)
  BY <1>2, <1>3 DEF IsObject
<1>6. Ownership'
  <2>1. \A p \in DOMAIN objs' : IsObject(objs'[p])
    BY <1>1, <1>4, <1>5 DEF Ownership
  <2>2. held' = {objs'[p].metadata : p \in DOMAIN objs'}
    BY <1>1, <1>2, <1>4, <1>5 DEF Ownership, OneToOne
  <2>3. \A p \in DOMAIN objs : objs[p].metadata \in held
    BY <1>1, ObjectFacts
  <2>4. \A p, q \in DOMAIN objs' : p # q => objs'[p].metadata # objs'[q].metadata
    BY <1>1, <1>2, <1>4, <1>5, <2>3 DEF Ownership, OneToOne
  <2>5. \A p \in DOMAIN objs' : chunks'[0].allocations[objs'[p].metadata[0]] = Share(objs'[p].size)
    BY <1>1, <1>2, <1>4, <1>5, ObjectFacts
  <2> QED  BY <1>2, <2>1, <2>2, <2>4, <2>5 DEF Ownership, OneToOne, SharesRecorded, IsObject
<1>7. ASSUME ~overrun', NEW p \in DOMAIN objs' PROVE Resides(objs[p])'
  <2>1. ~overrun /\ ~TooLarge(size)
    BY <1>7 DEF Filled
  <2>2. size \in Nat /\ 0 \in Chunks
    BY PimManagerAssumption DEF Chunks
  <2>3. /\ v[0] \in BlockAddrs /\ InBank(v, size)
        /\ v[0] \in DOMAIN chunks'[0].allocations
        /\ mram' = Written(v, size, <<o, 0>>)
    <3>1. TypeOK' /\ HeldRecorded' /\ v \in held'
      BY <1>2 DEF Invariant
    <3>2. v \in Vectors /\ 0 \in DOMAIN v
      BY <3>1, VectorFields DEF TypeOK
    <3> QED  BY <3>1, <3>2, VectorFields DEF HeldRecorded, Filled
  <2>4. /\ \A i \in Chunks : \A w \in WordsFrom(v[0], size) :
              mram'[i][w] = <<<<o, 0>>, i * EachDpu(size) + w - FirstWord(v)>>
        /\ \A i \in Chunks : \A w \in Words \ WordsFrom(v[0], size) : mram'[i][w] = mram[i][w]
    BY <2>2, <2>3, WrittenWords
  <2>5. CASE p = o
    BY <1>4, <1>5, <2>1, <2>3, <2>4, <2>5 DEF Resides
  <2>6. CASE p # o
    <3>1. PICK b : b = objs[p]
      OBVIOUS
    <3>2. p \in DOMAIN objs /\ Resides(b) /\ objs'[p] = b
      BY <1>1, <1>4, <2>1, <2>6, <3>1
    <3>3. /\ b.metadata[0] \in BlockAddrs /\ b.size \in Nat
          /\ b.metadata[0] \in DOMAIN chunks[0].allocations
          /\ chunks[0].allocations[b.metadata[0]] = Share(b.size)
      BY <1>1, <3>1, <3>2, ObjectFacts
    <3>4. b.metadata[0] # v[0] /\ chunks'[0].allocations[b.metadata[0]] = Share(b.size)
      BY <1>2, <3>3
    <3>5. chunks'[0] \in Chunk /\ ChunkOK(chunks'[0])
      BY <1>2, <2>2 DEF Invariant, TypeOK, BookkeepingOK
    <3>6. b.metadata[0] \in DOMAIN chunks'[0].allocations
      <4>1. HeldRecorded' /\ b.metadata \in held' /\ 0 \in DOMAIN b.metadata
        BY <1>1, <1>2, <3>1, <3>2, ObjectFacts DEF Invariant
      <4> QED  BY <4>1 DEF HeldRecorded
    <3>7. WordsFrom(b.metadata[0], b.size) \cap WordsFrom(v[0], size) = {}
      BY <1>2, <2>1, <2>2, <2>3, <3>2, <3>3, <3>4, <3>5, <3>6, WordsApart DEF Resides
    <3>8. WordsFrom(b.metadata[0], b.size) \subseteq Words
      BY <3>2, <3>3, ResidentWords DEF Resides
    <3>9. \A i \in Chunks : \A w \in WordsFrom(b.metadata[0], b.size) :
             mram'[i][w] = <<b.data, i * EachDpu(b.size) + w - FirstWord(b.metadata)>>
      BY <2>4, <3>2, <3>7, <3>8 DEF Resides
    <3>10. ~TooLarge(b.size) /\ InBank(b.metadata, b.size)
      BY <3>2 DEF Resides
    <3> QED  BY <3>2, <3>9, <3>10 DEF Resides
  <2> QED  BY <2>5, <2>6
<1> QED  BY <1>6, <1>7

\* A step that changes nothing but host copies.
LEMMA HostCopiesKeep ==
    ASSUME Residence, UNCHANGED <<vars, mram, copied, overrun>>, DOMAIN objs' = DOMAIN objs,
           \A p \in DOMAIN objs : IsObject(objs[p]) =>
               /\ IsObject(objs'[p]) /\ objs'[p].size = objs[p].size
               /\ objs'[p].metadata = objs[p].metadata /\ objs'[p].data = objs[p].data
    PROVE  Residence'
<1> SUFFICES ASSUME ~copied
             PROVE  Ownership' /\ (~overrun => \A p \in DOMAIN objs : Resides(objs[p]))'
  BY DEF Residence
<1>1. Ownership /\ (~overrun => \A p \in DOMAIN objs : Resides(objs[p]))
  BY DEF Residence
<1>2. \A p \in DOMAIN objs :
         /\ IsObject(objs'[p]) /\ objs'[p].size = objs[p].size
         /\ objs'[p].metadata = objs[p].metadata /\ objs'[p].data = objs[p].data
  BY <1>1 DEF Ownership
<1>3. UNCHANGED <<chunks, allocations, held, mram, overrun>>
  BY DEF vars
<1>4. Invariant'
  BY <1>1, NextInvariant DEF Ownership
<1>5. Ownership'
  BY <1>1, <1>2, <1>3, <1>4 DEF Ownership, OneToOne, SharesRecorded
<1>6. ASSUME ~overrun', NEW p \in DOMAIN objs' PROVE Resides(objs[p])'
  BY <1>1, <1>2, <1>3, <1>6 DEF Resides
<1> QED  BY <1>5, <1>6

LEMMA SyncKeeps ==
    ASSUME Residence, NEW o, Sync(o), UNCHANGED copied
    PROVE  Residence'
<1>1. PICK h : objs' = [objs EXCEPT ![o].host = h]
  BY DEF Sync
<1>2. /\ DOMAIN objs' = DOMAIN objs
      /\ \A p \in DOMAIN objs : objs'[p] = IF p = o THEN [objs[p] EXCEPT !.host = h] ELSE objs[p]
  BY <1>1
<1>3. ASSUME NEW p \in DOMAIN objs, IsObject(objs[p])
      PROVE  /\ IsObject(objs'[p]) /\ objs'[p].size = objs[p].size
             /\ objs'[p].metadata = objs[p].metadata /\ objs'[p].data = objs[p].data
  <2>1. CASE p # o
    BY <1>2, <1>3, <2>1
  <2>2. CASE p = o
    <3>1. PICK b : b = objs[p]
      OBVIOUS
    <3>2. b = [size |-> b.size, metadata |-> b.metadata, data |-> b.data, host |-> b.host]
      BY <1>3, <3>1 DEF IsObject
    <3>3. objs'[p] = [size |-> b.size, metadata |-> b.metadata, data |-> b.data, host |-> h]
      BY <1>2, <2>2, <3>1, <3>2
    <3> QED  BY <1>3, <3>1, <3>3 DEF IsObject
  <2> QED  BY <2>1, <2>2
<1> QED  BY <1>2, <1>3, HostCopiesKeep DEF Sync

\* An operation in place writes the words of its own object only.
LEMMA InPlaceKeeps ==
    ASSUME Residence, NEW o, InPlace(o), UNCHANGED copied
    PROVE  Residence'
<1> SUFFICES ASSUME ~copied
             PROVE  Ownership' /\ (~overrun => \A p \in DOMAIN objs : Resides(objs[p]))'
  BY DEF Residence
<1>1. Ownership /\ (~overrun => \A p \in DOMAIN objs : Resides(objs[p]))
  BY DEF Residence
<1>2. PICK d : /\ objs' = [objs EXCEPT ![o].data = d]
               /\ mram' = Written(objs[o].metadata, objs[o].size, d)
  BY DEF InPlace
<1>3. o \in DOMAIN objs /\ UNCHANGED <<chunks, allocations, held, overrun>> /\ UNCHANGED vars
  BY DEF InPlace, InScope, vars
<1>4. PICK b, c : b = objs[o] /\ c = objs'[o]
  OBVIOUS
<1>5. /\ DOMAIN objs' = DOMAIN objs
      /\ \A p \in DOMAIN objs : p # o => objs'[p] = objs[p]
      /\ c = [b EXCEPT !.data = d]
  BY <1>2, <1>3, <1>4
<1>6. IsObject(b)
  BY <1>1, <1>3, <1>4 DEF Ownership
<1>7. /\ IsObject(c) /\ c.size = b.size /\ c.metadata = b.metadata /\ c.data = d
  <2>1. b = [size |-> b.size, metadata |-> b.metadata, data |-> b.data, host |-> b.host]
    BY <1>6 DEF IsObject
  <2>2. c = [size |-> b.size, metadata |-> b.metadata, data |-> d, host |-> b.host]
    BY <1>5, <2>1
  <2> QED  BY <1>6, <2>2 DEF IsObject
<1>8. Ownership'
  <2>1. \A p \in DOMAIN objs : objs'[p].metadata = objs[p].metadata /\ IsObject(objs'[p])
    BY <1>1, <1>4, <1>5, <1>7 DEF Ownership
  <2>2. Invariant'
    BY <1>1, <1>3, NextInvariant DEF Ownership
  <2>3. \A p \in DOMAIN objs : objs'[p].size = objs[p].size
    BY <1>4, <1>5, <1>7
  <2> QED  BY <1>1, <1>3, <1>5, <2>1, <2>2, <2>3 DEF Ownership, OneToOne, SharesRecorded
<1>9. ASSUME ~overrun', NEW p \in DOMAIN objs' PROVE Resides(objs[p])'
  <2>1. p \in DOMAIN objs /\ Resides(objs[p]) /\ Resides(b)
    BY <1>1, <1>3, <1>4, <1>5, <1>9
  <2>2. b.metadata[0] \in BlockAddrs /\ b.size \in Nat /\ InBank(b.metadata, b.size)
    BY <1>1, <1>3, <1>4, <2>1, ObjectFacts DEF Resides
  <2>3. mram' = Written(b.metadata, b.size, d)
    BY <1>2, <1>4
  <2>4. /\ \A i \in Chunks : \A w \in WordsFrom(b.metadata[0], b.size) :
              mram'[i][w] = <<d, i * EachDpu(b.size) + w - FirstWord(b.metadata)>>
        /\ \A i \in Chunks : \A w \in Words \ WordsFrom(b.metadata[0], b.size) :
              mram'[i][w] = mram[i][w]
    BY <2>2, <2>3, WrittenWords
  <2>5. CASE p = o
    BY <1>3, <1>4, <1>7, <2>1, <2>4, <2>5 DEF Resides
  <2>6. CASE p # o
    <3>1. PICK a : a = objs[p]
      OBVIOUS
    <3>2. WordsFrom(a.metadata[0], a.size) \cap WordsFrom(b.metadata[0], b.size) = {}
      BY <1>1, <1>3, <1>4, <2>1, <2>6, <3>1, ObjectsApart
    <3>3. WordsFrom(a.metadata[0], a.size) \subseteq Words
      BY <1>1, <2>1, <3>1, ObjectFacts, ResidentWords DEF Resides
    <3>4. \A i \in Chunks : \A w \in WordsFrom(a.metadata[0], a.size) :
             mram'[i][w] = <<a.data, i * EachDpu(a.size) + w - FirstWord(a.metadata)>>
      BY <2>1, <2>4, <3>1, <3>2, <3>3 DEF Resides
    <3>5. objs'[p] = a /\ Resides(a)
      BY <1>5, <2>1, <2>6, <3>1
    <3> QED  BY <1>3, <3>4, <3>5 DEF Resides
  <2> QED  BY <2>5, <2>6
<1> QED  BY <1>8, <1>9

\* The destructor gives back the vector of its own object only.
LEMMA DestroyKeeps ==
    ASSUME Residence, NEW o, Destroy(o), UNCHANGED copied
    PROVE  Residence'
<1> SUFFICES ASSUME ~copied
             PROVE  Ownership' /\ (~overrun => \A p \in DOMAIN objs : Resides(objs[p]))'
  BY DEF Residence
<1>1. Ownership /\ (~overrun => \A p \in DOMAIN objs : Resides(objs[p]))
  BY DEF Residence
<1>2. PICK v : v = objs[o].metadata
  OBVIOUS
<1>3. /\ o \in DOMAIN objs /\ v \in held /\ Return(v)
      /\ objs' = [p \in DOMAIN objs \ {o} |-> objs[p]]
      /\ UNCHANGED <<mram, overrun>>
  BY <1>1, <1>2, ObjectFacts DEF Destroy, InScope
<1>4. Deallocate(v) /\ Invariant
  BY <1>1, <1>3 DEF Deallocate, Ownership
<1>5. /\ Invariant' /\ 0 \in DOMAIN v /\ held' = held \ {v}
      /\ TakesBack(chunks[0], chunks'[0], v[0])
  BY <1>3, <1>4, DeallocateInvariant, DeallocateEffect
<1>6. DOMAIN objs' = DOMAIN objs \ {o} /\ \A p \in DOMAIN objs' : objs'[p] = objs[p]
  BY <1>3
<1>7. Ownership'
  <2>1. \A p \in DOMAIN objs' : IsObject(objs'[p])
    BY <1>1, <1>6 DEF Ownership
  <2>2. \A p, q \in DOMAIN objs' : p # q => objs'[p].metadata # objs'[q].metadata
    BY <1>1, <1>6 DEF Ownership, OneToOne
  <2>3. held' = {objs'[p].metadata : p \in DOMAIN objs'}
    BY <1>1, <1>2, <1>3, <1>5, <1>6 DEF Ownership, OneToOne
  <2>4. ASSUME NEW p \in DOMAIN objs'
        PROVE  chunks'[0].allocations[objs'[p].metadata[0]] = Share(objs'[p].size)
    <3>1. PICK a : a = objs[p]
      OBVIOUS
    <3>2. p \in DOMAIN objs /\ p # o /\ objs'[p] = a
      BY <1>3, <1>6, <3>1
    <3>3. /\ a.metadata[0] \in DOMAIN chunks[0].allocations /\ a.metadata[0] # v[0]
          /\ chunks[0].allocations[a.metadata[0]] = Share(a.size)
      BY <1>1, <1>2, <1>3, <3>1, <3>2, ObjectFacts, FirstRunsDiffer
    <3>4. chunks'[0].allocations[a.metadata[0]] = chunks[0].allocations[a.metadata[0]]
      BY <1>5, <3>3 DEF TakesBack
    <3> QED  BY <3>2, <3>3, <3>4
  <2> QED  BY <1>5, <2>1, <2>2, <2>3, <2>4 DEF Ownership, OneToOne, SharesRecorded
<1>8. ASSUME ~overrun', NEW p \in DOMAIN objs' PROVE Resides(objs[p])'
  BY <1>1, <1>3, <1>6, <1>8 DEF Resides
<1> QED  BY <1>7, <1>8
-----------------------------------------------------------------------------
LEMMA InitResidence == PInit => Residence
<1> SUFFICES ASSUME PInit PROVE Residence
  OBVIOUS
<1>1. Invariant
  BY InitInvariant DEF PInit
<1>2. DOMAIN objs = {} /\ held = {}
  BY DEF PInit, Init
<1> QED  BY <1>1, <1>2 DEF Residence, Ownership, OneToOne, SharesRecorded

\* A constructor or an operation that fails ends the process.
LEMMA FailedKeeps ==
    ASSUME Residence, NEW size \in Sizes, Allocate(size, EmptyVector), Crash("metadata"),
           UNCHANGED copied
    PROVE  Residence'
<1>1. CASE copied
  BY <1>1 DEF Residence
<1>2. CASE ~copied
  <2>1. UNCHANGED vars
    BY <1>2, AllocateOutcome DEF Residence, Ownership
  <2> QED  BY <2>1, HostCopiesKeep DEF Crash
<1> QED  BY <1>1, <1>2

LEMMA NextResidence == Residence /\ [PNext]_pvars => Residence'
<1> SUFFICES ASSUME Residence, [PNext]_pvars PROVE Residence'
  OBVIOUS
<1>1. CASE UNCHANGED pvars
  <2>1. UNCHANGED <<vars, objs, mram, copied, overrun>>
    BY <1>1 DEF pvars
  <2> QED  BY <2>1, HostCopiesKeep
<1>2. ASSUME NEW o, NEW size \in Sizes, ConstructList(o, size), UNCHANGED copied
      PROVE  Residence'
  <2>1. PICK v : /\ o \notin DOMAIN objs /\ Allocate(size, v)
                 /\ v = EmptyVector => Crash("metadata")
                 /\ v # EmptyVector => Filled(o, size, v, HostCopy(size, <<o, 0>>))
    BY <1>2 DEF ConstructList, Filled, InScope
  <2> QED  BY <1>2, <2>1, FailedKeeps, FilledKeeps
<1>3. ASSUME NEW r, NEW p, NEW q, Operation(r, p, q), UNCHANGED copied
      PROVE  Residence'
  <2>1. CASE copied
    BY <1>3, <2>1 DEF Residence
  <2>2. CASE ~copied
    <3>1. PICK size : size = objs[p].size
      OBVIOUS
    <3>2. size \in Sizes
      <4>1. IsObject(objs[p])
        BY <1>3, <2>2 DEF Residence, Ownership, Operation, InScope
      <4> QED  BY <3>1, <4>1 DEF IsObject
    <3>3. PICK v : /\ r \notin DOMAIN objs /\ Allocate(size, v)
                   /\ v = EmptyVector => Crash("metadata")
                   /\ v # EmptyVector => Filled(r, size, v, HostCopy(0, <<r, 0>>))
      BY <1>3, <3>1 DEF Operation, Filled, InScope
    <3> QED  BY <1>3, <3>2, <3>3, FailedKeeps, FilledKeeps
  <2> QED  BY <2>1, <2>2
<1>4. ASSUME NEW o, SyncOverruns(o), UNCHANGED copied PROVE Residence'
  BY <1>4, HostCopiesKeep DEF SyncOverruns, Crash
<1>5. ASSUME UnaliasedNext PROVE Residence'
  BY <1>2, <1>3, <1>4, <1>5, SyncKeeps, InPlaceKeeps, DestroyKeeps DEF UnaliasedNext
<1>6. ASSUME NEW o, NEW p, CopyConstruct(o, p) \/ Assign(o, p) PROVE Residence'
  BY <1>6 DEF CopyConstruct, Assign, Residence
<1> QED  BY <1>1, <1>5, <1>6 DEF PNext

\* In every program the invariant holds until an object is copied.
THEOREM ResidenceHolds == PSpec => []Residence
<1> QED  BY InitResidence, NextResidence, PTL DEF PSpec

\* Until an object is copied, the objects in scope and the vectors that the
\* manager has lent correspond one to one.
THEOREM EachHoldsItsOwnHolds == PSpec => []EachHoldsItsOwn
<1>1. Residence => EachHoldsItsOwn
  BY DEF Residence, Ownership, OneToOne, EachHoldsItsOwn
<1> QED  BY <1>1, ResidenceHolds, PTL

\* What an object reads back is its data, up to what the transfers carry.
LEMMA ReadsItsData ==
    ASSUME Ownership, NEW o \in DOMAIN objs, Resides(objs[o]),
           NEW k \in 0 .. Carried(objs[o].size) - 1
    PROVE  /\ k < Transferred(objs[o].size)
           /\ ReadBack(objs[o].metadata, objs[o].size, k) = <<objs[o].data, k>>
<1>1. PICK b, s, e, f : /\ b = objs[o] /\ s = b.size /\ e = EachDpu(s)
                        /\ f = FirstWord(b.metadata)
  OBVIOUS
<1>2. s \in Nat /\ NrDpus \in Nat \ {0} /\ k \in 0 .. Carried(s) - 1
  BY <1>1, ObjectFacts, PimManagerAssumption
<1>3. e \in Nat /\ Carried(s) = NrDpus * e /\ Transferred(s) = Carried(s)
  <2>1. e = s \div NrDpus /\ Transferred(s) = NrDpus * e
    BY <1>1 DEF EachDpu, DIV, Transferred
  <2>2. s = NrDpus * (s \div NrDpus) + (s % NrDpus) /\ s \div NrDpus \in Nat
    BY <1>2
  <2>3. s % NrDpus \in Nat /\ NrDpus * (s \div NrDpus) \in Nat
    BY <1>2, <2>2
  <2>4. s - (s % NrDpus) = NrDpus * (s \div NrDpus)
    BY <1>2, <2>2, <2>3
  <2> QED  BY <2>1, <2>2, <2>4 DEF Carried
<1>3a. NrDpus * e \in Nat /\ k \in Nat /\ k < NrDpus * e
  BY <1>2, <1>3
<1>4. e # 0
  <2>1. SUFFICES ASSUME e = 0 PROVE FALSE
    OBVIOUS
  <2>2. NrDpus * e = 0
    BY <1>2, <2>1
  <2> QED  BY <1>3a, <2>2
<1>5. PICK i, j : i = k \div e /\ j = k % e
  OBVIOUS
<1>6. i \in Nat /\ j \in 0 .. e - 1 /\ k = i * e + j
  <2>1. k \in Nat /\ e \in Nat \ {0}
    BY <1>3, <1>3a, <1>4
  <2>2. k = e * (k \div e) + (k % e) /\ k % e \in 0 .. e - 1 /\ k \div e \in Nat
    BY <2>1
  <2> QED  BY <1>5, <2>1, <2>2
<1>7. i \in Chunks
  <2>1. SUFFICES ASSUME NrDpus <= i PROVE FALSE
    BY <1>2, <1>6 DEF Chunks
  <2>2. NrDpus * e <= i * e
    BY <1>2, <1>3, <1>6, <2>1, TimesMonotone
  <2>3. i * e \in Nat
    BY <1>3, <1>6
  <2> QED  BY <1>3, <1>3a, <1>6, <2>2, <2>3
<1>8. f \in Nat
  BY <1>1, ObjectFacts, AddressBlock, PimDataAssumption DEF FirstWord
<1>9. f + j \in WordsFrom(b.metadata[0], s)
  BY <1>1, <1>3, <1>6, <1>8 DEF WordsFrom, FirstWord
<1>10. mram[i][f + j] = <<b.data, i * e + (f + j) - f>>
  BY <1>1, <1>7, <1>9 DEF Resides
<1>11. i * e + (f + j) - f = k
  <2>1. i * e \in Nat
    BY <1>3, <1>6
  <2> QED  BY <1>6, <1>8, <2>1
<1>12. ReadBack(b.metadata, s, k) = <<b.data, k>>
  BY <1>1, <1>5, <1>10, <1>11 DEF ReadBack
<1> QED  BY <1>1, <1>3, <1>3a, <1>12

\* What sync reads back is the object's data, as far as the transfers carry it,
\* as long as no object was copied and none got fewer bytes than its data take.
THEOREM UnaliasedResidentHolds == PSpec => []UnaliasedResident
<1>1. Residence => UnaliasedResident
  <2> SUFFICES ASSUME Residence, ~copied, ~overrun, NEW o \in DOMAIN objs,
                      NEW k \in 0 .. Carried(objs[o].size) - 1
               PROVE  /\ k < Transferred(objs[o].size)
                      /\ ReadBack(objs[o].metadata, objs[o].size, k) = <<objs[o].data, k>>
    BY DEF UnaliasedResident
  <2>1. Ownership /\ Resides(objs[o])
    BY DEF Residence
  <2> QED  BY <2>1, ReadsItsData
<1> QED  BY <1>1, ResidenceHolds, PTL
-----------------------------------------------------------------------------
(***************************************************************************)
(* As long as every region that is granted has a size the DPUs divide, the *)
(* banks are all alike, and every vector, held or kept by an object, spans *)
(* all of them at one offset.  This needs nothing of who owns what: like   *)
(* banks refuse, grant and take back alike, also what was given back       *)
(* before, so it holds in programs that copy objects too.                  *)
(***************************************************************************)
Shaped(obj) ==
    /\ obj = [size |-> obj.size, metadata |-> obj.metadata, data |-> obj.data, host |-> obj.host]
    /\ obj.size \in Sizes

Spans(v) == DOMAIN v = Chunks /\ \A i \in Chunks : v[i] = v[0]

BanksAlike == \A i \in Chunks : chunks[i] = chunks[0]

VectorsSpan ==
    /\ \A v \in held : Spans(v)
    /\ \A o \in DOMAIN objs : Spans(objs[o].metadata)

InStep ==
    /\ \A o \in DOMAIN objs : Shaped(objs[o])
    /\ ~uneven => BanksAlike /\ VectorsSpan

\* Like banks grant alike, and take back alike what fails.
LEMMA AlikeAllocate ==
    ASSUME BanksAlike, NEW size \in Sizes, NEW v, Allocate(size, v)
    PROVE  \/ /\ v = EmptyVector
              /\ held' = held /\ BanksAlike'
           \/ /\ v # EmptyVector
              /\ held' = held \cup {v}
              /\ size % NrDpus = 0 => BanksAlike' /\ Spans(v)
<1>1. 0 \in Chunks /\ NrDpus \in Nat \ {0} /\ Chunks = 0 .. NrDpus - 1
  BY PimManagerAssumption DEF Chunks
<1>2. \A i \in Chunks : chunks[i] = chunks[0]
  BY DEF BanksAlike
<1>3. CASE AllocateOK(size) /\ v = Granted(size, Wanted(size))
  <2>1. Wanted(size) \in 1 .. NrDpus
    BY LoopBounds
  <2>2. 0 \in DOMAIN v
    BY <1>1, <1>3, <2>1 DEF Granted
  <2>3. v # EmptyVector /\ held' = held \cup {v}
    BY <1>3, <2>2 DEF EmptyVector, AllocateOK
  <2>4. ASSUME size % NrDpus = 0 PROVE BanksAlike' /\ Spans(v)
    <3>1. size # 0
      <4>1. SUFFICES ASSUME size = 0 PROVE FALSE
        OBVIOUS
      <4>2. 0 \in Refusing(size)
        BY <1>1, <2>1, <4>1, NothingIsRefused DEF Refusing
      <4> QED  BY <1>3, <4>2 DEF AllocateOK
    <3>2. Wanted(size) = NrDpus
      BY <2>4, <3>1, EvenSplit
    <3>3. v = Granted(size, NrDpus) /\ chunks' = allocate_chunks(size, NrDpus)
      BY <1>3, <3>2 DEF AllocateOK
    <3>4. DOMAIN v = Chunks
      BY <3>3 DEF Granted, Chunks
    <3>5. \A i \in Chunks : /\ chunks'[i] = allocate(chunks[i], size_per_chunk(size))
                            /\ v[i] = allocate_addr(chunks[i], size_per_chunk(size))
      BY <1>1, <3>3 DEF allocate_chunks, Granted
    <3>6. \A i \in Chunks : chunks'[i] = chunks'[0] /\ v[i] = v[0]
      BY <1>1, <1>2, <3>5
    <3> QED  BY <3>4, <3>6 DEF BanksAlike, Spans
  <2> QED  BY <2>3, <2>4
<1>4. CASE AllocateRefused(size) /\ v = EmptyVector
  <2>1. 0 \in Refusing(size) /\ \A i \in Refusing(size) : 0 <= i
    <3>1. PICK i \in Refusing(size) : TRUE
      BY <1>4 DEF AllocateRefused
    <3>2. i \in Chunks /\ 0 \in 0 .. Wanted(size) - 1
          /\ allocate_addr(chunks[i], size_per_chunk(size)) = NO_ADDR
      BY <1>1, <3>1, LoopBounds DEF Refusing
    <3> QED  BY <1>2, <3>2 DEF Refusing
  <2>2. FirstRefusing(size) = 0
    <3>1. \A i \in Refusing(size) : i \in Nat
      BY LoopBounds DEF Refusing
    <3> QED  BY <2>1, <3>1 DEF FirstRefusing
  <2>3. DOMAIN Granted(size, 0) = {}
    BY DEF Granted
  <2>4. \A i \in Chunks : chunks'[i] = chunks[i]
    BY <1>1, <1>4, <2>2, <2>3 DEF AllocateRefused, Rollback, deallocate_chunks, allocate_chunks
  <2> QED  BY <1>1, <1>2, <1>4, <2>4 DEF BanksAlike, AllocateRefused
<1>5. CASE AllocateOvershot(size) /\ v = EmptyVector
  <2> DEFINE q == size_per_chunk(size)
  <2>1. \A i \in Chunks : chunks'[i] = deallocate(allocate(chunks[i], q), allocate_addr(chunks[i], q))
    <3>1. /\ DOMAIN Granted(size, NrDpus) = Chunks
          /\ \A i \in Chunks : /\ Granted(size, NrDpus)[i] = allocate_addr(chunks[i], q)
                                /\ allocate_chunks(size, NrDpus)[i] = allocate(chunks[i], q)
      BY <1>1 DEF Granted, allocate_chunks
    <3>2. chunks' = deallocate_chunks(allocate_chunks(size, NrDpus), Granted(size, NrDpus))
      BY <1>5 DEF AllocateOvershot, Rollback
    <3> QED  BY <3>1, <3>2 DEF deallocate_chunks
  <2> HIDE DEF q
  <2> QED  BY <1>1, <1>2, <1>5, <2>1 DEF BanksAlike, AllocateOvershot
<1> QED  BY <1>3, <1>4, <1>5 DEF Allocate

LEMMA AlikeReturn ==
    ASSUME BanksAlike, NEW v, Spans(v), Return(v)
    PROVE  BanksAlike'
<1>1. 0 \in Chunks
  BY PimManagerAssumption DEF Chunks
<1>2. \A i \in Chunks : chunks'[i] = deallocate(chunks[i], v[i])
  BY DEF Return, deallocate_chunks, Spans
<1>3. \A i \in Chunks : chunks'[i] = deallocate(chunks[0], v[0])
  BY <1>2 DEF BanksAlike, Spans
<1> QED  BY <1>1, <1>3 DEF BanksAlike

\* A new object, or a failed attempt at one.
LEMMA NewObjectInStep ==
    ASSUME InStep, NEW size \in Sizes, NEW o, NEW v, NEW d, NEW h, Allocate(size, v),
           v = EmptyVector => UNCHANGED <<objs, uneven>>,
           v # EmptyVector =>
               /\ objs' = Bind(o, [size |-> size, metadata |-> v, data |-> d, host |-> h])
               /\ uneven' = (uneven \/ size % NrDpus # 0)
    PROVE  InStep'
<1>1. ASSUME v = EmptyVector PROVE InStep'
  <2>1. \A p \in DOMAIN objs' : Shaped(objs'[p])
    BY <1>1 DEF InStep
  <2>2. ASSUME ~uneven' PROVE (BanksAlike /\ VectorsSpan)'
    <3>1. BanksAlike /\ VectorsSpan
      BY <1>1, <2>2 DEF InStep
    <3>2. held' = held /\ BanksAlike'
      BY <1>1, <3>1, AlikeAllocate
    <3> QED  BY <1>1, <3>1, <3>2 DEF VectorsSpan
  <2> QED  BY <2>1, <2>2 DEF InStep, Shaped
<1>2. ASSUME v # EmptyVector PROVE InStep'
  <2>1. PICK obj : obj = [size |-> size, metadata |-> v, data |-> d, host |-> h]
    OBVIOUS
  <2>2. Shaped(obj) /\ obj.metadata = v
    BY <2>1 DEF Shaped
  <2>3. /\ DOMAIN objs' = DOMAIN objs \cup {o} /\ objs'[o] = obj
        /\ \A p \in DOMAIN objs : p # o => objs'[p] = objs[p]
    BY <1>2, <2>1 DEF Bind
  <2>4. \A p \in DOMAIN objs' : Shaped(objs'[p])
    BY <2>2, <2>3 DEF InStep
  <2>5. ASSUME ~uneven' PROVE (BanksAlike /\ VectorsSpan)'
    <3>1. size % NrDpus = 0 /\ BanksAlike /\ VectorsSpan
      BY <1>2, <2>5 DEF InStep
    <3>2. held' = held \cup {v} /\ BanksAlike' /\ Spans(v)
      BY <1>2, <3>1, AlikeAllocate
    <3>3. \A p \in DOMAIN objs' : Spans(objs'[p].metadata)
      BY <2>2, <2>3, <3>1, <3>2 DEF VectorsSpan
    <3> QED  BY <3>1, <3>2, <3>3 DEF VectorsSpan, Spans
  <2> QED  BY <2>4, <2>5 DEF InStep, Shaped
<1> QED  BY <1>1, <1>2

\* A step after which every object has the vector of an object before it.
LEMMA OldVectorsInStep ==
    ASSUME InStep, UNCHANGED <<vars, uneven>>,
           \A p \in DOMAIN objs' : /\ Shaped(objs'[p])
                                   /\ \E q \in DOMAIN objs : objs'[p].metadata = objs[q].metadata
    PROVE  InStep'
<1>1. UNCHANGED <<chunks, held>>
  BY DEF vars
<1> QED  BY <1>1 DEF InStep, BanksAlike, VectorsSpan, Shaped, Spans

LEMMA NextInStep == InStep /\ [PNext]_pvars => InStep'
<1> SUFFICES ASSUME InStep, [PNext]_pvars PROVE InStep'
  OBVIOUS
<1>1. \A p \in DOMAIN objs : Shaped(objs[p])
  BY DEF InStep
<1>2. ASSUME UNCHANGED <<vars, objs, uneven>> PROVE InStep'
  BY <1>1, <1>2, OldVectorsInStep
<1>3. ASSUME NEW o, NEW size \in Sizes, ConstructList(o, size) PROVE InStep'
  <2>1. PICK v : /\ Allocate(size, v)
                 /\ v = EmptyVector => UNCHANGED <<objs, uneven>>
                 /\ v # EmptyVector =>
                      /\ objs' = Bind(o, [size |-> size, metadata |-> v, data |-> <<o, 0>>,
                                          host |-> HostCopy(size, <<o, 0>>)])
                      /\ uneven' = (uneven \/ size % NrDpus # 0)
    BY <1>3 DEF ConstructList, Crash
  <2> QED  BY <2>1, NewObjectInStep
<1>4. ASSUME NEW r, NEW p, NEW q, Operation(r, p, q) PROVE InStep'
  <2>1. PICK size : size = objs[p].size
    OBVIOUS
  <2>2. size \in Sizes
    BY <1>1, <1>4, <2>1 DEF Operation, InScope, Shaped
  <2>3. PICK v : /\ Allocate(size, v)
                 /\ v = EmptyVector => UNCHANGED <<objs, uneven>>
                 /\ v # EmptyVector =>
                      /\ objs' = Bind(r, [size |-> size, metadata |-> v, data |-> <<r, 0>>,
                                          host |-> HostCopy(0, <<r, 0>>)])
                      /\ uneven' = (uneven \/ size % NrDpus # 0)
    BY <1>4, <2>1 DEF Operation, Crash
  <2> QED  BY <2>2, <2>3, NewObjectInStep
<1>5. ASSUME NEW o, InPlace(o) PROVE InStep'
  <2>1. PICK d : objs' = [objs EXCEPT ![o].data = d]
    BY <1>5 DEF InPlace
  <2>2. ASSUME NEW p \in DOMAIN objs'
        PROVE  Shaped(objs'[p]) /\ objs'[p].metadata = objs[p].metadata
    <3>1. PICK b : b = objs[p]
      OBVIOUS
    <3>2. p \in DOMAIN objs /\ objs'[p] = (IF p = o THEN [b EXCEPT !.data = d] ELSE b)
      BY <2>1, <3>1
    <3>3. Shaped(b)
      BY <1>1, <3>1, <3>2
    <3>4. [b EXCEPT !.data = d]
            = [size |-> b.size, metadata |-> b.metadata, data |-> d, host |-> b.host]
      BY <3>3 DEF Shaped
    <3> QED  BY <3>1, <3>2, <3>3, <3>4 DEF Shaped
  <2> QED  BY <1>5, <2>1, <2>2, OldVectorsInStep DEF InPlace
<1>6. ASSUME NEW o, Sync(o) PROVE InStep'
  <2>1. PICK h : objs' = [objs EXCEPT ![o].host = h]
    BY <1>6 DEF Sync
  <2>2. ASSUME NEW p \in DOMAIN objs'
        PROVE  Shaped(objs'[p]) /\ objs'[p].metadata = objs[p].metadata
    <3>1. PICK b : b = objs[p]
      OBVIOUS
    <3>2. p \in DOMAIN objs /\ objs'[p] = (IF p = o THEN [b EXCEPT !.host = h] ELSE b)
      BY <2>1, <3>1
    <3>3. Shaped(b)
      BY <1>1, <3>1, <3>2
    <3>4. [b EXCEPT !.host = h]
            = [size |-> b.size, metadata |-> b.metadata, data |-> b.data, host |-> h]
      BY <3>3 DEF Shaped
    <3> QED  BY <3>1, <3>2, <3>3, <3>4 DEF Shaped
  <2> QED  BY <1>6, <2>1, <2>2, OldVectorsInStep DEF Sync
<1>7. ASSUME NEW o, SyncOverruns(o) PROVE InStep'
  BY <1>2, <1>7 DEF SyncOverruns, Crash
<1>8. ASSUME NEW o, Destroy(o) PROVE InStep'
  <2>1. PICK v : v = objs[o].metadata
    OBVIOUS
  <2>2. /\ o \in DOMAIN objs /\ Return(v) /\ uneven' = uneven
        /\ objs' = [p \in DOMAIN objs \ {o} |-> objs[p]]
    BY <1>8, <2>1 DEF Destroy, InScope
  <2>3. \A p \in DOMAIN objs' : p \in DOMAIN objs /\ objs'[p] = objs[p]
    BY <2>2
  <2>4. ASSUME ~uneven' PROVE (BanksAlike /\ VectorsSpan)'
    <3>1. BanksAlike /\ VectorsSpan /\ Spans(v)
      BY <2>1, <2>2, <2>4 DEF InStep, VectorsSpan
    <3>2. BanksAlike'
      BY <2>2, <3>1, AlikeReturn
    <3>3. held' = held \ {v}
      BY <2>2 DEF Return
    <3> QED  BY <2>3, <3>1, <3>2, <3>3 DEF VectorsSpan, Spans
  <2> QED  BY <1>1, <2>3, <2>4 DEF InStep, Shaped
<1>9. ASSUME NEW o, NEW p, CopyConstruct(o, p) PROVE InStep'
  <2>1. p \in DOMAIN objs /\ objs' = Bind(o, objs[p]) /\ UNCHANGED <<vars, uneven>>
    BY <1>9 DEF CopyConstruct, InScope
  <2>2. \A q \in DOMAIN objs' : \E r \in DOMAIN objs : objs'[q] = objs[r]
    BY <2>1 DEF Bind
  <2> QED  BY <1>1, <2>1, <2>2, OldVectorsInStep
<1>10. ASSUME NEW o, NEW p, Assign(o, p) PROVE InStep'
  <2>1. PICK b, c : b = objs[o] /\ c = objs[p]
    OBVIOUS
  <2>2. /\ o \in DOMAIN objs /\ p \in DOMAIN objs /\ UNCHANGED <<vars, uneven>>
        /\ objs' = [objs EXCEPT ![o].size = c.size, ![o].metadata = c.metadata,
                                ![o].data = c.data]
    BY <1>10, <2>1 DEF Assign, InScope
  <2>3. Shaped(b) /\ Shaped(c)
    BY <1>1, <2>1, <2>2
  <2>4. /\ DOMAIN objs' = DOMAIN objs
        /\ \A q \in DOMAIN objs : q # o => objs'[q] = objs[q]
        /\ objs'[o] = [b EXCEPT !.size = c.size, !.metadata = c.metadata, !.data = c.data]
    BY <2>1, <2>2
  <2>5. objs'[o] = [size |-> c.size, metadata |-> c.metadata, data |-> c.data, host |-> b.host]
    BY <2>3, <2>4 DEF Shaped
  <2>6. Shaped(objs'[o]) /\ objs'[o].metadata = objs[p].metadata
    BY <2>1, <2>3, <2>5 DEF Shaped
  <2> QED  BY <1>1, <2>2, <2>4, <2>6, OldVectorsInStep
<1>11. CASE UNCHANGED pvars
  BY <1>2, <1>11 DEF pvars
<1> QED  BY <1>3, <1>4, <1>5, <1>6, <1>7, <1>8, <1>9, <1>10, <1>11 DEF PNext, UnaliasedNext

LEMMA InStepHolds == PSpec => []InStep
<1>1. PInit => InStep
  <2>1. 0 \in Chunks
    BY PimManagerAssumption DEF Chunks
  <2> QED  BY <2>1 DEF PInit, Init, InStep, BanksAlike, VectorsSpan
<1> QED  BY <1>1, NextInStep, PTL DEF PSpec

\* Whatever a program does, copies included, offsets and banks differ between
\* DPUs only after a region was granted whose size they do not divide.
THEOREM OffsetsStayInStepHolds == PSpec => []OffsetsStayInStep
<1>1. InStep => OffsetsStayInStep
  BY DEF InStep, OffsetsStayInStep, OffsetsInStep, SameOffset, LockStep, BanksAlike,
         VectorsSpan, Spans
<1> QED  BY <1>1, InStepHolds, PTL

\* The busy blocks of the first bank are the regions of the objects.
LEMMA BusyInRegion ==
    ASSUME Ownership, NEW b \in Blocks, ~chunks[0].free[b]
    PROVE  \E o \in DOMAIN objs : b \in RegionOf(o)
<1>1. /\ 0 \in Chunks /\ BitmapMatches(chunks[0]) /\ HeldRecorded /\ TypeOK
  BY PimManagerAssumption DEF Ownership, Invariant, BookkeepingOK, ChunkOK, Chunks
<1>2. PICK a \in DOMAIN chunks[0].allocations : b \in BlocksOf(chunks[0], a)
  BY <1>1 DEF BitmapMatches
<1>3. PICK v \in held : 0 \in DOMAIN v /\ v[0] = a
  BY <1>1 DEF HeldRecorded
<1>4. PICK o \in DOMAIN objs : objs[o].metadata = v
  BY <1>3 DEF Ownership, OneToOne
<1>5. chunks[0].allocations[a] = Share(objs[o].size)
  BY <1>3, <1>4 DEF Ownership, SharesRecorded
<1>6. b \in RegionOf(o)
  BY <1>2, <1>3, <1>4, <1>5 DEF RegionOf, BlocksOf
<1> QED  BY <1>6

\* A bank with a gap between the objects' regions grants the share.
LEMMA GapIsGranted ==
    ASSUME Ownership, NEW size \in Sizes \ {0}, size % NrDpus = 0, GapFor(size)
    PROVE  allocate_addr(chunks[0], size_per_chunk(size)) # NO_ADDR
<1>1. PICK s \in Blocks :
         /\ s + Share(size) <= TOTAL_BLOCKS
         /\ \A o \in DOMAIN objs : Run(s, Share(size)) \cap RegionOf(o) = {}
  BY DEF GapFor
<1>2. PICK share, n : share = size_per_chunk(size) /\ n = DIVROUNDUP(share, BLOCK_SIZE)
  OBVIOUS
<1>3. n = Share(size)
  BY <1>2 DEF Share
<1>4. share \in Nat \ {0}
  <2>1. size \in Nat \ {0} /\ NrDpus \in Nat \ {0}
    BY PimManagerAssumption
  <2>2. share = (size + NrDpus - 1) \div NrDpus
    BY <1>2 DEF size_per_chunk, DIVROUNDUP
  <2> QED  BY <2>1, <2>2
<1>5. BLOCK_SIZE \in Nat \ {0} /\ TOTAL_BLOCKS \in Nat \ {0} /\ s \in Nat
  BY DpuMemoryAssumption DEF Blocks
<1>6. n \in Nat \ {0} /\ share <= n * BLOCK_SIZE
  BY <1>2, <1>4, <1>5, BlocksNeeded DEF DIVROUNDUP
<1>7. n <= TOTAL_BLOCKS
  BY <1>1, <1>3, <1>5, <1>6
<1>8. ~(share > CHUNK_SIZE)
  <2>1. n * BLOCK_SIZE <= TOTAL_BLOCKS * BLOCK_SIZE
    BY <1>5, <1>6, <1>7, TimesMonotone
  <2>2. n * BLOCK_SIZE \in Nat /\ TOTAL_BLOCKS * BLOCK_SIZE \in Nat
    BY <1>5, <1>6
  <2> QED  BY <1>4, <1>6, <2>1, <2>2 DEF CHUNK_SIZE
<1>9. \A b \in Run(s, n) : b \in Blocks /\ chunks[0].free[b]
  <2> SUFFICES ASSUME NEW b \in Run(s, n) PROVE b \in Blocks /\ chunks[0].free[b]
    OBVIOUS
  <2>1. b \in Blocks
    BY <1>1, <1>3, <1>5, <1>6 DEF Run, Blocks
  <2>2. \A o \in DOMAIN objs : b \notin RegionOf(o)
    BY <1>1, <1>3
  <2> QED  BY <2>1, <2>2, BusyInRegion
<1>10. s \in FreeRuns(chunks[0].free, n)
  BY <1>1, <1>3, <1>6, <1>9 DEF FreeRuns
<1>11. PICK f : f = find_free_blocks(chunks[0].free, n)
  OBVIOUS
<1>12. f \in Blocks
  <2>1. f \in FreeRuns(chunks[0].free, n)
    BY <1>6, <1>10, <1>11, FirstFit
  <2> QED  BY <2>1 DEF FreeRuns
<1>13. f \in Nat /\ f * BLOCK_SIZE \in Nat
  BY <1>5, <1>12 DEF Blocks
<1>14. allocate_addr(chunks[0], share) = f * BLOCK_SIZE
  <2>1. f # NO_ADDR
    BY <1>13 DEF NO_ADDR
  <2> QED  BY <1>2, <1>8, <1>11, <2>1 DEF allocate_addr
<1> QED  BY <1>2, <1>13, <1>14 DEF NO_ADDR

\* As long as no object was copied and the DPUs divide the sizes of all regions
\* granted, a constructor dies on an empty metadata only when no gap between the
\* regions of the objects in scope takes the request: blocks once given back can
\* all be used again.
THEOREM CrashesOnlyWhenFullHolds == PSpec => CrashesOnlyWhenFull
<1> DEFINE A == \A size \in Sizes \ {0} :
                   ~copied /\ ~uneven /\ size % NrDpus = 0 /\ GapFor(size)
                     => \A o \in Names : ConstructList(o, size) => crashed' = "no"
<1>1. Residence /\ InStep /\ [PNext]_pvars => [A]_pvars
  <2> SUFFICES ASSUME Residence, InStep, PNext, NEW size \in Sizes \ {0}, ~copied, ~uneven,
                      size % NrDpus = 0, GapFor(size), NEW o \in Names, ConstructList(o, size)
               PROVE  crashed' = "no"
    OBVIOUS
  <2>1. crashed = "no" /\ Ownership /\ BanksAlike
    BY DEF PNext, Residence, InStep
  <2>2. PICK v : /\ Allocate(size, v)
                 /\ v # EmptyVector => UNCHANGED crashed
    BY DEF ConstructList
  <2>3. SUFFICES ASSUME v = EmptyVector PROVE FALSE
    BY <2>1, <2>2
  <2>4. size \in Nat \ {0} /\ NrDpus \in Nat \ {0}
    BY PimManagerAssumption
  <2>5. Wanted(size) = NrDpus
    BY EvenSplit
  <2>6. StopsAfter(size) # {}
    BY EvenSplit
  <2>7. Refusing(size) = {}
    <3>1. \A i \in Chunks : chunks[i] = chunks[0]
      BY <2>1 DEF BanksAlike
    <3>2. allocate_addr(chunks[0], size_per_chunk(size)) # NO_ADDR
      BY <2>1, GapIsGranted
    <3> QED  BY <2>5, <3>1, <3>2 DEF Refusing, Chunks
  <2>8. AllocateOK(size) /\ v = Granted(size, Wanted(size))
    BY <2>2, <2>6, <2>7 DEF Allocate, AllocateRefused, AllocateOvershot
  <2>9. 0 \in DOMAIN v
    BY <2>4, <2>5, <2>8 DEF Granted
  <2> QED  BY <2>3, <2>9 DEF EmptyVector
<1> QED  BY <1>1, ResidenceHolds, InStepHolds, PTL DEF PSpec, CrashesOnlyWhenFull
=============================================================================
