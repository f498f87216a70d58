------------------------------ MODULE DpuMemory ------------------------------
(***************************************************************************)
(* The bookkeeping of one DPU's 64 MB MRAM bank: class DpuMemory of        *)
(* src/core/include/pim/DpuMemory.h.  A bank (a "chunk") is a record       *)
(*   free        block number -> is the block free?                        *)
(*   allocations address of an allocation -> how many blocks it spans      *)
(* and every method of the class is an operator on such records.  The      *)
(* class keeps no other state and takes no lock.                           *)
(***************************************************************************)
EXTENDS Integers

CONSTANTS
    BLOCK_SIZE,     \* bytes in a block (4 KB in the code)
    TOTAL_BLOCKS    \* blocks in a bank (16384 in the code)

ASSUME DpuMemoryAssumption ==
    /\ BLOCK_SIZE \in Nat \ {0}
    /\ TOTAL_BLOCKS \in Nat \ {0}

CHUNK_SIZE == TOTAL_BLOCKS * BLOCK_SIZE

Blocks == 0 .. TOTAL_BLOCKS - 1

\* The addresses a bank hands out: the first byte of each block.
BlockAddrs == {b * BLOCK_SIZE : b \in Blocks}

NO_ADDR == -1

DIVROUNDUP(x, y) == (x + y - 1) \div y

DIV(x, y) == x \div y

\* The n blocks from block s on.
Run(s, n) == s .. s + n - 1

Chunk == [free        : [Blocks -> BOOLEAN],
          allocations : UNION {[as -> 1 .. TOTAL_BLOCKS] : as \in SUBSET BlockAddrs}]

NewChunk == [free        |-> [b \in Blocks |-> TRUE],
             allocations |-> [a \in {} |-> 0]]

(***************************************************************************)
(* The blocks at which n consecutive free blocks start.  The loop of       *)
(* find_free_blocks compares its counter with n only after counting a free *)
(* block, so a request for zero blocks finds none.                         *)
(***************************************************************************)
FreeRuns(free, n) ==
    {s \in Blocks : n > 0 /\ s + n <= TOTAL_BLOCKS /\ \A b \in Run(s, n) : free[b]}

\* First fit (module FindFreeBlocks shows that the code's loop computes it).
find_free_blocks(free, n) ==
    IF FreeRuns(free, n) = {}
    THEN NO_ADDR
    ELSE CHOOSE s \in FreeRuns(free, n) : \A t \in FreeRuns(free, n) : s <= t

\* Mutant: forgets the last block of the run.
mark_blocks_short(free, start, n, bit) ==
    [b \in Blocks |-> IF b \in Run(start, n - 1) THEN bit ELSE free[b]]

mark_blocks(free, start, n, bit) ==
    [b \in Blocks |-> IF b \in Run(start, n) THEN bit ELSE free[b]]

\* What allocate(size) returns: the address of the run, or -1.
allocate_addr(c, size) ==
    LET start == find_free_blocks(c.free, DIVROUNDUP(size, BLOCK_SIZE))
    IN  IF size > CHUNK_SIZE \/ start = NO_ADDR THEN NO_ADDR ELSE start * BLOCK_SIZE

\* What allocate(size) leaves behind when it returns addr # -1.
allocate_at(c, size, addr) ==
    LET n == DIVROUNDUP(size, BLOCK_SIZE)
    IN  [free        |-> mark_blocks(c.free, DIV(addr, BLOCK_SIZE), n, FALSE),
         allocations |-> [a \in DOMAIN c.allocations \cup {addr} |->
                            IF a = addr THEN n ELSE c.allocations[a]]]

allocate(c, size) ==
    LET addr == allocate_addr(c, size)
    IN  IF addr = NO_ADDR THEN c ELSE allocate_at(c, size, addr)

\* Mutant: gives back one block, whatever the allocation spans.
deallocate_one_block(c, addr) ==
    IF addr \in DOMAIN c.allocations
    THEN [free        |-> mark_blocks(c.free, DIV(addr, BLOCK_SIZE), 1, TRUE),
          allocations |-> [a \in DOMAIN c.allocations \ {addr} |-> c.allocations[a]]]
    ELSE c

\* An unknown address only prints a message.
deallocate(c, addr) ==
    IF addr \in DOMAIN c.allocations
    THEN [free        |-> mark_blocks(c.free, DIV(addr, BLOCK_SIZE), c.allocations[addr], TRUE),
          allocations |-> [a \in DOMAIN c.allocations \ {addr} |-> c.allocations[a]]]
    ELSE c

-----------------------------------------------------------------------------
\* The blocks the allocation recorded at addr covers.
BlocksOf(c, addr) == Run(DIV(addr, BLOCK_SIZE), c.allocations[addr])

(***************************************************************************)
(* What makes one bank's bookkeeping right.                                *)
(***************************************************************************)
RunsInRange(c) ==
    \A a \in DOMAIN c.allocations : BlocksOf(c, a) \subseteq Blocks

RunsDisjoint(c) ==
    \A a1, a2 \in DOMAIN c.allocations :
        a1 # a2 => BlocksOf(c, a1) \cap BlocksOf(c, a2) = {}

\* A block is marked busy exactly when some recorded allocation covers it.
BitmapMatches(c) ==
    \A b \in Blocks :
        ~c.free[b] <=> \E a \in DOMAIN c.allocations : b \in BlocksOf(c, a)

ChunkOK(c) == RunsInRange(c) /\ RunsDisjoint(c) /\ BitmapMatches(c)
=============================================================================
