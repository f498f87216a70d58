----------------------------- MODULE XAllocator -----------------------------
(***************************************************************************)
(* The fixed-block allocator: xmalloc, xfree and xrealloc round a request up *)
(* to a block size and serve it from an Allocator of that size, found in a  *)
(* table of at most MAX_ALLOCATORS of them; one mutex guards the table and  *)
(* the allocators.  A block's first word holds the Allocator it came from   *)
(* while a client has it, and the link of the free list while nobody does.  *)
(*                                                                          *)
(* Both builds are modelled.  Without STATIC_POOLS an Allocator takes its   *)
(* blocks from the heap and is made when its size is first asked for; with  *)
(* it the table is full from the start and each Allocator has a pool of     *)
(* MaxBlocks.  Assertions are compiled out, as in a release build.  A block *)
(* is named by its allocator and its number there.                          *)
(***************************************************************************)
EXTENDS Integers, Sequences, FiniteSets, Functions

CONSTANTS Threads, NoOne,
          Sizes,         \* the sizes callers ask for
          PoolSizes,     \* the block sizes of the static pools
          MaxAllocators, \* MAX_ALLOCATORS
          MaxBlocks,     \* MAX_BLOCKS, the blocks of a static pool
          PointerSize,   \* sizeof(Allocator*)
          MaxCalls       \* bound: calls made in one behaviour

ASSUME ThreadsAssumption == IsFiniteSet(Threads) /\ NoOne \notin Threads
ASSUME SizesAssumption == Sizes \subseteq Nat \ {0}
ASSUME PoolSizesAssumption == PoolSizes \in Seq(Nat)
ASSUME BoundsAssumption ==
    /\ MaxAllocators \in Nat \ {0}
    /\ Len(PoolSizes) <= MaxAllocators
    /\ MaxBlocks \in Nat
    /\ PointerSize \in Nat
    /\ MaxCalls \in Nat

\* Every call makes at most one Allocator and one block, and a pool has no
\* more than MaxBlocks.
Ids == 1..(Len(PoolSizes) + MaxCalls)
Numbers == 1..(IF MaxBlocks < MaxCalls THEN MaxCalls ELSE MaxBlocks)
Blocks == Ids \X Numbers
Null == <<0, 0>>

Link == 0      \* a first word that is a link of a free list
Tags == 0..MaxCalls

VARIABLES static,    \* built with STATIC_POOLS
          created,   \* allocators made so far; their ids are 1..created
          blockSize, \* m_blockSize of each
          free,      \* the list that starts at m_pHead
          made,      \* m_blockCnt, or m_poolIndex of a pool
          inUse,     \* m_blocksInUse
          listed,    \* _allocators, up to its first null entry
          word0,     \* the first word of each block
          data,      \* what the rest of each block holds
          size,      \* ghost: what the owner of each block asked for
          live,      \* ghost: the blocks clients have
          mutex, pc, op,
          crashed,   \* the program wrote or called through a null pointer
          calls

vars == <<static, created, blockSize, free, made, inUse, listed, word0, data,
          size, live, mutex, pc, op, crashed, calls>>

allocators == <<created, blockSize, free, made, inUse, listed>>
client == <<data, size, live>>

TwoTo[e \in Nat] == IF e = 0 THEN 1 ELSE 2 * TwoTo[e - 1]

\* nexthigher: the least power of two that is not below k.
NextHigher(k) == TwoTo[CHOOSE e \in 0..k : TwoTo[e] >= k /\ TwoTo[e] < 2 * k]

\* Mutant: one comparison reaches too far.
BlockSizeFor_too_small(s) ==
    LET need == s + PointerSize IN
    IF need > 256 /\ need <= 512 THEN 396
    ELSE IF need > 512 /\ need <= 768 THEN 768
    ELSE NextHigher(need)

\* The block size for a request: the next power of two, or one of two sizes
\* in between.
BlockSizeFor(s) ==
    LET need == s + PointerSize IN
    IF need > 256 /\ need <= 396 THEN 396
    ELSE IF need > 512 /\ need <= 768 THEN 768
    ELSE NextHigher(need)

\* find_allocator: the first of the table with that block size.
Matching(bs) == {i \in 1..Len(listed) : blockSize[listed[i]] = bs}

First(S) == CHOOSE i \in S : \A j \in S : i <= j

NoOp == [size |-> 0, tag |-> 0, old |-> Null, alloc |-> 0, block |-> Null]

Init ==
    /\ static \in BOOLEAN
    /\ created = IF static THEN Len(PoolSizes) ELSE 0
    /\ blockSize = [a \in Ids |-> IF a <= created THEN PoolSizes[a] ELSE 0]
    /\ listed = [i \in 1..created |-> i]
    /\ free = [a \in Ids |-> <<>>]
    /\ made = [a \in Ids |-> 0]
    /\ inUse = [a \in Ids |-> 0]
    /\ word0 = [b \in Blocks |-> Link]
    /\ data = [b \in Blocks |-> [tag |-> 0, valid |-> 0]]
    /\ size = [b \in Blocks |-> 0]
    /\ live = {}
    /\ mutex = NoOne
    /\ pc = [t \in Threads |-> "idle"]
    /\ op = [t \in Threads |-> NoOp]
    /\ crashed = FALSE
    /\ calls = 0
-----------------------------------------------------------------------------
Goto(t, l) == pc' = [pc EXCEPT ![t] = l]
Smaller(m, n) == IF m < n THEN m ELSE n

\* Blocks some thread is handing back or copying out of.
Busy == {op[t].old : t \in {u \in Threads : pc[u] # "idle"}}

Call(t, l, o) ==
    /\ ~crashed
    /\ calls < MaxCalls
    /\ calls' = calls + 1
    /\ pc[t] = "idle"
    /\ Goto(t, l)
    /\ op' = [op EXCEPT ![t] = o]
    /\ UNCHANGED <<static, allocators, word0, client, mutex, crashed>>

\* xmalloc(s), or xrealloc of a null pointer.
Malloc(t, s) == Call(t, "find", [NoOp EXCEPT !.size = s, !.tag = calls + 1])

\* xfree, or xrealloc to size 0, of a block any thread allocated.
Free(t, b) == b \notin Busy /\ Call(t, "readHeader", [NoOp EXCEPT !.old = b])

\* xrealloc of a block to another size.
Realloc(t, b, s) ==
    b \notin Busy /\ Call(t, "find", [NoOp EXCEPT !.size = s, !.old = b])

\* xmalloc takes the mutex and looks for the allocator of its block size.
\* A static build without one goes on with a null pointer; the other makes
\* one, which stays out of the table when the table is full.
FindAllocator(t) ==
    /\ ~crashed
    /\ pc[t] = "find"
    /\ mutex = NoOne
    /\ mutex' = t
    /\ LET bs == BlockSizeFor(op[t].size)
           Go(a) == Goto(t, "allocate") /\ op' = [op EXCEPT ![t].alloc = a]
       IN  \/ /\ Matching(bs) # {}
              /\ Go(listed[First(Matching(bs))])
              /\ UNCHANGED <<allocators, crashed>>
           \/ /\ Matching(bs) = {} /\ static
              /\ crashed' = TRUE
              /\ UNCHANGED <<allocators, pc, op>>
           \/ /\ Matching(bs) = {} /\ ~static
              /\ created' = created + 1
              /\ blockSize' = [blockSize EXCEPT ![created + 1] = bs]
              /\ listed' = IF Len(listed) < MaxAllocators
                           THEN Append(listed, created + 1) ELSE listed
              /\ Go(created + 1)
              /\ UNCHANGED <<free, made, inUse, crashed>>
    /\ UNCHANGED <<static, word0, client, calls>>

Count(a) == inUse' = [inUse EXCEPT ![a] = @ + 1]

TakeBlock(t, b) ==
    /\ Count(op[t].alloc)
    /\ op' = [op EXCEPT ![t].block = b]
    /\ Goto(t, "header")
    /\ UNCHANGED mutex

\* Mutant: Pop leaves the head in place.
AllocateFree_kept(t) ==
    LET a == op[t].alloc IN
    /\ free[a] # <<>>
    /\ TakeBlock(t, Head(free[a]))
    /\ UNCHANGED <<free, made>>

\* Allocator::Allocate pops the free list; when that is empty ...
AllocateFree(t) ==
    LET a == op[t].alloc IN
    /\ free[a] # <<>>
    /\ TakeBlock(t, Head(free[a]))
    /\ free' = [free EXCEPT ![a] = Tail(@)]
    /\ UNCHANGED made

\* ... it takes a new block, from the heap or from the rest of its pool; ...
AllocateNew(t) ==
    LET a == op[t].alloc IN
    /\ free[a] = <<>>
    /\ static => made[a] < MaxBlocks
    /\ TakeBlock(t, <<a, made[a] + 1>>)
    /\ made' = [made EXCEPT ![a] = @ + 1]
    /\ UNCHANGED free

\* Mutant: the pool is given up with a block left in it.
AllocateNone_early(t) ==
    LET a == op[t].alloc IN
    /\ free[a] = <<>>
    /\ static /\ made[a] + 1 >= MaxBlocks
    /\ TakeBlock(t, Null)
    /\ UNCHANGED <<free, made>>

\* Mutant: the exception leaves the mutex locked.
AllocateNone_locked(t) ==
    LET a == op[t].alloc IN
    /\ free[a] = <<>>
    /\ static /\ made[a] >= MaxBlocks
    /\ Goto(t, "idle") /\ op' = [op EXCEPT ![t] = NoOp]
    /\ UNCHANGED <<free, made, mutex, inUse>>

\* ... and when the pool is used up it calls the new-handler, which throws, so
\* that the call ends there, or returns, so that a null block is counted.
AllocateNone(t) ==
    LET a == op[t].alloc IN
    /\ free[a] = <<>>
    /\ static /\ made[a] >= MaxBlocks
    /\ \/ TakeBlock(t, Null)
       \/ /\ Goto(t, "idle") /\ op' = [op EXCEPT ![t] = NoOp]
          /\ mutex' = NoOne
          /\ UNCHANGED inUse
    /\ UNCHANGED <<free, made>>

Allocate(t) ==
    /\ ~crashed
    /\ pc[t] = "allocate"
    /\ AllocateFree(t) \/ AllocateNew(t) \/ AllocateNone(t)
    /\ UNCHANGED <<static, created, blockSize, listed, word0, client, crashed,
                   calls>>

\* set_block_allocator writes the first word, through a null pointer if that
\* is what it got, and xmalloc returns: the caller fills its new object, or
\* xrealloc goes on.
SetHeader(t) ==
    LET b == op[t].block IN
    /\ ~crashed
    /\ pc[t] = "header"
    /\ IF b = Null
       THEN crashed' = TRUE /\ UNCHANGED <<word0, client, mutex, pc, op>>
       ELSE /\ word0' = [word0 EXCEPT ![b] = op[t].alloc]
            /\ mutex' = NoOne
            /\ size' = [size EXCEPT ![b] = op[t].size]
            /\ IF op[t].old = Null
               THEN /\ live' = live \union {b}
                    /\ data' = [data EXCEPT ![b] =
                                  [tag |-> op[t].tag, valid |-> op[t].size]]
                    /\ Goto(t, "idle") /\ op' = [op EXCEPT ![t] = NoOp]
               ELSE /\ Goto(t, "copy")
                    /\ UNCHANGED <<live, data, op>>
            /\ UNCHANGED crashed
    /\ UNCHANGED <<static, allocators, calls>>

\* Mutant: the new size is copied, however small the old block is.
CopyOver_unbounded(t) ==
    LET b == op[t].block
        old == op[t].old
    IN
    /\ ~crashed
    /\ pc[t] = "copy"
    /\ data' = [data EXCEPT ![b] =
                  [tag |-> data[old].tag, valid |-> op[t].size]]
    /\ live' = live \union {b}
    /\ Goto(t, "readHeader")
    /\ UNCHANGED <<static, allocators, word0, size, mutex, op, crashed, calls>>

\* xrealloc's memcpy of as much of the old block as both blocks hold.
CopyOver(t) ==
    LET b == op[t].block
        old == op[t].old
        oldSize == blockSize[word0[old]] - PointerSize
    IN
    /\ ~crashed
    /\ pc[t] = "copy"
    /\ data' = [data EXCEPT ![b] =
                  [tag |-> data[old].tag,
                   valid |-> Smaller(data[old].valid,
                                     Smaller(oldSize, op[t].size))]]
    /\ live' = live \union {b}
    /\ Goto(t, "readHeader")
    /\ UNCHANGED <<static, allocators, word0, size, mutex, op, crashed, calls>>

\* xfree reads the first word before it takes the mutex ...
ReadHeader(t) ==
    /\ ~crashed
    /\ pc[t] = "readHeader"
    /\ op' = [op EXCEPT ![t].alloc = word0[op[t].old]]
    /\ Goto(t, "push")
    /\ UNCHANGED <<static, allocators, word0, client, mutex, crashed, calls>>

\* Mutant: a block given back is still counted.
Push_uncounted(t) ==
    LET a == op[t].alloc
        b == op[t].old
    IN
    /\ ~crashed
    /\ pc[t] = "push"
    /\ mutex = NoOne
    /\ free' = [free EXCEPT ![a] = <<b>> \o @]
    /\ word0' = [word0 EXCEPT ![b] = Link]
    /\ live' = live \ {b}
    /\ Goto(t, "idle") /\ op' = [op EXCEPT ![t] = NoOp]
    /\ UNCHANGED <<static, created, blockSize, made, inUse, listed, data, size,
                   mutex, crashed, calls>>

\* ... and under it links the block into that allocator's free list.
Push(t) ==
    LET a == op[t].alloc
        b == op[t].old
    IN
    /\ ~crashed
    /\ pc[t] = "push"
    /\ mutex = NoOne
    /\ free' = [free EXCEPT ![a] = <<b>> \o @]
    /\ word0' = [word0 EXCEPT ![b] = Link]
    /\ inUse' = [inUse EXCEPT ![a] = @ - 1]
    /\ live' = live \ {b}
    /\ Goto(t, "idle") /\ op' = [op EXCEPT ![t] = NoOp]
    /\ UNCHANGED <<static, created, blockSize, made, listed, data, size, mutex,
                   crashed, calls>>

\* xalloc_destroy, when the last static XallocInitDestroy goes: the listed
\* allocators and the blocks in their free lists are deleted.
Destroy ==
    /\ ~crashed
    /\ \A t \in Threads : pc[t] = "idle"
    /\ live = {}
    /\ calls < MaxCalls
    /\ calls' = calls + 1
    /\ free' = [a \in Ids |-> IF a \in Range(listed) THEN <<>> ELSE free[a]]
    /\ listed' = <<>>
    /\ UNCHANGED <<static, created, blockSize, made, inUse, word0, client,
                   mutex, pc, op, crashed>>

Step(t) ==
    \/ FindAllocator(t)
    \/ Allocate(t)
    \/ SetHeader(t)
    \/ CopyOver(t)
    \/ ReadHeader(t)
    \/ Push(t)

Next ==
    \/ \E t \in Threads : Step(t)
    \/ \E t \in Threads, s \in Sizes : Malloc(t, s)
    \/ \E t \in Threads, b \in live : Free(t, b)
    \/ \E t \in Threads, b \in live, s \in Sizes : Realloc(t, b, s)
    \/ Destroy

\* A thread inside a call goes on; the mutex is never held for ever and the
\* calls are bounded, so weak fairness lets each waiting thread in.
Spec == Init /\ [][Next]_vars /\ \A t \in Threads : WF_vars(Step(t))
-----------------------------------------------------------------------------
\* The blocks an allocator has given out: those clients have, and the one a
\* thread inside xmalloc or xrealloc is about to hand over.
InFlight == {op[t].block : t \in {u \in Threads : pc[u] \in {"header", "copy"}}}
             \ {Null}
Given == live \union InFlight

Listed == Range(listed)

\* A free list is a list: no block is on it twice, none is in a client's
\* hands, and each was made by the allocator whose list it is
\* (Allocator::Push and Pop, with the links kept inside the blocks).
FreeListsSound ==
    \A a \in Ids :
        /\ IsInjective(free[a])
        /\ Range(free[a]) \intersect Given = {}
        /\ Range(free[a]) \subseteq {a} \X (1..made[a])

\* m_blocksInUse of an allocator is the number of its blocks that are given
\* out, and m_blockCnt (m_poolIndex of a pool) is what is given out and what
\* is on the free list: no block is lost, except the null ones counted when a
\* pool is used up.
CountsRight ==
    \A a \in Ids :
        /\ inUse[a] =
             Cardinality({b \in Given : b[1] = a})
             + Cardinality({t \in Threads : pc[t] = "header"
                                  /\ op[t].alloc = a /\ op[t].block = Null})
        /\ a \in Listed =>
             made[a] = Len(free[a]) + Cardinality({b \in Given : b[1] = a})

\* The first word of every block a client has names the allocator it came
\* from, and the block is as large as the client asked for with that word in
\* front: what xfree and xrealloc take on trust.
HeaderNamesOwner ==
    \A b \in live : /\ word0[b] = b[1]
                    /\ size[b] + PointerSize <= blockSize[b[1]]

\* The program only dies at a limit of the static pools: a pool used up with a
\* new-handler that returns, or a size (or a table) without a pool.
CrashesOnlyAtPoolLimit ==
    crashed => /\ static
               /\ \E t \in Threads :
                    \/ pc[t] = "find" /\ Matching(BlockSizeFor(op[t].size)) = {}
                    \/ pc[t] = "header" /\ made[op[t].alloc] = MaxBlocks

\* Every call returns, unless the program dies.
EveryCallReturns ==
    \A t \in Threads : pc[t] # "idle" ~> (pc[t] = "idle" \/ crashed)

Objects ==
    {[block |-> b, size |-> size[b], tag |-> data[b].tag,
      valid |-> data[b].valid] : b \in live}

\* The allocator is the heap its callers think it is (ClientHeap).
Heap == INSTANCE ClientHeap WITH objects <- Objects
ImplementsClientHeap == Heap!Spec
=============================================================================
