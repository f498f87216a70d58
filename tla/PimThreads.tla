----------------------------- MODULE PimThreads -----------------------------
(***************************************************************************)
(* PimData objects that are built and destroyed by several threads: the    *)
(* OpenMP regions of dcrtpoly-impl.h construct a NativeVectorT, and with   *)
(* it a PimData, in every iteration.  Each thread gets the manager,        *)
(* allocates one region, copies its data in, and later frees the region.   *)
(* Only getPim takes a lock.  One step reads or writes one of the          *)
(* manager's containers once.                                              *)
(*                                                                         *)
(* Every request here takes one block of each bank (RequestAssumption), so *)
(* the contents of a bank are one value per block: the thread that wrote   *)
(* it last.                                                                *)
(***************************************************************************)
EXTENDS DpuMemory, FiniteSets, Sequences

CONSTANTS
    Threads,
    NrDpusAsked,    \* thread -> the argument it passes to getPim (4 or 1 in PimData)
    ElementCount,   \* elements in a PimData (4 in NativeVectorT)
    Nobody

ASSUME ThreadsAssumption ==
    /\ Nobody \notin Threads
    /\ NrDpusAsked \in [Threads -> Nat \ {0}]

\* Each share is between one byte and one block, no bank can be exhausted by
\* one region for each thread, and every argument of getPim divides the size.
ASSUME RequestAssumption ==
    /\ IsFiniteSet(Threads)
    /\ Cardinality(Threads) <= TOTAL_BLOCKS
    /\ ElementCount \in 1 .. BLOCK_SIZE
    /\ \A t \in Threads : ElementCount % NrDpusAsked[t] = 0

VARIABLES
    mutex,          \* the thread holding PimManager::mutex_, or Nobody
    pim,            \* has PimManager::pim been assigned?
    managers,       \* how many PimManagers have been constructed
    nr_dpus,        \* of the manager
    chunks,         \* sequence of the manager's banks
    allocations,    \* the manager's table: first address -> vector
    mram,           \* what each bank's blocks hold
    pc,             \* thread -> what it does next
    bank,           \* thread -> index of the bank it is working on
    start,          \* thread -> the block find_free_blocks returned last
    metadata        \* thread -> the addresses of its region, bank by bank

singleton == <<mutex, pim, managers, nr_dpus>>
locals == <<bank, start, metadata>>
vars == <<singleton, chunks, allocations, mram, pc, locals>>

Init ==
    /\ mutex = Nobody /\ pim = FALSE /\ managers = 0 /\ nr_dpus = 0
    /\ chunks = <<>> /\ allocations = [a \in {} |-> <<>>] /\ mram = <<>>
    /\ pc = [t \in Threads |-> "getPim"]
    /\ bank = [t \in Threads |-> 1]
    /\ start = [t \in Threads |-> NO_ADDR]
    /\ metadata = [t \in Threads |-> <<>>]

Goto(t, from, to) == pc[t] = from /\ pc' = [pc EXCEPT ![t] = to]

\* The loops over the banks: to the next bank, or out of the loop.
NextBank(t, head, exit) ==
    /\ bank' = [bank EXCEPT ![t] = IF @ = nr_dpus THEN 1 ELSE @ + 1]
    /\ pc' = [pc EXCEPT ![t] = IF bank[t] = nr_dpus THEN exit ELSE head]
-----------------------------------------------------------------------------
(***************************************************************************)
(* getPim and, for the first caller, the constructor it runs under the     *)
(* lock, which adds the banks one by one.                                  *)
(***************************************************************************)
\* Mutant: the lock_guard is missing.
Lock_missing(t) ==
    /\ Goto(t, "getPim", "test")
    /\ UNCHANGED <<singleton, chunks, allocations, mram, locals>>

Lock(t) ==
    /\ mutex = Nobody
    /\ Goto(t, "getPim", "test")
    /\ mutex' = t
    /\ UNCHANGED <<pim, managers, nr_dpus, chunks, allocations, mram, locals>>

NewManager(t) ==
    /\ ~pim
    /\ Goto(t, "test", "push_back")
    /\ managers' = managers + 1
    /\ nr_dpus' = NrDpusAsked[t]
    /\ UNCHANGED <<mutex, pim, chunks, allocations, mram, locals>>

PushChunk(t) ==
    LET last == Len(chunks) + 1 >= nr_dpus
    IN  /\ pc[t] = "push_back"
        /\ chunks' = Append(chunks, NewChunk)
        /\ mram' = Append(mram, [b \in Blocks |-> Nobody])
        /\ pim' = last
        /\ pc' = [pc EXCEPT ![t] = IF last THEN "unlock" ELSE "push_back"]
        /\ UNCHANGED <<mutex, managers, nr_dpus, allocations, locals>>

AlreadyThere(t) ==
    /\ pim
    /\ Goto(t, "test", "unlock")
    /\ UNCHANGED <<singleton, chunks, allocations, mram, locals>>

\* Mutant: the lock is never released.
Unlock_missing(t) ==
    /\ Goto(t, "unlock", "find")
    /\ UNCHANGED <<singleton, chunks, allocations, mram, locals>>

Unlock(t) ==
    /\ Goto(t, "unlock", "find")
    /\ mutex' = Nobody
    /\ UNCHANGED <<pim, managers, nr_dpus, chunks, allocations, mram, locals>>

-----------------------------------------------------------------------------
(***************************************************************************)
(* PimManager::allocate, one bank after the other, without a lock.         *)
(***************************************************************************)
Find(t) ==
    /\ Goto(t, "find", "mark")
    /\ start' = [start EXCEPT ![t] = find_free_blocks(chunks[bank[t]].free, 1)]
    /\ UNCHANGED <<singleton, chunks, allocations, mram, bank, metadata>>

Mark(t) ==
    /\ Goto(t, "mark", "record")
    /\ chunks' = [chunks EXCEPT ![bank[t]].free = mark_blocks(@, start[t], 1, FALSE)]
    /\ UNCHANGED <<singleton, allocations, mram, locals>>

Record(t) ==
    LET addr == start[t] * BLOCK_SIZE
    IN  /\ pc[t] = "record"
        /\ chunks' = [chunks EXCEPT ![bank[t]].allocations =
                        [a \in DOMAIN @ \cup {addr} |-> 1]]
        /\ metadata' = [metadata EXCEPT ![t] = Append(@, addr)]
        /\ NextBank(t, "find", "table")
        /\ UNCHANGED <<singleton, allocations, mram, start>>

EnterInTable(t) ==
    /\ Goto(t, "table", "copy")
    /\ allocations' = [a \in DOMAIN allocations \cup {metadata[t][1]} |->
                         IF a = metadata[t][1] THEN metadata[t] ELSE allocations[a]]
    /\ UNCHANGED <<singleton, chunks, mram, locals>>

\* copy_to_pim: one offset, that of the first bank, for all DPUs.
CopyToPim(t) ==
    /\ Goto(t, "copy", "live")
    /\ mram' = [i \in DOMAIN mram |-> [mram[i] EXCEPT ![DIV(metadata[t][1], BLOCK_SIZE)] = t]]
    /\ UNCHANGED <<singleton, chunks, allocations, locals>>

(***************************************************************************)
(* ~PimData: deallocate, one bank after the other.                         *)
(***************************************************************************)
Destroy(t) ==
    /\ Goto(t, "live", "lookup")
    /\ UNCHANGED <<singleton, chunks, allocations, mram, locals>>

LookupAndClear(t) ==
    LET addr == metadata[t][bank[t]]
    IN  /\ Goto(t, "lookup", "erase")
        /\ addr \in DOMAIN chunks[bank[t]].allocations
        /\ chunks' = [chunks EXCEPT ![bank[t]].free =
                        mark_blocks(@, DIV(addr, BLOCK_SIZE), 1, TRUE)]
        /\ UNCHANGED <<singleton, allocations, mram, locals>>

LookupFails(t) ==
    /\ pc[t] = "lookup"
    /\ metadata[t][bank[t]] \notin DOMAIN chunks[bank[t]].allocations
    /\ NextBank(t, "lookup", "forget")
    /\ UNCHANGED <<singleton, chunks, allocations, mram, start, metadata>>

Erase(t) ==
    /\ pc[t] = "erase"
    /\ chunks' = [chunks EXCEPT ![bank[t]].allocations =
                    [a \in DOMAIN @ \ {metadata[t][bank[t]]} |-> @[a]]]
    /\ NextBank(t, "lookup", "forget")
    /\ UNCHANGED <<singleton, allocations, mram, start, metadata>>

Forget(t) ==
    /\ Goto(t, "forget", "done")
    /\ allocations' = [a \in DOMAIN allocations \ {metadata[t][1]} |-> allocations[a]]
    /\ UNCHANGED <<singleton, chunks, mram, locals>>

-----------------------------------------------------------------------------
Step(t) ==
    \/ Lock(t) \/ NewManager(t) \/ PushChunk(t) \/ AlreadyThere(t) \/ Unlock(t)
    \/ Find(t) \/ Mark(t) \/ Record(t) \/ EnterInTable(t) \/ CopyToPim(t)
    \/ Destroy(t) \/ LookupAndClear(t) \/ LookupFails(t) \/ Erase(t) \/ Forget(t)

Next == \E t \in Threads : Step(t)

\* The operating system keeps scheduling every thread.
Spec == Init /\ [][Next]_vars /\ \A t \in Threads : WF_vars(Step(t))
-----------------------------------------------------------------------------
HasManager(t) == pc[t] \notin {"getPim", "test", "push_back", "unlock"}

TypeOK ==
    /\ mutex \in Threads \cup {Nobody}
    /\ pim \in BOOLEAN
    /\ nr_dpus \in {0} \cup {NrDpusAsked[t] : t \in Threads}
    /\ \A i \in DOMAIN chunks : chunks[i] \in Chunk /\ mram[i] \in [Blocks -> Threads \cup {Nobody}]
    /\ \A t \in Threads : /\ start[t] \in Blocks \cup {NO_ADDR}
                          /\ \A i \in DOMAIN metadata[t] : metadata[t][i] \in BlockAddrs

(***************************************************************************)
(* However the first calls of getPim interleave, one manager is ever       *)
(* built, and no thread gets it before its constructor has added all its   *)
(* banks (PimManager.h:23-29, 101-107).                                    *)
(***************************************************************************)
OneWholeManager ==
    /\ managers <= 1
    /\ \A t \in Threads : HasManager(t) => pim /\ Len(chunks) = nr_dpus

\* Every thread gets the manager, builds its object and destroys it.
AllFinish == <>(\A t \in Threads : pc[t] = "done")

(***************************************************************************)
(* PimManager.h:96-97, "we would like to keep the data in the MRAM when    *)
(* thea are initialized for as long as needed": while a thread's object is *)
(* alive, its region holds that object's data.                             *)
(***************************************************************************)
InitialisedDataStays ==
    \A t \in Threads :
        pc[t] = "live" =>
            \A i \in DOMAIN mram : mram[i][DIV(metadata[t][1], BLOCK_SIZE)] = t
=============================================================================
