----------------------------- MODULE NttTables -----------------------------
(***************************************************************************)
(* The tables of the number theoretic transform over power-of-two rings    *)
(* (ChineseRemainderTransformFTTNat).  Six static maps, each from a modulus *)
(* to a vector, are filled the first time a transform needs them and are   *)
(* shared by every thread of the program.  A transform looks at one of the *)
(* six to decide whether they are there; PreCompute looks again, and fills *)
(* all six inside one `omp critical'.                                      *)
(*                                                                         *)
(* One action is one access to one of the maps.  A vector is abstracted to *)
(* what it was computed for: a dimension (half the cyclotomic order, the   *)
(* vector's length) and a root of unity.  The early returns of a transform *)
(* (root 0 or 1, an order that is no power of two, a length that does not  *)
(* match) and of the vector PreCompute (lists of different sizes) touch no *)
(* map and are steps that change nothing here.                             *)
(***************************************************************************)
EXTENDS Naturals, Sequences, FiniteSets

CONSTANTS Threads,   \* the threads of the program
          Moduli,    \* the moduli transforms are made over
          Dims,      \* the values of CycloOrderHf in use
          Roots,     \* the roots of unity callers pass
          Chains,    \* the moduli chains callers precompute
          Jobs,      \* the calls made: transforms and precomputations
          NoOne,     \* the critical section is free
          MaxCalls   \* bound: calls made in one behaviour

ASSUME DimsAssumption == Dims \subseteq Nat \ {0}
ASSUME ChainsAssumption ==
    \A c \in Chains : c \in Seq(Moduli) /\ Len(c) >= 1
ASSUME NoOneAssumption == NoOne \notin Threads
ASSUME MaxCallsAssumption == MaxCalls \in Nat

\* The six maps in the order PreCompute assigns them.
MapOrder == <<"rev", "invRev", "coi", "preRev", "preInvRev", "preCoi">>
MapNames == {"rev", "invRev", "coi", "preRev", "preInvRev", "preCoi"}

\* The map a Shoup ("precon") table is derived from.
SourceOf == [preRev |-> "rev", preInvRev |-> "invRev", preCoi |-> "coi"]

\* What a map may hold for a modulus: no entry, the empty vector that
\* operator[] inserts, or a vector computed for a dimension and a root.
Absent == [len |-> 0, root |-> "absent"]
Empty  == [len |-> 0, root |-> "empty"]
Vectors == [len : Dims, root : Roots]
Contents == Vectors \union {Absent, Empty}

Transforms == [kind : {"forward", "inverse"}, dim : Dims, root : Roots,
               chain : {<<m>> : m \in Moduli}]
Precomputations == [kind : {"precompute"}, dim : Dims, root : Roots,
                    chain : Chains]

ASSUME JobsAssumption ==
    Jobs \subseteq (Transforms \union Precomputations) /\ Jobs # {}

VARIABLES tables,     \* tables[n][m]: what map n holds for modulus m
          lock,       \* the thread inside `omp critical', or NoOne
          pc, job,    \* where each thread is, and the call it makes
          at,         \* the position in the chain it has reached
          written,    \* inside PreCompute: how many maps it has assigned
          todo,       \* the maps a transform has still to look up
          calls,      \* calls made so far
          overlapped, \* ghost: another thread filled this thread's tables
                      \* while its transform was under way
          asked,      \* ghost: <<modulus, dimension, root>> asked for so far
          misused     \* ghost: transforms that ran on a table of another
                      \* shape, with whether they were overlapped

vars == <<tables, lock, pc, job, at, written, todo, calls,
          overlapped, asked, misused>>

Mod(t) == job[t].chain[at[t]]
Wanted(t) == [len |-> job[t].dim, root |-> job[t].root]

\* Mutant: the transform only asks whether there is an entry.
Found_any_length(t) == tables["rev"][Mod(t)].len > 0

\* find(modulus) == end() || GetLength() != CycloOrderHf, negated
Found(t) == tables["rev"][Mod(t)].len = job[t].dim

MapsUsed(kind) ==
    IF kind = "forward" THEN {"rev", "preRev"}
                        ELSE {"invRev", "preInvRev", "coi", "preCoi"}

\* A vector of powers serves only its own dimension and root; the inverses of
\* the powers of two are read at index msb, so a longer vector serves as well.
Fits(n, v, j) ==
    IF n \in {"coi", "preCoi"} THEN v.len >= j.dim
                               ELSE v = [len |-> j.dim, root |-> j.root]

Init ==
    /\ tables = [n \in MapNames |-> [m \in Moduli |-> Absent]]
    /\ lock = NoOne
    /\ pc = [t \in Threads |-> "idle"]
    /\ job \in [Threads -> {CHOOSE j \in Jobs : TRUE}]
    /\ at = [t \in Threads |-> 1]
    /\ written = [t \in Threads |-> 0]
    /\ todo = [t \in Threads |-> {}]
    /\ calls = 0
    /\ overlapped = [t \in Threads |-> FALSE]
    /\ asked = {}
    /\ misused = {}
-----------------------------------------------------------------------------
Goto(t, l) == pc' = [pc EXCEPT ![t] = l]

\* Is some other thread inside the critical section, on t's modulus?
BeingFilled(m) == lock \in Threads /\ Mod(lock) = m

\* A thread enters one of the four transforms, or one of the two PreCompute.
Call(t, j) ==
    /\ pc[t] = "idle"
    /\ calls < MaxCalls
    /\ calls' = calls + 1
    /\ job' = [job EXCEPT ![t] = j]
    /\ at' = [at EXCEPT ![t] = 1]
    /\ Goto(t, IF j.kind = "precompute" THEN "retest" ELSE "test")
    /\ overlapped' = [overlapped EXCEPT ![t] = BeingFilled(j.chain[1])]
    /\ asked' = asked \union
                {<<j.chain[i], j.dim, j.root>> : i \in 1..Len(j.chain)}
    /\ UNCHANGED <<tables, lock, written, todo, misused>>

ReadyToLook(t) ==
    /\ Goto(t, "look")
    /\ todo' = [todo EXCEPT ![t] = MapsUsed(job[t].kind)]
    /\ UNCHANGED at

\* PreCompute is over for one modulus: a transform goes on to look its tables
\* up, the vector PreCompute goes on to the next modulus or returns.
PreComputed(t) ==
    IF job[t].kind # "precompute" THEN ReadyToLook(t)
    ELSE /\ UNCHANGED todo
         /\ IF at[t] < Len(job[t].chain)
            THEN Goto(t, "retest") /\ at' = [at EXCEPT ![t] = @ + 1]
            ELSE Goto(t, "idle") /\ UNCHANGED at

\* The transform's own test of the first map.
Test(t) ==
    /\ pc[t] = "test"
    /\ IF Found(t) THEN ReadyToLook(t)
                   ELSE Goto(t, "retest") /\ UNCHANGED <<at, todo>>
    /\ UNCHANGED <<tables, lock, job, written, calls, overlapped, asked,
                   misused>>

\* PreCompute's test of it, outside the critical section.
Retest(t) ==
    /\ pc[t] = "retest"
    /\ IF Found(t) THEN PreComputed(t)
                   ELSE Goto(t, "enter") /\ UNCHANGED <<at, todo>>
    /\ UNCHANGED <<tables, lock, job, written, calls, overlapped, asked,
                   misused>>

\* Mutant: `omp critical' is gone.
Enter_unguarded(t) ==
    /\ pc[t] = "enter"
    /\ lock' = t
    /\ Goto(t, "fill")
    /\ written' = [written EXCEPT ![t] = 0]
    /\ overlapped' = [u \in Threads |->
                        \/ overlapped[u]
                        \/ u # t /\ pc[u] # "idle" /\ Mod(u) = Mod(t)]
    /\ UNCHANGED <<tables, job, at, todo, calls, asked, misused>>

\* Mutant: the stale vector is erased before the new one is computed.
Enter_erasing(t) ==
    /\ pc[t] = "enter"
    /\ lock = NoOne
    /\ lock' = t
    /\ Goto(t, "fill")
    /\ tables' = [tables EXCEPT !["rev"][Mod(t)] = Absent]
    /\ written' = [written EXCEPT ![t] = 0]
    /\ overlapped' = [u \in Threads |->
                        \/ overlapped[u]
                        \/ u # t /\ pc[u] # "idle" /\ Mod(u) = Mod(t)]
    /\ UNCHANGED <<job, at, todo, calls, asked, misused>>

\* The critical section is entered without another look at the map.
Enter(t) ==
    /\ pc[t] = "enter"
    /\ lock = NoOne
    /\ lock' = t
    /\ Goto(t, "fill")
    /\ written' = [written EXCEPT ![t] = 0]
    /\ overlapped' = [u \in Threads |->
                        \/ overlapped[u]
                        \/ u # t /\ pc[u] # "idle" /\ Mod(u) = Mod(t)]
    /\ UNCHANGED <<tables, job, at, todo, calls, asked, misused>>

\* What PreCompute puts in map n: the tables of powers and of inverses come
\* from its arguments, their "precon" partners are read back from the maps.
Computed(t, n) ==
    IF n \in DOMAIN SourceOf THEN tables[SourceOf[n]][Mod(t)] ELSE Wanted(t)

\* Mutant: the section is never left.
Fill_unreleased(t) ==
    /\ pc[t] = "fill"
    /\ LET n == MapOrder[written[t] + 1] IN
         tables' = [tables EXCEPT ![n][Mod(t)] = Computed(t, n)]
    /\ written' = [written EXCEPT ![t] = @ + 1]
    /\ IF written[t] + 1 = Len(MapOrder) THEN PreComputed(t)
                                         ELSE UNCHANGED <<pc, at, todo>>
    /\ UNCHANGED <<job, calls, lock, overlapped, asked, misused>>

\* One assignment map[modulus] = vector; the last one leaves the section.
Fill(t) ==
    /\ pc[t] = "fill"
    /\ LET n == MapOrder[written[t] + 1] IN
         tables' = [tables EXCEPT ![n][Mod(t)] = Computed(t, n)]
    /\ written' = [written EXCEPT ![t] = @ + 1]
    /\ IF written[t] + 1 = Len(MapOrder)
       THEN PreComputed(t) /\ lock' = NoOne
       ELSE UNCHANGED <<pc, at, todo, lock>>
    /\ UNCHANGED <<job, calls, overlapped, asked, misused>>

\* One map[modulus] among the arguments of the inner transform, in the order
\* the compiler likes: operator[] inserts an empty vector when there is none.
LookUp(t, n) ==
    /\ pc[t] = "look"
    /\ n \in todo[t]
    /\ tables' = [tables EXCEPT ![n][Mod(t)] = IF @ = Absent THEN Empty ELSE @]
    /\ todo' = [todo EXCEPT ![t] = @ \ {n}]
    /\ UNCHANGED <<lock, pc, job, at, written, calls, overlapped, asked,
                   misused>>

\* The inner transform reads, by reference, what the maps hold now.
Run(t) ==
    /\ pc[t] = "look"
    /\ todo[t] = {}
    /\ Goto(t, "idle")
    /\ misused' =
         misused \union
         IF \A n \in MapsUsed(job[t].kind) :
              Fits(n, tables[n][Mod(t)], job[t])
         THEN {}
         ELSE {[mod |-> Mod(t), dim |-> job[t].dim, root |-> job[t].root,
                overlapped |-> overlapped[t]]}
    /\ UNCHANGED <<tables, lock, job, at, written, todo, calls, overlapped,
                   asked>>

\* Reset() clears the six maps; a caller does so when nothing else runs.
Reset ==
    /\ \A t \in Threads : pc[t] = "idle"
    /\ calls < MaxCalls
    /\ calls' = calls + 1
    /\ tables' = [n \in MapNames |-> [m \in Moduli |-> Absent]]
    /\ UNCHANGED <<lock, pc, job, at, written, todo, overlapped, asked,
                   misused>>

Step(t) ==
    \/ Test(t)
    \/ Retest(t)
    \/ Enter(t)
    \/ Fill(t)
    \/ \E n \in MapNames : LookUp(t, n)
    \/ Run(t)

Next ==
    \/ \E t \in Threads : Step(t)
    \/ \E t \in Threads, j \in Jobs : Call(t, j)
    \/ Reset

\* A thread inside a call goes on; a bounded number of calls contends for the
\* critical section, so weak fairness lets each of them in.
Spec == Init /\ [][Next]_vars /\ \A t \in Threads : WF_vars(Step(t))
-----------------------------------------------------------------------------
TypeOK ==
    /\ tables \in [MapNames -> [Moduli -> Contents]]
    /\ lock \in Threads \union {NoOne}
    /\ pc \in [Threads ->
                {"idle", "test", "retest", "enter", "fill", "look"}]
    /\ job \in [Threads -> Jobs]
    /\ at \in [Threads -> Nat \ {0}]
    /\ \A t \in Threads : at[t] <= Len(job[t].chain)
    /\ written \in [Threads -> 0..6]
    /\ todo \in [Threads -> SUBSET MapNames]
    /\ overlapped \in [Threads -> BOOLEAN]

Agree(m) == \A n \in MapNames : tables[n][m] = tables["rev"][m]

\* When no thread is filling the tables of a modulus, its six maps hold
\* vectors of one dimension and one root, or nothing at all: no order of
\* tests, insertions by operator[] and repeated precomputations leaves a mix
\* behind (PreCompute and the reads of the four transforms).
TablesAgree == \A m \in Moduli : BeingFilled(m) \/ Agree(m)

\* The tables a transform reads are those of its dimension and root, unless
\* another thread was filling the tables of the same modulus during the call,
\* or someone had asked for the same modulus and dimension with another root,
\* which the length test cannot tell apart.
MisuseExplained ==
    \A u \in misused :
        \/ u.overlapped
        \/ \E r \in Roots \ {u.root} : <<u.mod, u.dim, r>> \in asked

\* A second precomputation for the parameters the tables already have is
\* harmless to whoever is using them: it never takes a vector away or changes
\* it, not even for a moment (the section is entered without a new test).
RefillKeepsTables ==
    [][\A m \in Moduli :
         LET v == tables["rev"][m] IN
         ( /\ Agree(m) /\ v \in Vectors
           /\ \A t \in Threads : (pc[t] \in {"enter", "fill"} /\ Mod(t) = m)
                                   => Wanted(t) = v )
         => (Agree(m) /\ tables["rev"][m] = v)'
            \/ \A t \in Threads : pc[t] = "idle"]_vars

\* Every call comes back: nobody waits for the critical section for ever.
EveryCallReturns == \A t \in Threads : pc[t] # "idle" ~> pc[t] = "idle"
=============================================================================
