--------------------------- MODULE PimThreadsProofs ---------------------------
(***************************************************************************)
(* Theorems about PimThreads for any threads, banks and requests.          *)
(***************************************************************************)
EXTENDS PimThreads, TLAPS

-----------------------------------------------------------------------------
(***************************************************************************)
(* getPim.  A thread between Lock and Unlock has the mutex, so one thread  *)
(* at most is there; until the constructor ends it is there, and pim is    *)
(* set when all banks are.                                                 *)
(***************************************************************************)
Inside == {"test", "push_back", "unlock"}

Later == {"find", "mark", "record", "table", "copy", "live", "lookup", "erase", "forget",
          "done"}

OnlyOneInside == \A t \in Threads : pc[t] \in Inside => mutex = t

Building == \E t \in Threads : pc[t] = "push_back"

ManagerOK ==
    /\ ~pim /\ ~Building => managers = 0 /\ Len(chunks) = 0
    /\ Building => ~pim /\ managers = 1 /\ Len(chunks) < nr_dpus
    /\ pim => managers = 1 /\ Len(chunks) = nr_dpus
    /\ \A t \in Threads : pc[t] \in Later \union {"unlock"} => pim

IInv ==
    /\ pc \in [Threads -> {"getPim"} \union Inside \union Later]
    /\ nr_dpus \in Nat /\ pim \in BOOLEAN
    /\ \E S : chunks \in Seq(S)
    /\ OnlyOneInside
    /\ ManagerOK

LEMMA InitIInv == Init => IInv
<1> SUFFICES ASSUME Init PROVE IInv
  OBVIOUS
<1>1. chunks \in Seq({}) /\ Len(chunks) = 0
  BY DEF Init
<1> QED
  BY <1>1 DEF Init, IInv, OnlyOneInside, ManagerOK, Building, Inside, Later

\* A sequence stays one, and as long, when a field of an element changes.
LEMMA SameLength ==
    ASSUME NEW s, NEW i, NEW r, \E S : s \in Seq(S)
    PROVE  LET u == [s EXCEPT ![i] = r] IN (\E S : u \in Seq(S)) /\ Len(u) = Len(s)
<1>1. PICK S : s \in Seq(S)
  OBVIOUS
<1>2. PICK u : u = [s EXCEPT ![i] = r]
  OBVIOUS
<1>3. PICK n : n = Len(s)
  OBVIOUS
<1>4. n \in Nat /\ s \in [1 .. n -> S]
  BY <1>1, <1>3
<1>5. u \in [1 .. n -> S \union {r}]
  BY <1>2, <1>4
<1>6. u \in Seq(S \union {r}) /\ Len(u) = n
  BY <1>4, <1>5
<1> QED
  BY <1>2, <1>3, <1>6

\* A step of a thread that has the manager.
LEMMA LaterKeeps ==
    ASSUME IInv, NEW t \in Threads, NEW l \in Later, pc[t] \in Later, pc' = [pc EXCEPT ![t] = l],
           UNCHANGED singleton, \E S : chunks' \in Seq(S), Len(chunks') = Len(chunks)
    PROVE  IInv'
<1>1. /\ pc' \in [Threads -> {"getPim"} \union Inside \union Later]
      /\ pc'[t] \in Later /\ \A u \in Threads \ {t} : pc'[u] = pc[u]
  BY DEF IInv
<1>2. UNCHANGED <<mutex, pim, managers, nr_dpus>>
  BY DEF singleton
<1>3. OnlyOneInside'
  BY <1>1, <1>2 DEF IInv, OnlyOneInside, Inside, Later
<1>4. Building' = Building
  BY <1>1 DEF Building, Later
<1>5. ManagerOK'
  BY <1>1, <1>2, <1>4 DEF IInv, ManagerOK
<1> QED
  BY <1>1, <1>2, <1>3, <1>5 DEF IInv

LEMMA NextKeeps == IInv /\ [Next]_vars => IInv'
<1> SUFFICES ASSUME IInv, [Next]_vars PROVE IInv'
  OBVIOUS
<1>0. /\ pc \in [Threads -> {"getPim"} \union Inside \union Later]
      /\ OnlyOneInside /\ ManagerOK /\ nr_dpus \in Nat /\ pim \in BOOLEAN
      /\ \E S : chunks \in Seq(S)
  BY DEF IInv
<1>1. CASE UNCHANGED vars
  BY <1>0, <1>1 DEF vars, singleton, IInv, OnlyOneInside, ManagerOK, Building
<1>2. ASSUME NEW t \in Threads, Lock(t) PROVE IInv'
  <2>1. /\ pc[t] = "getPim" /\ pc' = [pc EXCEPT ![t] = "test"] /\ mutex = Nobody /\ mutex' = t
        /\ UNCHANGED <<pim, managers, nr_dpus, chunks>>
    BY <1>2 DEF Lock, Goto
  <2>2. \A u \in Threads : pc[u] \notin Inside
    BY <1>0, <2>1, ThreadsAssumption DEF OnlyOneInside
  <2>3. /\ pc'[t] = "test" /\ \A u \in Threads \ {t} : pc'[u] = pc[u]
        /\ pc' \in [Threads -> {"getPim"} \union Inside \union Later]
    BY <1>0, <2>1 DEF Inside
  <2>4. OnlyOneInside' /\ Building' = Building
    BY <2>1, <2>2, <2>3 DEF OnlyOneInside, Building, Inside
  <2>5. ManagerOK'
    BY <1>0, <2>1, <2>3, <2>4 DEF ManagerOK, Later
  <2> QED
    BY <1>0, <2>1, <2>3, <2>4, <2>5 DEF IInv
<1>3. ASSUME NEW t \in Threads, NewManager(t) PROVE IInv'
  <2>1. /\ pc[t] = "test" /\ pc' = [pc EXCEPT ![t] = "push_back"] /\ ~pim
        /\ managers' = managers + 1 /\ nr_dpus' = NrDpusAsked[t]
        /\ UNCHANGED <<mutex, pim, chunks>>
    BY <1>3 DEF NewManager, Goto
  <2>2. mutex = t /\ \A u \in Threads \ {t} : pc[u] \notin Inside
    BY <1>0, <2>1 DEF OnlyOneInside, Inside
  <2>3. /\ pc'[t] = "push_back" /\ \A u \in Threads \ {t} : pc'[u] = pc[u]
        /\ pc' \in [Threads -> {"getPim"} \union Inside \union Later]
    BY <1>0, <2>1 DEF Inside
  <2>4. ~Building /\ Building' /\ OnlyOneInside'
    BY <2>1, <2>2, <2>3 DEF OnlyOneInside, Building, Inside
  <2>5. nr_dpus' \in Nat /\ 0 < nr_dpus'
    BY <2>1, ThreadsAssumption
  <2>6. ManagerOK'
    BY <1>0, <2>1, <2>3, <2>4, <2>5 DEF ManagerOK, Later
  <2> QED
    BY <1>0, <2>1, <2>3, <2>4, <2>5, <2>6 DEF IInv
<1>4. ASSUME NEW t \in Threads, PushChunk(t) PROVE IInv'
  <2> PICK last : last = (Len(chunks) + 1 >= nr_dpus)
    OBVIOUS
  <2>1. /\ pc[t] = "push_back" /\ chunks' = Append(chunks, NewChunk) /\ pim' = last
        /\ pc' = [pc EXCEPT ![t] = IF last THEN "unlock" ELSE "push_back"]
        /\ UNCHANGED <<mutex, managers, nr_dpus>>
    BY <1>4 DEF PushChunk
  <2>2. mutex = t /\ \A u \in Threads \ {t} : pc[u] \notin Inside
    BY <1>0, <2>1 DEF OnlyOneInside, Inside
  <2>3. /\ pc'[t] = IF last THEN "unlock" ELSE "push_back"
        /\ \A u \in Threads \ {t} : pc'[u] = pc[u]
        /\ pc' \in [Threads -> {"getPim"} \union Inside \union Later]
    BY <1>0, <2>1 DEF Inside
  <2>4. /\ ~pim /\ managers = 1 /\ Len(chunks) \in Nat /\ Len(chunks) < nr_dpus
    BY <1>0, <2>1 DEF ManagerOK, Building
  <2>5. (\E S : chunks' \in Seq(S)) /\ Len(chunks') = Len(chunks) + 1
    <3>1. PICK S : chunks \in Seq(S)
      BY <1>0
    <3>2. chunks' \in Seq(S \union {NewChunk}) /\ Len(chunks') = Len(chunks) + 1
      BY <2>1, <3>1
    <3> QED
      BY <3>2
  <2>6. OnlyOneInside' /\ Building' = ~last
    BY <2>1, <2>2, <2>3 DEF OnlyOneInside, Building, Inside
  <2>7. \A u \in Threads \ {t} : pc[u] \notin Later
    BY <1>0, <2>4 DEF ManagerOK
  <2>8. ManagerOK'
    <3>1. CASE last
      <4>1. Len(chunks') = nr_dpus
        BY <1>0, <2>4, <2>5, <3>1
      <4> QED
        BY <2>1, <2>4, <2>6, <3>1, <4>1 DEF ManagerOK
    <3>2. CASE ~last
      <4>1. Len(chunks') < nr_dpus
        <5>1. PICK n, k : n = Len(chunks) /\ k = nr_dpus
          BY Zenon
        <5>2. n \in Nat /\ k \in Nat /\ ~(n + 1 >= k)
          BY <1>0, <2>4, <3>2, <5>1 DEF IInv
        <5> QED
          BY <2>5, <5>1, <5>2
      <4>2. \A u \in Threads : pc'[u] \notin Later \union {"unlock"}
        BY <2>2, <2>3, <2>7, <3>2 DEF Inside, Later
      <4> QED
        BY <2>1, <2>4, <2>6, <3>2, <4>1, <4>2 DEF ManagerOK
    <3> QED
      BY <2>1, <3>1, <3>2
  <2> QED
    BY <1>0, <2>1, <2>3, <2>5, <2>6, <2>8 DEF IInv
<1>5. ASSUME NEW t \in Threads, AlreadyThere(t) PROVE IInv'
  <2>1. /\ pim /\ pc[t] = "test" /\ pc' = [pc EXCEPT ![t] = "unlock"]
        /\ UNCHANGED <<mutex, pim, managers, nr_dpus, chunks>>
    BY <1>5 DEF AlreadyThere, Goto, singleton
  <2>2. /\ pc'[t] = "unlock" /\ \A u \in Threads \ {t} : pc'[u] = pc[u]
        /\ pc' \in [Threads -> {"getPim"} \union Inside \union Later]
    BY <1>0, <2>1 DEF Inside
  <2>3. OnlyOneInside' /\ Building' = Building
    BY <1>0, <2>1, <2>2 DEF OnlyOneInside, Building, Inside
  <2>4. ManagerOK'
    BY <1>0, <2>1, <2>2, <2>3 DEF ManagerOK
  <2> QED
    BY <1>0, <2>1, <2>2, <2>3, <2>4 DEF IInv
<1>6. ASSUME NEW t \in Threads, Unlock(t) PROVE IInv'
  <2>1. /\ pc[t] = "unlock" /\ pc' = [pc EXCEPT ![t] = "find"] /\ mutex' = Nobody
        /\ UNCHANGED <<pim, managers, nr_dpus, chunks>>
    BY <1>6 DEF Unlock, Goto
  <2>2. /\ pc'[t] = "find" /\ \A u \in Threads \ {t} : pc'[u] = pc[u]
        /\ pc' \in [Threads -> {"getPim"} \union Inside \union Later]
    BY <1>0, <2>1 DEF Inside, Later
  <2>3. \A u \in Threads \ {t} : pc[u] \notin Inside
    BY <1>0, <2>1 DEF OnlyOneInside, Inside
  <2>4. OnlyOneInside' /\ Building' = Building
    BY <2>1, <2>2, <2>3 DEF OnlyOneInside, Building, Inside
  <2>5. ManagerOK'
    BY <1>0, <2>1, <2>2, <2>4 DEF ManagerOK
  <2> QED
    BY <1>0, <2>1, <2>2, <2>4, <2>5 DEF IInv
<1>7. ASSUME NEW t \in Threads,
             Find(t) \/ EnterInTable(t) \/ CopyToPim(t) \/ Destroy(t) \/ LookupFails(t) \/ Forget(t)
      PROVE  IInv'
  <2>1. /\ pc[t] \in Later /\ UNCHANGED singleton /\ chunks' = chunks
        /\ \E l \in Later : pc' = [pc EXCEPT ![t] = l]
    BY <1>7 DEF Find, EnterInTable, CopyToPim, Destroy, LookupFails, Forget, Goto, NextBank, Later
  <2> QED
    BY <1>0, <2>1, LaterKeeps
<1>8. ASSUME NEW t \in Threads, Mark(t) \/ Record(t) \/ LookupAndClear(t) \/ Erase(t)
      PROVE  IInv'
  <2>1. /\ pc[t] \in Later /\ UNCHANGED singleton
        /\ \E l \in Later : pc' = [pc EXCEPT ![t] = l]
        /\ \E i, r : chunks' = [chunks EXCEPT ![i] = r]
    BY <1>8 DEF Mark, Record, LookupAndClear, Erase, Goto, NextBank, Later
  <2>2. (\E S : chunks' \in Seq(S)) /\ Len(chunks') = Len(chunks)
    <3>1. PICK i, r : chunks' = [chunks EXCEPT ![i] = r]
      BY <2>1
    <3>2. \E S : chunks \in Seq(S)
      BY <1>0
    <3> QED
      BY <3>1, <3>2, SameLength
  <2> QED
    BY <2>1, <2>2, LaterKeeps
<1> QED
  BY <1>1, <1>2, <1>3, <1>4, <1>5, <1>6, <1>7, <1>8 DEF Next, Step

\* However the first calls of getPim interleave, one manager is built, and no
\* thread gets it before it has all its banks.
THEOREM OneWholeManagerHolds == Spec => []OneWholeManager
<1>1. IInv => OneWholeManager
  <2> SUFFICES ASSUME IInv PROVE OneWholeManager
    OBVIOUS
  <2>1. \A t \in Threads : HasManager(t) => pc[t] \in Later
    BY DEF IInv, HasManager, Inside
  <2>2. managers \in {0, 1}
    BY DEF IInv, ManagerOK
  <2> QED
    BY <2>1, <2>2 DEF IInv, ManagerOK, OneWholeManager
<1> QED
  BY <1>1, InitIInv, NextKeeps, PTL DEF Spec
=============================================================================
