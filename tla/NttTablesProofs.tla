-------------------------- MODULE NttTablesProofs --------------------------
(***************************************************************************)
(* Theorems about NttTables for any threads, moduli, dimensions, roots and  *)
(* calls.  For TablesAgree, the first of them, the inductive invariant adds *)
(* who is in the critical section, what it has assigned so far, and that a  *)
(* transform about to look its tables up has found a vector in the first of *)
(* them: operator[] then inserts nothing, except into maps that the thread  *)
(* in the section still assigns.                                            *)
(***************************************************************************)
EXTENDS NttTables, TLAPS

\* In TypeOK the number of assignments is that of a thread in the section.
Types ==
    /\ tables \in [MapNames -> [Moduli -> Contents]]
    /\ lock \in Threads \union {NoOne}
    /\ pc \in [Threads ->
                {"idle", "test", "retest", "enter", "fill", "look"}]
    /\ job \in [Threads -> Jobs]
    /\ at \in [Threads -> Nat \ {0}]
    /\ \A t \in Threads : at[t] <= Len(job[t].chain)
    /\ written \in [Threads -> 0..6]
    /\ todo \in [Threads -> SUBSET MapNames]

Section ==
    /\ \A t \in Threads : pc[t] = "fill" <=> lock = t
    /\ \A t \in Threads : pc[t] = "fill" => written[t] <= 5

Assigned ==
    \A t \in Threads : pc[t] = "fill" =>
        \A k \in 1..6 : k <= written[t] =>
            tables[MapOrder[k]][Mod(t)] = Wanted(t)

FoundOne ==
    \A t \in Threads : pc[t] = "look" => tables["rev"][Mod(t)] \in Vectors

IInv == Types /\ Section /\ Assigned /\ FoundOne /\ TablesAgree
-----------------------------------------------------------------------------
LEMMA Maps ==
    /\ \A k \in 1..6 : MapOrder[k] \in MapNames
    /\ \A n \in MapNames : \E k \in 1..6 : n = MapOrder[k]
    /\ \A j, k \in 1..6 : MapOrder[j] = MapOrder[k] => j = k
    /\ Len(MapOrder) = 6 /\ "rev" = MapOrder[1]
  <1>1. \A k \in 1..6 : k = 1 \/ k = 2 \/ k = 3 \/ k = 4 \/ k = 5 \/ k = 6
    OBVIOUS
  <1>2. /\ MapOrder[1] = "rev" /\ MapOrder[2] = "invRev" /\ MapOrder[3] = "coi"
        /\ MapOrder[4] = "preRev" /\ MapOrder[5] = "preInvRev" /\ MapOrder[6] = "preCoi"
        /\ Len(MapOrder) = 6
    BY DEF MapOrder
  <1>3. \A k \in 1..6 : MapOrder[k] \in MapNames
    BY <1>1, <1>2 DEF MapNames
  <1>4. \A n \in MapNames : \E k \in 1..6 : n = MapOrder[k]
    BY <1>2 DEF MapNames
  <1>5. \A j, k \in 1..6 : MapOrder[j] = MapOrder[k] => j = k
    BY <1>1, <1>2
  <1>6. QED
    BY <1>2, <1>3, <1>4, <1>5

\* The source of a "precon" table comes before it.
LEMMA Sources ==
    ASSUME NEW k \in 1..6, MapOrder[k] \in DOMAIN SourceOf
    PROVE  /\ k - 3 \in 1..6 /\ SourceOf[MapOrder[k]] = MapOrder[k - 3]
  <1>1. k = 1 \/ k = 2 \/ k = 3 \/ k = 4 \/ k = 5 \/ k = 6
    OBVIOUS
  <1>2. QED
    BY <1>1 DEF SourceOf, MapOrder

\* The chain of a call is a sequence of moduli.
LEMMA ChainType ==
    ASSUME NEW j \in Jobs
    PROVE  /\ j.chain \in Seq(Moduli) /\ Len(j.chain) \in Nat /\ Len(j.chain) >= 1
           /\ j.dim \in Dims /\ j.root \in Roots
  <1>1. j \in Transforms \/ j \in Precomputations
    BY JobsAssumption
  <1>2. CASE j \in Transforms
    <2>1. PICK m \in Moduli : j.chain = <<m>>
      BY <1>2 DEF Transforms
    <2>2. QED
      BY <1>2, <2>1 DEF Transforms
  <1>3. CASE j \in Precomputations
    BY <1>3, ChainsAssumption DEF Precomputations
  <1>4. QED
    BY <1>1, <1>2, <1>3

LEMMA ModType ==
    ASSUME Types, NEW t \in Threads
    PROVE  Mod(t) \in Moduli /\ Wanted(t) \in Vectors /\ job[t].dim \in Nat \ {0}
  <1>1. job[t] \in Jobs /\ at[t] \in Nat \ {0} /\ at[t] <= Len(job[t].chain)
    BY DEF Types
  <1>2. /\ job[t].chain \in Seq(Moduli) /\ Len(job[t].chain) \in Nat
        /\ job[t].dim \in Dims /\ job[t].root \in Roots
    BY <1>1, ChainType
  <1>3. at[t] \in 1..Len(job[t].chain)
    BY <1>1, <1>2
  <1>4. Mod(t) \in Moduli
    BY <1>2, <1>3 DEF Mod
  <1>5. QED
    BY <1>2, <1>4, DimsAssumption DEF Wanted, Vectors

\* What a map found long enough holds is a vector.
LEMMA FoundVector ==
    ASSUME Types, NEW t \in Threads, Found(t)
    PROVE  tables["rev"][Mod(t)] \in Vectors
  <1>1. tables["rev"][Mod(t)] \in Contents
    BY ModType DEF Types, MapNames
  <1>2. tables["rev"][Mod(t)].len # 0
    BY ModType DEF Found
  <1>3. QED
    BY <1>1, <1>2 DEF Contents, Absent, Empty
-----------------------------------------------------------------------------
LEMMA InitHolds == Init => IInv
  <1> SUFFICES ASSUME Init PROVE IInv
    OBVIOUS
  <1>1. \A j \in {CHOOSE j \in Jobs : TRUE} : j \in Jobs
    BY JobsAssumption
  <1>2. job \in [Threads -> Jobs]
    BY <1>1 DEF Init
  <1>3. \A t \in Threads : Len(job[t].chain) >= 1 /\ Len(job[t].chain) \in Nat
    BY <1>2, ChainType
  <1>4. Types
    BY <1>2, <1>3 DEF Init, Types, Contents
  <1>5. Section /\ Assigned /\ FoundOne
    BY NoOneAssumption DEF Init, Section, Assigned, FoundOne
  <1>6. TablesAgree
    BY DEF Init, TablesAgree, Agree, MapNames
  <1>7. QED
    BY <1>4, <1>5, <1>6 DEF IInv

\* A step outside the section that changes no map: what remains to be shown is
\* that the thread that moves to the look-up has found its vector.
LEMMA Quiet ==
    ASSUME IInv, Types', UNCHANGED <<tables, lock, written>>, NEW t \in Threads,
           \A u \in Threads \ {t} : pc'[u] = pc[u] /\ job'[u] = job[u] /\ at'[u] = at[u],
           pc[t] # "fill", pc'[t] # "fill",
           pc'[t] = "look" => tables["rev"][Mod(t)'] \in Vectors
    PROVE  IInv'
  <1>1. \A u \in Threads \ {t} : Mod(u)' = Mod(u) /\ Wanted(u)' = Wanted(u)
    BY DEF Mod, Wanted
  <1>2. Section'
    BY DEF IInv, Section
  <1>3. Assigned'
    BY <1>1 DEF IInv, Assigned
  <1>4. FoundOne'
    BY <1>1 DEF IInv, FoundOne
  <1>5. \A m \in Moduli : Agree(m)' <=> Agree(m)
    BY DEF Agree
  <1>6. \A m \in Moduli : BeingFilled(m) => BeingFilled(m)'
    BY <1>1 DEF BeingFilled, IInv, Section
  <1>7. TablesAgree'
    BY <1>5, <1>6 DEF IInv, TablesAgree
  <1>8. QED
    BY <1>2, <1>3, <1>4, <1>7 DEF IInv

LEMMA CallKeeps ==
    ASSUME IInv, NEW t \in Threads, NEW j \in Jobs, Call(t, j)
    PROVE  IInv'
  <1>1. Types'
    <2>1. Len(j.chain) >= 1 /\ Len(j.chain) \in Nat
      BY ChainType
    <2>2. QED
      BY <2>1 DEF IInv, Types, Call, Goto
  <1>2. QED
    BY <1>1, Quiet DEF IInv, Types, Call, Goto

\* The three ways on from a test and from a finished precomputation.
LEMMA PreComputedMoves ==
    ASSUME Types, NEW t \in Threads, PreComputed(t)
    PROVE  /\ pc' \in [Threads -> {"idle", "test", "retest", "enter", "fill", "look"}]
           /\ at' \in [Threads -> Nat \ {0}] /\ todo' \in [Threads -> SUBSET MapNames]
           /\ at'[t] <= Len(job[t].chain)
           /\ pc'[t] \in {"idle", "retest", "look"}
           /\ pc'[t] = "look" => at' = at
           /\ \A u \in Threads \ {t} : pc'[u] = pc[u] /\ at'[u] = at[u]
  <1> USE DEF PreComputed, ReadyToLook, Goto, Types
  <1>1. at[t] \in Nat /\ Len(job[t].chain) \in Nat
    BY ChainType
  <1>2. MapsUsed(job[t].kind) \in SUBSET MapNames
    BY DEF MapsUsed, MapNames
  <1>3. CASE job[t].kind # "precompute"
    BY <1>2, <1>3
  <1>4. CASE job[t].kind = "precompute" /\ at[t] < Len(job[t].chain)
    <2>1. /\ pc' = [pc EXCEPT ![t] = "retest"] /\ todo' = todo
          /\ at' = [at EXCEPT ![t] = at[t] + 1]
      BY <1>4
    <2>2. at[t] + 1 \in Nat \ {0} /\ at[t] + 1 <= Len(job[t].chain)
      BY <1>1, <1>4
    <2>3. at' \in [Threads -> Nat \ {0}] /\ at'[t] = at[t] + 1
      BY <2>1, <2>2
    <2>4. pc' \in [Threads -> {"idle", "test", "retest", "enter", "fill", "look"}]
      BY <2>1
    <2>5. QED
      BY <2>1, <2>2, <2>3, <2>4
  <1>5. CASE job[t].kind = "precompute" /\ ~(at[t] < Len(job[t].chain))
    BY <1>1, <1>5
  <1>6. QED
    BY <1>3, <1>4, <1>5

LEMMA TestKeeps ==
    ASSUME IInv, NEW t \in Threads, Test(t)
    PROVE  IInv'
  <1>1. MapsUsed(job[t].kind) \in SUBSET MapNames
    BY DEF MapsUsed, MapNames
  <1>2. Types'
    BY <1>1 DEF IInv, Types, Test, ReadyToLook, Goto
  <1>3. Mod(t)' = Mod(t)
    BY DEF Test, ReadyToLook, Mod
  <1>4. pc'[t] = "look" => Found(t)
    BY DEF IInv, Types, Test, Goto
  <1>5. pc'[t] = "look" => tables["rev"][Mod(t)'] \in Vectors
    BY <1>3, <1>4, FoundVector DEF IInv
  <1>6. QED
    BY <1>2, <1>5, Quiet DEF IInv, Types, Test, ReadyToLook, Goto

LEMMA RetestKeeps ==
    ASSUME IInv, NEW t \in Threads, Retest(t)
    PROVE  IInv'
  <1> USE DEF IInv
  <1>1. CASE Found(t)
    <2>1. PreComputed(t) /\ UNCHANGED <<tables, lock, job, written>> /\ pc[t] = "retest"
      BY <1>1 DEF Retest
    <2>2. /\ pc' \in [Threads -> {"idle", "test", "retest", "enter", "fill", "look"}]
          /\ at' \in [Threads -> Nat \ {0}] /\ todo' \in [Threads -> SUBSET MapNames]
          /\ at'[t] <= Len(job[t].chain)
          /\ pc'[t] \in {"idle", "retest", "look"}
          /\ pc'[t] = "look" => at' = at
          /\ \A u \in Threads \ {t} : pc'[u] = pc[u] /\ at'[u] = at[u]
      BY <2>1, PreComputedMoves
    <2>3. Types'
      BY <2>1, <2>2 DEF Types
    <2>4. pc'[t] = "look" => tables["rev"][Mod(t)'] \in Vectors
      BY <1>1, <2>1, <2>2, FoundVector DEF Mod
    <2>5. QED
      BY <2>1, <2>2, <2>3, <2>4, Quiet
  <1>2. CASE ~Found(t)
    <2>1. Types'
      BY <1>2 DEF Types, Retest, Goto
    <2>2. QED
      BY <1>2, <2>1, Quiet DEF Types, Retest, Goto
  <1>3. QED
    BY <1>1, <1>2

LEMMA RunKeeps ==
    ASSUME IInv, NEW t \in Threads, Run(t)
    PROVE  IInv'
  <1>1. Types'
    BY DEF IInv, Types, Run, Goto
  <1>2. QED
    BY <1>1, Quiet DEF IInv, Types, Run, Goto

LEMMA EnterKeeps ==
    ASSUME IInv, NEW t \in Threads, Enter(t)
    PROVE  IInv'
  <1> USE DEF IInv
  <1>1. Types'
    BY DEF Types, Enter, Goto
  <1>2. \A u \in Threads : Mod(u)' = Mod(u) /\ Wanted(u)' = Wanted(u)
    BY DEF Enter, Mod, Wanted
  <1>3. /\ \A u \in Threads : pc[u] # "fill"
        /\ pc'[t] = "fill" /\ lock' = t /\ written'[t] = 0 /\ tables' = tables
        /\ \A u \in Threads \ {t} : pc'[u] = pc[u]
    BY NoOneAssumption DEF Types, Section, Enter, Goto
  <1>4. Section' /\ Assigned'
    BY <1>3 DEF Section, Assigned
  <1>5. FoundOne'
    BY <1>2, <1>3 DEF FoundOne
  <1>6. \A m \in Moduli : ~BeingFilled(m) /\ (Agree(m)' <=> Agree(m))
    BY <1>3, NoOneAssumption DEF BeingFilled, Agree, Enter
  <1>7. TablesAgree'
    BY <1>6 DEF TablesAgree
  <1>8. QED
    BY <1>1, <1>4, <1>5, <1>7

\* An assignment in the section: the map gets what was wanted, and no map of
\* another modulus and none of those assigned before is touched.
LEMMA FillAssigns ==
    ASSUME IInv, NEW t \in Threads, Fill(t)
    PROVE  /\ written[t] \in 0..5 /\ written' = [written EXCEPT ![t] = written[t] + 1]
           /\ tables' \in [MapNames -> [Moduli -> Contents]]
           /\ \A m \in Moduli \ {Mod(t)} : \A n \in MapNames : tables'[n][m] = tables[n][m]
           /\ \A k \in 1..6 : k <= written[t] + 1 =>
                  tables'[MapOrder[k]][Mod(t)] = Wanted(t)
  <1> USE DEF IInv
  <1> DEFINE w == written[t] + 1
             n == MapOrder[w]
  <1>1. pc[t] = "fill" /\ w \in 1..6
    BY DEF Fill, Section, Types
  <1>2. /\ tables' = [tables EXCEPT ![n][Mod(t)] = Computed(t, n)]
        /\ written' = [written EXCEPT ![t] = w]
    BY DEF Fill
  <1>3. \A k \in 1..6 : k < w => tables[MapOrder[k]][Mod(t)] = Wanted(t)
    BY SMTT(30), <1>1 DEF Assigned, Types
  <1>4. Mod(t) \in Moduli /\ Wanted(t) \in Contents
    BY ModType DEF Contents
  <1>5. Computed(t, n) = Wanted(t)
    <2>1. CASE n \in DOMAIN SourceOf
      <3>1. w - 3 \in 1..6 /\ SourceOf[n] = MapOrder[w - 3] /\ w - 3 < w
        BY <1>1, <2>1, Sources
      <3>2. QED
        BY <1>3, <2>1, <3>1 DEF Computed
    <2>2. CASE n \notin DOMAIN SourceOf
      BY <2>2 DEF Computed
    <2>3. QED
      BY <2>1, <2>2
  <1>6. n \in MapNames
    BY <1>1, Maps
  <1>7. \A k \in 1..6 : MapOrder[k] \in MapNames /\ (MapOrder[k] = n => k = w)
    BY <1>1, Maps
  <1> HIDE DEF n
  <1>8. /\ tables' \in [MapNames -> [Moduli -> Contents]]
        /\ tables'[n][Mod(t)] = Wanted(t)
        /\ \A l \in MapNames, m \in Moduli : l # n \/ m # Mod(t) => tables'[l][m] = tables[l][m]
    BY <1>2, <1>4, <1>5, <1>6 DEF Types
  <1>9. \A k \in 1..6 : k <= w => tables'[MapOrder[k]][Mod(t)] = Wanted(t)
    <2> SUFFICES ASSUME NEW k \in 1..6, k <= w
                 PROVE  tables'[MapOrder[k]][Mod(t)] = Wanted(t)
      OBVIOUS
    <2>1. CASE k = w
      BY <1>8, <2>1 DEF n
    <2>2. CASE k # w
      <3>1. k < w
        BY <1>1, <2>2
      <3>2. QED
        BY <1>3, <1>4, <1>7, <1>8, <2>2, <3>1
    <2>3. QED
      BY <2>1, <2>2
  <1>10. written[t] \in 0..5
    BY <1>1 DEF Types
  <1>11. QED
    BY <1>2, <1>6, <1>8, <1>9, <1>10

LEMMA FillKeeps ==
    ASSUME IInv, NEW t \in Threads, Fill(t)
    PROVE  IInv'
  <1> USE DEF IInv
  <1>1. /\ written[t] \in 0..5 /\ written' = [written EXCEPT ![t] = written[t] + 1]
        /\ tables' \in [MapNames -> [Moduli -> Contents]]
        /\ \A m \in Moduli \ {Mod(t)} : \A n \in MapNames : tables'[n][m] = tables[n][m]
        /\ \A k \in 1..6 : k <= written[t] + 1 =>
               tables'[MapOrder[k]][Mod(t)] = Wanted(t)
    BY FillAssigns
  <1>2. pc[t] = "fill" /\ lock = t /\ \A u \in Threads \ {t} : pc[u] # "fill"
    BY DEF Fill, Section
  <1>3. Mod(t) \in Moduli /\ Wanted(t) \in Vectors
    BY ModType
  <1>4. \A u \in Threads \ {t} : Mod(u) \in Moduli
    BY ModType
  <1>5. \A u \in Threads \ {t} : pc[u] = "look" => tables'["rev"][Mod(u)] \in Vectors
    <2> SUFFICES ASSUME NEW u \in Threads \ {t}, pc[u] = "look"
                 PROVE  tables'["rev"][Mod(u)] \in Vectors
      OBVIOUS
    <2>1. CASE Mod(u) = Mod(t)
      <3>1. 1 \in 1..6 /\ 1 <= written[t] + 1 /\ MapOrder[1] = "rev"
        BY <1>1, Maps
      <3>2. QED
        BY <1>1, <1>3, <2>1, <3>1
    <2>2. CASE Mod(u) # Mod(t)
      BY <1>1, <1>4, <2>2, Maps DEF FoundOne, MapNames
    <2>3. QED
      BY <2>1, <2>2
  <1>6. \A m \in Moduli \ {Mod(t)} : Agree(m)'
    <2>1. \A m \in Moduli \ {Mod(t)} : ~BeingFilled(m) /\ Agree(m)
      BY <1>2 DEF TablesAgree, BeingFilled
    <2>2. QED
      BY <1>1, <2>1 DEF Agree, MapNames
  <1>7. Len(MapOrder) = 6
    BY Maps
  <1>8. CASE written[t] + 1 = 6
    <2>1. PreComputed(t) /\ lock' = NoOne /\ UNCHANGED job
      BY <1>7, <1>8 DEF Fill
    <2>2. /\ pc' \in [Threads -> {"idle", "test", "retest", "enter", "fill", "look"}]
          /\ at' \in [Threads -> Nat \ {0}] /\ todo' \in [Threads -> SUBSET MapNames]
          /\ at'[t] <= Len(job[t].chain)
          /\ pc'[t] \in {"idle", "retest", "look"}
          /\ pc'[t] = "look" => at' = at
          /\ \A u \in Threads \ {t} : pc'[u] = pc[u] /\ at'[u] = at[u]
      BY <2>1, PreComputedMoves
    <2>3. Types'
      <3>1. \A u \in Threads : at'[u] <= Len(job'[u].chain)
        BY <2>1, <2>2 DEF Types
      <3>2. written' \in [Threads -> 0..6]
        BY <1>1 DEF Types
      <3>3. QED
        BY <1>1, <2>1, <2>2, <3>1, <3>2 DEF Types
    <2>4. \A u \in Threads \ {t} : Mod(u)' = Mod(u) /\ Wanted(u)' = Wanted(u)
      BY <2>1, <2>2 DEF Mod, Wanted
    <2>5. Section' /\ Assigned'
      BY <1>2, <2>1, <2>2, NoOneAssumption DEF Section, Assigned
    <2>6. \A n \in MapNames : tables'[n][Mod(t)] = Wanted(t)
      BY <1>1, <1>8, Maps
    <2>7. FoundOne'
      <3>1. pc'[t] = "look" => tables'["rev"][Mod(t)'] \in Vectors
        BY <1>3, <2>1, <2>2, <2>6 DEF Mod, MapNames
      <3>2. QED
        BY <1>5, <2>2, <2>4, <3>1 DEF FoundOne
    <2>8. \A m \in Moduli : Agree(m)'
      BY <1>6, <2>6 DEF Agree, MapNames
    <2>9. QED
      BY <2>3, <2>5, <2>7, <2>8 DEF TablesAgree
  <1>9. CASE written[t] + 1 # 6
    <2>1. UNCHANGED <<pc, at, todo, lock, job>>
      BY <1>7, <1>9 DEF Fill
    <2>2. Types'
      BY <1>1, <2>1 DEF Types
    <2>3. \A u \in Threads : Mod(u)' = Mod(u) /\ Wanted(u)' = Wanted(u)
      BY <2>1 DEF Mod, Wanted
    <2>4. written'[t] = written[t] + 1 /\ written'[t] <= 5
      BY <1>1, <1>9 DEF Types
    <2>5. Section'
      BY <1>2, <2>1, <2>4 DEF Section
    <2>6. Assigned'
      BY <1>1, <1>2, <2>1, <2>3, <2>4 DEF Assigned
    <2>7. FoundOne'
      BY <1>2, <1>5, <2>1, <2>3 DEF FoundOne
    <2>8. TablesAgree'
      BY <1>2, <1>6, <2>1, <2>3 DEF TablesAgree, BeingFilled
    <2>9. QED
      BY <2>2, <2>5, <2>6, <2>7, <2>8
  <1>10. QED
    BY <1>8, <1>9

LEMMA LookUpKeeps ==
    ASSUME IInv, NEW t \in Threads, NEW n \in MapNames, LookUp(t, n)
    PROVE  IInv'
  <1> USE DEF IInv
  <1>1. Mod(t) \in Moduli
    BY ModType
  <1>2. Types'
    BY <1>1 DEF Types, LookUp, Contents
  <1>3. /\ UNCHANGED <<lock, pc, job, at, written>> /\ pc[t] = "look"
        /\ \A l \in MapNames, m \in Moduli :
              tables[l][m] # Absent => tables'[l][m] = tables[l][m]
        /\ \A l \in MapNames, m \in Moduli : m # Mod(t) => tables'[l][m] = tables[l][m]
    BY <1>1 DEF LookUp, Types
  <1>4. \A u \in Threads : /\ Mod(u)' = Mod(u) /\ Wanted(u)' = Wanted(u)
                           /\ Mod(u) \in Moduli /\ Wanted(u) \in Vectors
    BY <1>3, ModType DEF Mod, Wanted
  <1>5. \A v \in Vectors : v # Absent
    BY DimsAssumption DEF Vectors, Absent
  <1>6. Section'
    BY <1>3 DEF Section
  <1>7. Assigned'
    BY <1>3, <1>4, <1>5, Maps DEF Assigned
  <1>8. FoundOne'
    BY <1>3, <1>4, <1>5 DEF FoundOne, MapNames
  <1>9. \A m \in Moduli : BeingFilled(m)' <=> BeingFilled(m)
    BY <1>3, <1>4 DEF BeingFilled
  <1>10. \A m \in Moduli : Agree(m) => Agree(m)'
    <2> SUFFICES ASSUME NEW m \in Moduli, Agree(m) PROVE Agree(m)'
      OBVIOUS
    <2>1. CASE m # Mod(t)
      BY <1>3, <2>1 DEF Agree, MapNames
    <2>2. CASE m = Mod(t)
      <3>1. \A l \in MapNames : tables[l][m] \in Vectors
        BY <1>3, <2>2 DEF Agree, FoundOne, MapNames
      <3>2. QED
        BY <1>3, <1>5, <3>1 DEF Agree, MapNames
    <2>3. QED
      BY <2>1, <2>2
  <1>11. TablesAgree'
    BY <1>9, <1>10 DEF TablesAgree
  <1>12. QED
    BY <1>2, <1>6, <1>7, <1>8, <1>11

LEMMA ResetKeeps ==
    ASSUME IInv, Reset
    PROVE  IInv'
  <1>1. Types'
    BY DEF IInv, Types, Reset, Contents
  <1>2. Section' /\ Assigned' /\ FoundOne'
    BY DEF IInv, Section, Assigned, FoundOne, Reset
  <1>3. TablesAgree'
    BY DEF Reset, TablesAgree, Agree, MapNames
  <1>4. QED
    BY <1>1, <1>2, <1>3 DEF IInv

LEMMA StepKeeps == IInv /\ [Next]_vars => IInv'
  <1> SUFFICES ASSUME IInv, [Next]_vars PROVE IInv'
    OBVIOUS
  <1>1. ASSUME NEW t \in Threads, Step(t) PROVE IInv'
    BY <1>1, TestKeeps, RetestKeeps, EnterKeeps, FillKeeps, LookUpKeeps, RunKeeps DEF Step
  <1>2. CASE UNCHANGED vars
    BY <1>2 DEF vars, IInv, Types, Section, Assigned, FoundOne, TablesAgree, Agree,
       BeingFilled, Mod, Wanted
  <1>3. QED
    BY <1>1, <1>2, CallKeeps, ResetKeeps DEF Next

\* The invariant holds of every number of threads, moduli and calls.
THEOREM InvariantHolds == Spec => []IInv
  <1>1. QED
    BY InitHolds, StepKeeps, PTL DEF Spec

\* Outside the critical section the six tables of every modulus hold vectors of
\* one dimension and one root, or nothing (PreCompute and the transforms).
THEOREM TablesAgreeHolds == Spec => []TablesAgree
  <1>1. IInv => TablesAgree
    BY DEF IInv
  <1>2. QED
    BY <1>1, InvariantHolds, PTL
-----------------------------------------------------------------------------
(* A refill for the parameters the tables have changes none of them.         *)

\* Only an assignment in the section, a first look-up and Reset write a table.
LEMMA RefillStep ==
    ASSUME IInv, [Next]_vars, NEW m \in Moduli,
           Agree(m), tables["rev"][m] \in Vectors,
           \A t \in Threads : pc[t] \in {"enter", "fill"} /\ Mod(t) = m
                               => Wanted(t) = tables["rev"][m],
           ~ \A t \in Threads : pc[t] = "idle"
    PROVE  \A n \in MapNames : tables'[n][m] = tables[n][m]
  <1> USE DEF IInv
  <1>1. ASSUME NEW t \in Threads, Fill(t)
        PROVE  \A n \in MapNames : tables'[n][m] = tables[n][m]
    <2>1. CASE m # Mod(t)
      BY <1>1, <2>1, FillAssigns
    <2>2. CASE m = Mod(t)
      <3>1. pc[t] = "fill" /\ Wanted(t) = tables["rev"][m]
        BY <1>1, <2>2 DEF Fill
      <3>2. \A n \in MapNames : tables[n][m] = Wanted(t)
        BY <3>1 DEF Agree
      <3>3. \A n \in MapNames : Computed(t, n) = Wanted(t)
        <4>1. \A n \in MapNames : n \in DOMAIN SourceOf => SourceOf[n] \in MapNames
          BY DEF SourceOf, MapNames
        <4>2. QED
          BY <2>2, <3>2, <4>1 DEF Computed
      <3>4. MapOrder[written[t] + 1] \in MapNames
        <4>1. written[t] + 1 \in 1..6
          BY <1>1, FillAssigns
        <4>2. QED
          BY <4>1, Maps
      <3>5. tables' = [tables EXCEPT ![MapOrder[written[t] + 1]][m] = Wanted(t)]
        BY <1>1, <2>2, <3>3, <3>4 DEF Fill
      <3>6. QED
        BY <3>2, <3>4, <3>5 DEF Types
    <2>3. QED
      BY <2>1, <2>2
  <1>2. ASSUME NEW t \in Threads, NEW n \in MapNames, LookUp(t, n)
        PROVE  \A l \in MapNames : tables'[l][m] = tables[l][m]
    <2>1. \A l \in MapNames : tables[l][m] # Absent
      BY DimsAssumption DEF Agree, Vectors, Absent
    <2>2. Mod(t) \in Moduli
      BY ModType
    <2>3. QED
      BY <1>2, <2>1, <2>2 DEF LookUp, Types
  <1>3. ASSUME NEW t \in Threads, Step(t)
        PROVE  \A n \in MapNames : tables'[n][m] = tables[n][m]
    BY <1>1, <1>2, <1>3 DEF Step, Test, Retest, Enter, Run
  <1>4. ASSUME NEW t \in Threads, NEW j \in Jobs, Call(t, j)
        PROVE  \A n \in MapNames : tables'[n][m] = tables[n][m]
    BY <1>4 DEF Call
  <1>5. CASE UNCHANGED vars
    BY <1>5 DEF vars
  <1>6. QED
    BY <1>3, <1>4, <1>5 DEF Next, Reset

\* Filling the tables again for the dimension and root they already have takes
\* no vector away and changes none, at no moment (PreCompute enters the section
\* without a new test).
THEOREM RefillKeepsTablesHolds == Spec => RefillKeepsTables
  <1> DEFINE Keeps ==
        \A m \in Moduli :
          LET v == tables["rev"][m] IN
          ( /\ Agree(m) /\ v \in Vectors
            /\ \A t \in Threads : (pc[t] \in {"enter", "fill"} /\ Mod(t) = m)
                                    => Wanted(t) = v )
          => (Agree(m) /\ tables["rev"][m] = v)'
             \/ \A t \in Threads : pc[t] = "idle"
  <1>1. IInv /\ [Next]_vars => Keeps
    <2> SUFFICES ASSUME IInv, [Next]_vars, NEW m \in Moduli,
                        Agree(m), tables["rev"][m] \in Vectors,
                        \A t \in Threads : pc[t] \in {"enter", "fill"} /\ Mod(t) = m
                                            => Wanted(t) = tables["rev"][m],
                        ~ \A t \in Threads : pc[t] = "idle"
                 PROVE  Agree(m)' /\ tables'["rev"][m] = tables["rev"][m]
      OBVIOUS
    <2>1. \A n \in MapNames : tables'[n][m] = tables[n][m]
      BY RefillStep
    <2>2. QED
      BY <2>1 DEF Agree, MapNames
  <1>2. IInv /\ [Next]_vars => [Keeps]_vars
    BY <1>1
  <1> HIDE DEF Keeps
  <1>3. Spec => [][Keeps]_vars
    BY <1>2, InvariantHolds, PTL DEF Spec
  <1>4. QED
    BY <1>3 DEF Keeps, RefillKeepsTables
-----------------------------------------------------------------------------
(***************************************************************************)
(* MisuseExplained.  A transform that nobody overlapped has no other       *)
(* thread filling its tables, so what it found long enough stays as long;  *)
(* and whatever a table holds was asked for.  If its root is not the       *)
(* transform's, somebody asked for that root.                              *)
(***************************************************************************)
OnlyTransforms ==
    \A t \in Threads : pc[t] \in {"test", "look"} => job[t].kind # "precompute"

\* What a thread in a call, and every vector in a table, was asked for.
CallsAsked ==
    \A t \in Threads : pc[t] # "idle" =>
        \A i \in 1..Len(job[t].chain) : <<job[t].chain[i], job[t].dim, job[t].root>> \in asked

TablesAsked ==
    \A n \in MapNames, m \in Moduli :
        tables[n][m] \in Vectors => <<m, tables[n][m].len, tables[n][m].root>> \in asked

Alone(t) == pc[t] # "idle" /\ job[t].kind # "precompute" /\ ~overlapped[t]

Undisturbed ==
    \A t \in Threads : Alone(t) =>
        \A u \in Threads \ {t} : pc[u] = "fill" => Mod(u) # Mod(t)

LongEnough ==
    \A t \in Threads : Alone(t) /\ pc[t] = "look" => tables["rev"][Mod(t)].len = job[t].dim

Explanation ==
    /\ IInv
    /\ overlapped \in [Threads -> BOOLEAN]
    /\ OnlyTransforms
    /\ CallsAsked
    /\ TablesAsked
    /\ Undisturbed
    /\ LongEnough
    /\ MisuseExplained

LEMMA InitExplanation == Init => Explanation
  <1> SUFFICES ASSUME Init PROVE Explanation
    OBVIOUS
  <1>1. TablesAsked
    BY DimsAssumption DEF Init, TablesAsked, Vectors, Absent
  <1>2. QED
    BY <1>1, InitHolds DEF Init, Explanation, OnlyTransforms, CallsAsked, Undisturbed, LongEnough,
       Alone, MisuseExplained

\* Any step keeps the explanations there are: asked only grows.
LEMMA StillExplained ==
    ASSUME MisuseExplained, asked \subseteq asked', UNCHANGED misused
    PROVE  MisuseExplained'
BY DEF MisuseExplained

\* A thread in a call moves on without touching the maps or the section.
LEMMA QuietExplanation ==
    ASSUME Explanation, IInv', NEW t \in Threads, pc[t] # "idle", pc'[t] # "test",
           UNCHANGED <<tables, job, overlapped, asked, misused>>,
           \A u \in Threads \ {t} : pc'[u] = pc[u] /\ at'[u] = at[u],
           pc'[t] # "fill",
           job[t].kind # "precompute" => at'[t] = at[t],
           pc'[t] = "look" => job[t].kind # "precompute" /\ Found(t)
    PROVE  Explanation'
  <1>1. \A u \in Threads : job[u].kind # "precompute" => Mod(u)' = Mod(u)
    BY DEF Mod
  <1>2. \A u \in Threads \ {t} : Mod(u)' = Mod(u)
    BY DEF Mod
  <1>3. \A u \in Threads : Alone(u)' => Alone(u)
    BY DEF Alone
  <1>4. OnlyTransforms' /\ CallsAsked' /\ TablesAsked'
    BY DEF Explanation, OnlyTransforms, CallsAsked, TablesAsked
  <1>5. Undisturbed'
    <2> SUFFICES ASSUME NEW u \in Threads, Alone(u)', NEW s \in Threads \ {u}, pc'[s] = "fill"
                 PROVE  Mod(s)' # Mod(u)'
      BY DEF Undisturbed
    <2>1. s # t /\ pc[s] = "fill" /\ Alone(u) /\ job[u].kind # "precompute"
      BY <1>3 DEF Alone
    <2>2. Mod(s) # Mod(u)
      BY <2>1 DEF Explanation, Undisturbed
    <2>3. QED
      BY <1>1, <1>2, <2>1, <2>2
  <1>6. LongEnough'
    <2> SUFFICES ASSUME NEW u \in Threads, Alone(u)', pc'[u] = "look"
                 PROVE  tables["rev"][Mod(u)'].len = job[u].dim
      BY DEF LongEnough
    <2>1. Alone(u) /\ Mod(u)' = Mod(u)
      BY <1>1, <1>3 DEF Alone
    <2>2. CASE u = t
      BY <2>1, <2>2 DEF Found
    <2>3. CASE u # t
      BY <2>1, <2>3 DEF Explanation, LongEnough
    <2>4. QED
      BY <2>2, <2>3
  <1>7. QED
    BY <1>4, <1>5, <1>6, StillExplained DEF Explanation

LEMMA TestExplanation ==
    ASSUME Explanation, NEW t \in Threads, Test(t)
    PROVE  Explanation'
  <1>1. IInv'
    BY TestKeeps DEF Explanation
  <1>2. /\ pc[t] = "test" /\ at' = at
        /\ UNCHANGED <<tables, job, overlapped, asked, misused>>
        /\ pc' = [pc EXCEPT ![t] = IF Found(t) THEN "look" ELSE "retest"]
    BY DEF Test, ReadyToLook, Goto
  <1>3. /\ pc'[t] = IF Found(t) THEN "look" ELSE "retest"
        /\ \A u \in Threads \ {t} : pc'[u] = pc[u]
    BY <1>2 DEF Explanation, IInv, Types
  <1>4. job[t].kind # "precompute"
    BY <1>2 DEF Explanation, OnlyTransforms
  <1>5. QED
    BY <1>1, <1>2, <1>3, <1>4, QuietExplanation

\* PreCompute returns to a transform, goes on in the chain, or is done.
LEMMA PreComputedReturns ==
    ASSUME Types, NEW t \in Threads, PreComputed(t)
    PROVE  /\ job[t].kind # "precompute" => at' = at
           /\ pc'[t] = "look" => job[t].kind # "precompute"
BY DEF PreComputed, ReadyToLook, Goto, Types

LEMMA RetestExplanation ==
    ASSUME Explanation, NEW t \in Threads, Retest(t)
    PROVE  Explanation'
  <1>1. IInv' /\ Types
    BY RetestKeeps DEF Explanation, IInv
  <1>2. pc[t] = "retest" /\ UNCHANGED <<tables, job, overlapped, asked, misused>>
    BY DEF Retest
  <1>3. CASE Found(t)
    <2>1. PreComputed(t)
      BY <1>3 DEF Retest
    <2>2. /\ pc'[t] \in {"idle", "retest", "look"}
          /\ \A u \in Threads \ {t} : pc'[u] = pc[u] /\ at'[u] = at[u]
      BY <1>1, <2>1, PreComputedMoves
    <2>3. /\ job[t].kind # "precompute" => at' = at
          /\ pc'[t] = "look" => job[t].kind # "precompute"
      BY <1>1, <2>1, PreComputedReturns
    <2>4. QED
      BY <1>1, <1>2, <1>3, <2>2, <2>3, QuietExplanation
  <1>4. CASE ~Found(t)
    <2>1. at' = at /\ pc' = [pc EXCEPT ![t] = "enter"]
      BY <1>4 DEF Retest, Goto
    <2>2. pc'[t] = "enter" /\ \A u \in Threads \ {t} : pc'[u] = pc[u]
      BY <1>1, <2>1 DEF Types
    <2>3. QED
      BY <1>1, <1>2, <2>1, <2>2, QuietExplanation
  <1>5. QED
    BY <1>3, <1>4

\* Whoever uses the modulus of the thread that enters is overlapped from now on.
LEMMA EnterExplanation ==
    ASSUME Explanation, NEW t \in Threads, Enter(t)
    PROVE  Explanation'
  <1>1. IInv' /\ Types /\ Section
    BY EnterKeeps DEF Explanation, IInv
  <1>2. /\ pc[t] = "enter" /\ lock = NoOne /\ pc' = [pc EXCEPT ![t] = "fill"]
        /\ overlapped' = [u \in Threads |->
                            overlapped[u] \/ (u # t /\ pc[u] # "idle" /\ Mod(u) = Mod(t))]
        /\ UNCHANGED <<tables, job, at, asked, misused>>
    BY DEF Enter, Goto
  <1>3. /\ pc'[t] = "fill" /\ \A u \in Threads \ {t} : pc'[u] = pc[u]
        /\ \A u \in Threads : pc[u] # "fill"
    BY <1>1, <1>2, NoOneAssumption DEF Types, Section
  <1>4. \A u \in Threads : Mod(u)' = Mod(u)
    BY <1>2 DEF Mod
  <1>5. \A u \in Threads : Alone(u)' => Alone(u) /\ (u # t => Mod(u) # Mod(t))
    BY <1>2, <1>3 DEF Alone
  <1>6. overlapped' \in [Threads -> BOOLEAN]
    BY <1>2, Zenon DEF Explanation
  <1>7. OnlyTransforms' /\ CallsAsked' /\ TablesAsked'
    BY <1>2, <1>3 DEF Explanation, OnlyTransforms, CallsAsked, TablesAsked
  <1>8. Undisturbed'
    BY <1>3, <1>4, <1>5 DEF Undisturbed
  <1>9. LongEnough'
    BY <1>2, <1>3, <1>4, <1>5 DEF Explanation, LongEnough
  <1>10. QED
    BY <1>1, <1>2, <1>6, <1>7, <1>8, <1>9, StillExplained DEF Explanation

\* Filling changes only tables of the modulus of the thread in the section, which
\* nobody else that is alone uses.
LEMMA FillExplanation ==
    ASSUME Explanation, NEW t \in Threads, Fill(t)
    PROVE  Explanation'
  <1>1. IInv' /\ IInv /\ Types /\ Section
    BY FillKeeps DEF Explanation, IInv
  <1>2. pc[t] = "fill" /\ UNCHANGED <<job, overlapped, asked, misused>>
    BY DEF Fill
  <1>3. \A u \in Threads \ {t} : pc[u] # "fill"
    BY <1>1, <1>2 DEF Section
  <1>4. /\ written[t] \in 0..5
        /\ \A m \in Moduli \ {Mod(t)} : \A n \in MapNames : tables'[n][m] = tables[n][m]
        /\ \A k \in 1..6 : k <= written[t] + 1 => tables'[MapOrder[k]][Mod(t)] = Wanted(t)
    BY <1>1, FillAssigns
  <1>5. Mod(t) \in Moduli /\ Wanted(t) \in Vectors
    BY <1>1, ModType
  <1>6. tables'["rev"][Mod(t)] = Wanted(t)
    BY <1>4, Maps
  <1>7. /\ \A u \in Threads \ {t} : pc'[u] = pc[u] /\ at'[u] = at[u]
        /\ pc'[t] \in {"idle", "retest", "look", "fill"}
        /\ job[t].kind # "precompute" => at' = at
        /\ pc'[t] = "look" => job[t].kind # "precompute"
    <2>1. CASE PreComputed(t)
      BY <1>1, <2>1, PreComputedMoves, PreComputedReturns
    <2>2. CASE UNCHANGED <<pc, at>>
      BY <1>2, <2>2
    <2>3. QED
      BY <2>1, <2>2 DEF Fill
  <1>8. \A u \in Threads : Alone(u)' => Alone(u) /\ Mod(u)' = Mod(u)
    BY <1>2, <1>7 DEF Alone, Mod
  <1>9. \A u \in Threads \ {t} : Mod(u)' = Mod(u)
    BY <1>2, <1>7 DEF Mod
  <1>10. OnlyTransforms' /\ CallsAsked'
    BY <1>2, <1>7 DEF Explanation, OnlyTransforms, CallsAsked
  <1>11. TablesAsked'
    <2>1. <<Mod(t), job[t].dim, job[t].root>> \in asked
      <3>1. at[t] \in 1..Len(job[t].chain)
        BY <1>1, ChainType DEF Types
      <3>2. QED
        BY <1>2, <3>1 DEF Explanation, CallsAsked, Mod
    <2>2. PICK w : w = MapOrder[written[t] + 1]
      OBVIOUS
    <2>3. w \in MapNames /\ tables'[w][Mod(t)] = Wanted(t)
      BY <1>4, <2>2, Maps
    <2>4. \A n \in MapNames \ {w} : tables'[n][Mod(t)] = tables[n][Mod(t)]
      <3>1. tables' = [tables EXCEPT ![w][Mod(t)] = Computed(t, w)]
        BY <2>2 DEF Fill
      <3>2. QED
        BY <1>1, <1>5, <2>3, <3>1 DEF Types
    <2> SUFFICES ASSUME NEW n \in MapNames, NEW m \in Moduli, tables'[n][m] \in Vectors
                 PROVE  <<m, tables'[n][m].len, tables'[n][m].root>> \in asked
      BY <1>2 DEF TablesAsked
    <2>5. CASE m # Mod(t) \/ n # w
      <3>1. tables'[n][m] = tables[n][m]
        BY <1>4, <2>4, <2>5
      <3>2. QED
        BY <3>1 DEF Explanation, TablesAsked
    <2>6. CASE m = Mod(t) /\ n = w
      BY <2>1, <2>3, <2>6 DEF Wanted
    <2>7. QED
      BY <2>5, <2>6
  <1>12. Undisturbed'
    <2> SUFFICES ASSUME NEW u \in Threads, Alone(u)', NEW s \in Threads \ {u}, pc'[s] = "fill"
                 PROVE  Mod(s)' # Mod(u)'
      BY DEF Undisturbed
    <2>1. s = t /\ at'[t] = at[t]
      <3>1. s = t
        BY <1>3, <1>7
      <3>2. UNCHANGED at
        BY <1>1, <1>7, <3>1, PreComputedMoves DEF Fill
      <3>3. QED
        BY <3>1, <3>2
    <2>2. Mod(s)' = Mod(s)
      BY <1>2, <2>1 DEF Mod
    <2>3. QED
      BY <1>2, <1>8, <2>1, <2>2 DEF Explanation, Undisturbed
  <1>13. LongEnough'
    <2> SUFFICES ASSUME NEW u \in Threads, Alone(u)', pc'[u] = "look"
                 PROVE  tables'["rev"][Mod(u)'].len = job[u].dim
      BY <1>2 DEF LongEnough
    <2>1. Alone(u) /\ Mod(u)' = Mod(u)
      BY <1>8
    <2>2. CASE u = t
      BY <1>6, <2>1, <2>2 DEF Wanted
    <2>3. CASE u # t
      <3>1. Mod(u) # Mod(t) /\ Mod(u) \in Moduli
        BY <1>1, <1>2, <2>1, <2>3, ModType DEF Explanation, Undisturbed
      <3>2. tables'["rev"][Mod(u)] = tables["rev"][Mod(u)]
        BY <1>4, <3>1 DEF MapNames
      <3>3. pc[u] = "look"
        BY <1>7, <2>3
      <3>4. QED
        BY <2>1, <3>2, <3>3 DEF Explanation, LongEnough
    <2>4. QED
      BY <2>2, <2>3
  <1>14. QED
    BY <1>1, <1>2, <1>10, <1>11, <1>12, <1>13, StillExplained DEF Explanation

\* operator[] inserts no vector, and changes none.
LEMMA LookUpExplanation ==
    ASSUME Explanation, NEW t \in Threads, NEW n \in MapNames, LookUp(t, n)
    PROVE  Explanation'
  <1>1. IInv' /\ IInv /\ Types
    BY LookUpKeeps DEF Explanation, IInv
  <1>2. UNCHANGED <<pc, job, at, overlapped, asked, misused>>
    BY DEF LookUp
  <1>3. Mod(t) \in Moduli
    BY <1>1, ModType
  <1>4. \A l \in MapNames, m \in Moduli :
           tables'[l][m] = tables[l][m] \/ (tables[l][m] = Absent /\ tables'[l][m] = Empty)
    BY <1>1, <1>3 DEF LookUp, Types
  <1>5. Empty \notin Vectors /\ Absent \notin Vectors
    BY DimsAssumption DEF Vectors, Absent, Empty
  <1>6. \A u \in Threads : (Alone(u)' <=> Alone(u)) /\ Mod(u)' = Mod(u) /\ Mod(u) \in Moduli
    BY <1>1, <1>2, ModType DEF Alone, Mod
  <1>7. OnlyTransforms' /\ CallsAsked' /\ TablesAsked'
    BY <1>2, <1>4, <1>5 DEF Explanation, OnlyTransforms, CallsAsked, TablesAsked
  <1>8. Undisturbed'
    BY <1>2, <1>6 DEF Explanation, Undisturbed
  <1>9. LongEnough'
    <2> SUFFICES ASSUME NEW u \in Threads, Alone(u), pc[u] = "look"
                 PROVE  tables'["rev"][Mod(u)].len = job[u].dim
      BY <1>2, <1>6 DEF LongEnough
    <2>1. tables["rev"][Mod(u)] \in Vectors
      BY <1>1 DEF IInv, FoundOne
    <2>2. tables'["rev"][Mod(u)] = tables["rev"][Mod(u)]
      BY <1>4, <1>5, <1>6, <2>1 DEF MapNames
    <2>3. QED
      BY <2>2 DEF Explanation, LongEnough
  <1>10. QED
    BY <1>1, <1>2, <1>7, <1>8, <1>9, StillExplained DEF Explanation

\* What an undisturbed transform runs on: vectors of its length, all of one
\* root, which is its own unless another was asked for.
LEMMA RunFits ==
    ASSUME Explanation, NEW t \in Threads, Run(t), ~overlapped[t],
           \A r \in Roots \ {job[t].root} : <<Mod(t), job[t].dim, r>> \notin asked
    PROVE  \A n \in MapsUsed(job[t].kind) : Fits(n, tables[n][Mod(t)], job[t])
  <1>1. IInv /\ Types /\ pc[t] = "look"
    BY DEF Run, Explanation, IInv
  <1>2. Alone(t)
    BY <1>1 DEF Explanation, OnlyTransforms, Alone
  <1>3. Mod(t) \in Moduli
    BY <1>1, ModType
  <1>4. ~BeingFilled(Mod(t))
    <2>1. \A u \in Threads : lock = u => pc[u] = "fill"
      BY <1>1 DEF IInv, Section
    <2>2. QED
      BY <1>1, <1>2, <2>1 DEF BeingFilled, Explanation, Undisturbed
  <1>5. PICK v : v = tables["rev"][Mod(t)]
    OBVIOUS
  <1>6. v \in Vectors /\ v.len = job[t].dim
    BY <1>1, <1>2, <1>5 DEF IInv, FoundOne, Explanation, LongEnough
  <1>7. \A n \in MapNames : tables[n][Mod(t)] = v
    BY <1>1, <1>3, <1>4, <1>5 DEF IInv, TablesAgree, Agree
  <1>8. <<Mod(t), v.len, v.root>> \in asked
    BY <1>3, <1>5, <1>6 DEF Explanation, TablesAsked, MapNames
  <1>9. v.root = job[t].root
    BY <1>6, <1>8 DEF Vectors
  <1>10. v = Wanted(t) /\ v.len \in Nat
    BY <1>6, <1>9, DimsAssumption DEF Vectors, Wanted
  <1>11. \A n \in MapsUsed(job[t].kind) : n \in MapNames
    BY DEF MapsUsed, MapNames
  <1>12. QED
    BY <1>6, <1>7, <1>10, <1>11 DEF Fits, Wanted

LEMMA RunExplanation ==
    ASSUME Explanation, NEW t \in Threads, Run(t)
    PROVE  Explanation'
  <1>1. IInv' /\ IInv /\ Types
    BY RunKeeps DEF Explanation, IInv
  <1>2. /\ pc[t] = "look" /\ pc' = [pc EXCEPT ![t] = "idle"]
        /\ UNCHANGED <<tables, job, at, overlapped, asked>>
    BY DEF Run, Goto
  <1>3. pc'[t] = "idle" /\ \A u \in Threads \ {t} : pc'[u] = pc[u]
    BY <1>1, <1>2 DEF Types
  <1>4. \A u \in Threads : (Alone(u)' => Alone(u) /\ u # t) /\ Mod(u)' = Mod(u)
    BY <1>2, <1>3 DEF Alone, Mod
  <1>5. OnlyTransforms' /\ CallsAsked' /\ TablesAsked'
    BY <1>2, <1>3 DEF Explanation, OnlyTransforms, CallsAsked, TablesAsked
  <1>6. Undisturbed'
    BY <1>3, <1>4 DEF Explanation, Undisturbed
  <1>7. LongEnough'
    BY <1>2, <1>3, <1>4 DEF Explanation, LongEnough
  <1>8. MisuseExplained'
    <2> SUFFICES ASSUME NEW u \in misused', u \notin misused, ~u.overlapped
                 PROVE  \E r \in Roots \ {u.root} : <<u.mod, u.dim, r>> \in asked
      BY <1>2 DEF Explanation, MisuseExplained
    <2>1. ~ \A n \in MapsUsed(job[t].kind) : Fits(n, tables[n][Mod(t)], job[t])
      BY DEF Run
    <2>2. u = [mod |-> Mod(t), dim |-> job[t].dim, root |-> job[t].root,
               overlapped |-> overlapped[t]]
      BY <2>1 DEF Run
    <2>3. u.mod = Mod(t) /\ u.dim = job[t].dim /\ u.root = job[t].root /\ ~overlapped[t]
      BY <2>2
    <2>4. QED
      BY <2>1, <2>3, RunFits
  <1>9. QED
    BY <1>1, <1>2, <1>5, <1>6, <1>7, <1>8 DEF Explanation

LEMMA CallExplanation ==
    ASSUME Explanation, NEW t \in Threads, NEW j \in Jobs, Call(t, j)
    PROVE  Explanation'
  <1>1. IInv' /\ Types /\ Section
    BY CallKeeps DEF Explanation, IInv
  <1>2. /\ pc[t] = "idle" /\ job' = [job EXCEPT ![t] = j] /\ at' = [at EXCEPT ![t] = 1]
        /\ pc' = [pc EXCEPT ![t] = IF j.kind = "precompute" THEN "retest" ELSE "test"]
        /\ overlapped' = [overlapped EXCEPT ![t] = BeingFilled(j.chain[1])]
        /\ asked' = asked \union {<<j.chain[i], j.dim, j.root>> : i \in 1..Len(j.chain)}
        /\ UNCHANGED <<tables, misused>>
    BY DEF Call, Goto
  <1>3. /\ pc'[t] = IF j.kind = "precompute" THEN "retest" ELSE "test"
        /\ job'[t] = j /\ at'[t] = 1 /\ overlapped'[t] = BeingFilled(j.chain[1])
        /\ \A u \in Threads \ {t} : /\ pc'[u] = pc[u] /\ job'[u] = job[u] /\ at'[u] = at[u]
                                    /\ overlapped'[u] = overlapped[u]
    BY <1>1, <1>2 DEF Types, Explanation
  <1>4. \A u \in Threads \ {t} : Mod(u)' = Mod(u) /\ (Alone(u)' <=> Alone(u))
    BY <1>3 DEF Mod, Alone
  <1>5. Mod(t)' = j.chain[1]
    BY <1>3 DEF Mod
  <1>6. OnlyTransforms'
    BY <1>3 DEF Explanation, OnlyTransforms
  <1>7. CallsAsked'
    <2> SUFFICES ASSUME NEW u \in Threads, pc'[u] # "idle", NEW i \in 1..Len(job'[u].chain)
                 PROVE  <<job'[u].chain[i], job'[u].dim, job'[u].root>> \in asked'
      BY DEF CallsAsked
    <2>1. CASE u = t
      BY <1>2, <1>3, <2>1
    <2>2. CASE u # t
      BY <1>2, <1>3, <2>2 DEF Explanation, CallsAsked
    <2>3. QED
      BY <2>1, <2>2
  <1>8. TablesAsked'
    BY <1>2 DEF Explanation, TablesAsked
  <1>9. Undisturbed'
    <2> SUFFICES ASSUME NEW u \in Threads, Alone(u)', NEW s \in Threads \ {u}, pc'[s] = "fill"
                 PROVE  Mod(s)' # Mod(u)'
      BY DEF Undisturbed
    <2>1. s # t /\ pc[s] = "fill" /\ Mod(s)' = Mod(s)
      BY <1>3, <1>4
    <2>2. CASE u = t
      <3>1. ~BeingFilled(j.chain[1])
        BY <1>3, <2>2 DEF Alone
      <3>2. lock = s
        BY <1>1, <2>1 DEF Section
      <3>3. QED
        BY <1>5, <2>1, <2>2, <3>1, <3>2 DEF BeingFilled
    <2>3. CASE u # t
      BY <1>4, <2>1, <2>3 DEF Explanation, Undisturbed
    <2>4. QED
      BY <2>2, <2>3
  <1>10. LongEnough'
    BY <1>2, <1>3, <1>4 DEF Explanation, LongEnough
  <1>11. overlapped' \in [Threads -> BOOLEAN]
    BY <1>2 DEF Explanation, BeingFilled
  <1>12. QED
    BY <1>1, <1>2, <1>6, <1>7, <1>8, <1>9, <1>10, <1>11, StillExplained DEF Explanation

LEMMA ResetExplanation ==
    ASSUME Explanation, Reset
    PROVE  Explanation'
  <1>1. IInv'
    BY ResetKeeps DEF Explanation
  <1>2. UNCHANGED <<pc, job, at, overlapped, asked, misused>> /\ \A t \in Threads : pc'[t] = "idle"
    BY DEF Reset
  <1>3. TablesAsked'
    BY DimsAssumption DEF Reset, TablesAsked, Vectors, Absent
  <1>4. OnlyTransforms' /\ CallsAsked' /\ Undisturbed' /\ LongEnough'
    BY <1>2 DEF OnlyTransforms, CallsAsked, Undisturbed, LongEnough, Alone
  <1>5. QED
    BY <1>1, <1>2, <1>3, <1>4, StillExplained DEF Explanation

LEMMA NextExplanation == Explanation /\ [Next]_vars => Explanation'
  <1> SUFFICES ASSUME Explanation, [Next]_vars PROVE Explanation'
    OBVIOUS
  <1>1. ASSUME NEW t \in Threads, Step(t) PROVE Explanation'
    BY <1>1, TestExplanation, RetestExplanation, EnterExplanation, FillExplanation,
       LookUpExplanation, RunExplanation DEF Step
  <1>2. CASE UNCHANGED vars
    <2>1. IInv'
      BY <1>2, StepKeeps DEF Explanation
    <2>2. QED
      BY <1>2, <2>1 DEF vars, Explanation, OnlyTransforms, CallsAsked, TablesAsked, Undisturbed,
         LongEnough, Alone, Mod, MisuseExplained
  <1>3. QED
    BY <1>1, <1>2, CallExplanation, ResetExplanation DEF Next

\* A transform runs on tables of another dimension or root only when another
\* thread filled them during the call, or when someone had asked for the same
\* modulus and dimension with another root.
THEOREM MisuseExplainedHolds == Spec => []MisuseExplained
  <1>1. Explanation => MisuseExplained
    BY DEF Explanation
  <1>2. QED
    BY <1>1, InitExplanation, NextExplanation, PTL DEF Spec
=============================================================================
