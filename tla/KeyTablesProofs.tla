-------------------------- MODULE KeyTablesProofs --------------------------
(***************************************************************************)
(* OneContextPerParams, KeysServeTheirTag, ClearRemovesContext and KeysKept *)
(* for any parameters, key pairs and contexts.  The inductive invariant     *)
(* follows a key through the stream: what was written there, too, has the   *)
(* parameters its pair was generated for, so that a key that is read gets   *)
(* the registered context of these parameters.                              *)
(***************************************************************************)
EXTENDS KeyTables, FiniteSetTheorems, WellFoundedInduction, TLAPS

Types ==
    /\ params \in Seq(Params)
    /\ registry \in Seq(Contexts)
    /\ released \in BOOLEAN
    /\ pairOf \in [Tags -> Params \union {NoParams}]
    /\ secret \in [Tags -> Contexts \union {0}]
    /\ DOMAIN tables = Tables

Unique ==
    \A j, k \in DOMAIN registry :
        params[registry[j]] = params[registry[k]] => j = k

Ordered ==
    ~released => /\ Len(registry) = Len(params)
                 /\ \A k \in Contexts : registry[k] = k

SecretsServe ==
    \A t \in Tags : secret[t] # 0 => params[secret[t]] = pairOf[t]

\* The keys of a table belong to contexts of their pair's parameters ...
EntryServes(entry, t) ==
    /\ DOMAIN entry \subseteq Nat
    /\ \A i \in DOMAIN entry : entry[i] \in Contexts /\ params[entry[i]] = pairOf[t]

TableServes(table) ==
    /\ DOMAIN table \subseteq Tags
    /\ \A t \in DOMAIN table : EntryServes(table[t], t)

KeysServe == \A n \in Tables : TableServes(tables[n])

\* ... and those of a stream name these parameters.
StreamServes ==
    stream # NoStream =>
        /\ DOMAIN stream.keys \subseteq Tags
        /\ \A t \in DOMAIN stream.keys :
            /\ DOMAIN stream.keys[t] \subseteq Nat
            /\ \A i \in DOMAIN stream.keys[t] :
                stream.keys[t][i] \in Params /\ stream.keys[t][i] = pairOf[t]

IInv == Types /\ Unique /\ Ordered /\ SecretsServe /\ KeysServe /\ StreamServes
-----------------------------------------------------------------------------
\* A sequence of the elements of a finite set has each of them once.
LEMMA SequenceOfSet ==
    ASSUME NEW S, IsFiniteSet(S), NEW new \in SetToSeqs(S)
    PROVE  /\ new \in Seq(S)
           /\ \A i, j \in DOMAIN new : new[i] = new[j] => i = j
           /\ \A x \in S : \E i \in DOMAIN new : new[i] = x
  <1>1. Cardinality(S) \in Nat
    BY FS_CardinalityType
  <1>2. /\ new \in [1..Cardinality(S) -> S]
        /\ \A i, j \in 1..Cardinality(S) : i # j => new[i] # new[j]
    BY DEF SetToSeqs
  <1>3. new \in Injection(1..Cardinality(S), S)
    BY <1>2, Zenon DEF Injection, IsInjective
  <1>4. Cardinality(1..Cardinality(S)) = Cardinality(S)
    BY <1>1, FS_Interval
  <1>5. new \in Surjection(1..Cardinality(S), S)
    BY <1>3, <1>4, FS_Injection
  <1>6. QED
    BY <1>1, <1>2, <1>5 DEF Surjection

LEMMA Appended ==
    ASSUME NEW S, NEW s \in Seq(S), NEW u \in Seq(S)
    PROVE  /\ s \o u \in Seq(S) /\ Len(s \o u) = Len(s) + Len(u)
           /\ \A k \in 1..Len(s) : (s \o u)[k] = s[k]
           /\ \A k \in 1..Len(u) : (s \o u)[Len(s) + k] = u[k]
  OBVIOUS

\* The positions of two sequences in the one they make.
LEMMA Positions ==
    ASSUME NEW m \in Nat, NEW l \in Nat
    PROVE  /\ \A k \in 1..(m + l) : k \in 1..m \/ \E i \in 1..l : k = m + i
           /\ \A k \in 1..m : k \in 1..(m + l)
           /\ \A i \in 1..l : m + i \in 1..(m + l)
  <1>1. ASSUME NEW k \in 1..(m + l), k \notin 1..m
        PROVE  \E i \in 1..l : k = m + i
    <2>1. k - m \in 1..l /\ k = m + (k - m)
      BY <1>1
    <2>2. QED
      BY <2>1
  <1>2. QED
    BY <1>1

\* What there is after GetContexts(ps): no context changes, no two registered
\* ones are alike, and each of ps has one, which FindContext returns.
LEMMA GetContextsGives ==
    ASSUME IInv, NEW ps \in SUBSET Params, GetContexts(ps), released' = released
    PROVE  /\ params' \in Seq(Params) /\ registry' \in Seq(Contexts')
           /\ Contexts \subseteq Contexts'
           /\ \A c \in Contexts : params'[c] = params[c]
           /\ Unique' /\ Ordered'
           /\ \A p \in ps : FindContext(p) \in Contexts' /\ params'[FindContext(p)] = p
  <1> USE DEF IInv, Types, Contexts
  <1>1. PICK new \in SetToSeqs(ps \ Registered) :
            /\ params' = params \o new
            /\ registry' = registry \o [k \in DOMAIN new |-> Len(params) + k]
    BY DEF GetContexts
  <1>2. /\ new \in Seq(ps \ Registered)
        /\ \A i, j \in DOMAIN new : new[i] = new[j] => i = j
        /\ \A x \in ps \ Registered : \E i \in DOMAIN new : new[i] = x
    <2>1. IsFiniteSet(ps \ Registered)
      BY ParamsAssumption, FS_Subset
    <2>2. QED
      BY <2>1, SequenceOfSet
  <1> DEFINE n == Len(params)
             m == Len(registry)
             l == Len(new)
             added == [k \in DOMAIN new |-> n + k]
  <1>3. /\ n \in Nat /\ m \in Nat /\ l \in Nat /\ DOMAIN new = 1..l
        /\ new \in Seq(Params) /\ DOMAIN registry = 1..m /\ DOMAIN params = 1..n
    BY <1>2
  <1>4. /\ params' \in Seq(Params) /\ Len(params') = n + l
        /\ \A c \in 1..n : params'[c] = params[c]
        /\ \A k \in 1..l : params'[n + k] = new[k]
    BY <1>1, <1>3
  <1>5. added \in Seq(Nat) /\ Len(added) = l /\ \A k \in 1..l : added[k] = n + k
    BY <1>3
  <1> HIDE DEF added
  <1>6. /\ registry' \in Seq(Nat) /\ Len(registry') = m + l
        /\ \A k \in 1..m : registry'[k] = registry[k] /\ registry'[k] \in 1..n
        /\ \A k \in 1..l : registry'[m + k] = n + k
    <2>1. registry \in Seq(1..n) /\ \A k \in 1..m : registry[k] \in 1..n
      BY <1>3
    <2>2. registry' = registry \o added /\ registry \in Seq(Nat)
      BY <1>1, <1>3 DEF added
    <2> HIDE DEF n, m, l
    <2>3. /\ registry' \in Seq(Nat) /\ Len(registry') = Len(registry) + Len(added)
          /\ \A k \in 1..Len(registry) : registry'[k] = registry[k]
          /\ \A k \in 1..Len(added) : registry'[Len(registry) + k] = added[k]
      <3> DEFINE both == registry \o added
      <3>1. /\ both \in Seq(Nat) /\ Len(both) = Len(registry) + Len(added)
            /\ \A k \in 1..Len(registry) : both[k] = registry[k]
            /\ \A k \in 1..Len(added) : both[Len(registry) + k] = added[k]
        <4>1. registry \in Seq(Nat) /\ added \in Seq(Nat)
          BY <1>5, <2>2
        <4>2. QED
          BY <4>1, Appended
      <3>2. registry' = both
        BY <2>2
      <3> HIDE DEF both
      <3>3. QED
        BY <3>1, <3>2
    <2>4. Len(registry) = m /\ Len(added) = l
      BY <1>5 DEF m
    <2>5. \A k \in 1..l : registry'[m + k] = n + k
      BY <1>5, <2>3, <2>4
    <2>6. \A k \in 1..m : registry'[k] = registry[k] /\ registry'[k] \in 1..n
      BY <2>1, <2>3, <2>4
    <2>7. QED
      BY <2>3, <2>4, <2>5, <2>6
  <1>7. /\ \A k \in 1..(m + l) : k \in 1..m \/ \E i \in 1..l : k = m + i
        /\ \A k \in 1..m : k \in 1..(m + l)
        /\ \A i \in 1..l : m + i \in 1..(m + l)
    BY <1>3, Positions
  <1> HIDE DEF n, m, l
  <1>8. registry' \in Seq(Contexts') /\ Contexts \subseteq Contexts'
    <2>1. Len(params') = n + l /\ Contexts = 1..n
      BY <1>4 DEF n
    <2>2. \A k \in 1..(m + l) : registry'[k] \in 1..(n + l)
      <3>0. \A x \in 1..n : x \in 1..(n + l)
        BY <1>3
      <3>1. \A k \in 1..m : registry'[k] \in 1..(n + l)
        BY <1>6, <3>0
      <3>2. \A i \in 1..l : registry'[m + i] \in 1..(n + l)
        <4>1. \A i \in 1..l : n + i \in 1..(n + l)
          BY <1>3
        <4>2. \A i \in 1..l : registry'[m + i] = n + i
          BY <1>6
        <4>3. QED
          BY <4>1, <4>2
      <3>3. QED
        BY <1>7, <3>1, <3>2
    <2>3. QED
      BY <1>3, <1>6, <2>1, <2>2
  \* The parameters of the registered contexts, old and new.
  <1>9. /\ \A k \in 1..m : /\ params'[registry'[k]] = params[registry[k]]
                           /\ params'[registry'[k]] \in Registered
        /\ \A k \in 1..l : /\ params'[registry'[m + k]] = new[k]
                           /\ new[k] \notin Registered
    <2>1. \A k \in 1..m : params[registry[k]] \in Registered
      BY <1>3 DEF Registered, Range
    <2>2. \A k \in 1..m : params'[registry'[k]] = params[registry[k]]
      BY <1>4, <1>6
    <2>3. \A k \in 1..l : params'[registry'[m + k]] = new[k]
      BY <1>4, <1>6
    <2>4. \A k \in 1..l : new[k] \in ps \ Registered
      BY <1>2, <1>3
    <2>5. QED
      BY <2>1, <2>2, <2>3, <2>4
  <1>10. Unique'
    <2>1. DOMAIN registry' = 1..(m + l)
      BY <1>6
    <2>2. \A j, k \in 1..m : params'[registry'[j]] = params'[registry'[k]] => j = k
      BY ZenonT(60), <1>3, <1>9 DEF Unique
    <2>3. \A j, k \in 1..l : new[j] = new[k] => j = k
      BY <1>2, <1>3
    <2> SUFFICES ASSUME NEW j \in 1..(m + l), NEW k \in 1..(m + l),
                        params'[registry'[j]] = params'[registry'[k]]
                 PROVE  j = k
      BY <2>1 DEF Unique
    <2>4. CASE j \in 1..m /\ k \in 1..m
      BY <2>2, <2>4
    <2>5. ASSUME NEW i \in 1..l, j = m + i, k \in 1..m PROVE FALSE
      BY <1>9, <2>5
    <2>6. ASSUME NEW i \in 1..l, k = m + i, j \in 1..m PROVE FALSE
      BY <1>9, <2>6
    <2>7. ASSUME NEW i \in 1..l, NEW h \in 1..l, j = m + i, k = m + h PROVE j = k
      BY <1>9, <2>3, <2>7
    <2>8. QED
      BY <1>7, <2>4, <2>5, <2>6, <2>7
  <1>11. Ordered'
    <2> SUFFICES ASSUME ~released
                 PROVE  Len(registry') = Len(params') /\ \A k \in Contexts' : registry'[k] = k
      BY DEF Ordered
    <2>1. m = n /\ \A k \in 1..n : registry[k] = k
      BY DEF Ordered, m, n
    <2>2. \A k \in 1..(m + l) : registry'[k] = k
      <3>1. \A k \in 1..m : registry'[k] = k
        BY <1>6, <2>1
      <3>2. \A i \in 1..l : registry'[m + i] = m + i
        BY <1>6, <2>1
      <3>3. QED
        BY <1>7, <3>1, <3>2
    <2>3. QED
      BY <1>4, <1>6, <2>1, <2>2
  <1>12. ASSUME NEW p \in ps
         PROVE  FindContext(p) \in Contexts' /\ params'[FindContext(p)] = p
    <2> DEFINE Is(k) == /\ params'[registry'[k]] = p
                        /\ \A j \in 1..(k-1) : params'[registry'[j]] # p
    <2>0. DOMAIN registry' = 1..(m + l)
      BY <1>6
    <2>1. \E k \in DOMAIN registry' : params'[registry'[k]] = p
      <3>1. CASE p \in Registered
        <4>1. PICK k \in 1..m : params[registry[k]] = p
          BY <1>3, <3>1 DEF Registered, Range
        <4>2. k \in DOMAIN registry' /\ params'[registry'[k]] = p
          BY <1>9, <2>0, <4>1, <1>7
        <4>3. QED
          BY <4>2
      <3>2. CASE p \notin Registered
        <4>1. PICK i \in 1..l : new[i] = p
          BY <1>2, <1>3, <3>2
        <4>2. m + i \in DOMAIN registry' /\ params'[registry'[m + i]] = p
          BY <1>9, <2>0, <4>1, <1>7
        <4>3. QED
          BY <4>2
      <3>3. QED
        BY <3>1, <3>2
    <2>2. PICK k \in DOMAIN registry' : params'[registry'[k]] = p
      BY <2>1
    <2>3. Is(k)
      <3>1. \A j \in 1..(k-1) : j \in DOMAIN registry' /\ j # k
        BY <1>3, <1>6
      <3>2. QED
        BY <1>10, <2>2, <3>1 DEF Unique
    <2> DEFINE q == CHOOSE i \in DOMAIN registry' : Is(i)
    <2>4. q \in DOMAIN registry' /\ Is(q)
      BY <2>3
    <2>5. FindContext(p) = registry'[q]
      BY DEF FindContext
    <2> HIDE DEF q
    <2>6. registry'[q] \in Contexts'
      BY <1>8, <2>4
    <2>7. QED
      BY <2>4, <2>5, <2>6
  <1>13. QED
    BY <1>4, <1>8, <1>10, <1>11, <1>12 DEF n
-----------------------------------------------------------------------------
LEMMA InitHolds == Init => IInv
  <1> SUFFICES ASSUME Init PROVE IInv
    OBVIOUS
  <1>1. Types
    <2>1. params \in Seq(Params) /\ registry \in Seq(Contexts) /\ released \in BOOLEAN
      <3>1. params = << >> /\ registry = << >> /\ released = FALSE
        BY DEF Init
      <3>2. released \in BOOLEAN
        BY <3>1
      <3>3. \A S : << >> \in Seq(S)
        OBVIOUS
      <3>4. QED
        BY <3>1, <3>2, <3>3
    <2>2. /\ pairOf \in [Tags -> Params \union {NoParams}]
          /\ secret \in [Tags -> Contexts \union {0}]
      BY DEF Init
    <2>3. DOMAIN tables = Tables
      BY DEF Init, EmptyTables
    <2>4. QED
      BY <2>1, <2>2, <2>3 DEF Types
  <1>2. Unique /\ Ordered
    BY DEF Init, Unique, Ordered, Contexts
  <1>3. SecretsServe /\ KeysServe /\ StreamServes
    BY DEF Init, SecretsServe, KeysServe, TableServes, StreamServes, EmptyTables
  <1>4. QED
    BY <1>1, <1>2, <1>3 DEF IInv

\* What keeps serving its tag when contexts are added and no key changes.
LEMMA StillServes ==
    ASSUME UNCHANGED pairOf, Contexts \subseteq Contexts',
           \A c \in Contexts : params'[c] = params[c]
    PROVE  /\ \A entry, t : EntryServes(entry, t) => EntryServes(entry, t)'
           /\ \A table : TableServes(table) => TableServes(table)'
  <1>1. \A entry, t : EntryServes(entry, t) => EntryServes(entry, t)'
    BY DEF EntryServes
  <1>2. QED
    BY <1>1 DEF TableServes

LEMMA GetContextKeeps ==
    ASSUME IInv, NEW p \in Params, GetContext(p)
    PROVE  IInv'
  <1> USE DEF IInv
  <1>1. /\ GetContexts({p}) /\ {p} \in SUBSET Params
        /\ UNCHANGED <<secret, tables, stream, pairOf, released>>
    BY DEF GetContext
  <1>2. /\ params' \in Seq(Params) /\ registry' \in Seq(Contexts')
        /\ Contexts \subseteq Contexts' /\ \A c \in Contexts : params'[c] = params[c]
        /\ Unique' /\ Ordered'
    BY <1>1, GetContextsGives
  <1>3. Types'
    BY <1>1, <1>2 DEF Types
  <1>4. SecretsServe'
    BY <1>1, <1>2 DEF SecretsServe, Types
  <1>5. KeysServe'
    BY <1>1, <1>2, StillServes DEF KeysServe
  <1>6. StreamServes'
    BY <1>1 DEF StreamServes
  <1>7. QED
    BY <1>2, <1>3, <1>4, <1>5, <1>6

LEMMA ReleaseKeeps ==
    ASSUME IInv, ReleaseAllContexts
    PROVE  IInv'
  <1> USE DEF IInv, ReleaseAllContexts
  <1>1. Types'
    BY DEF Types, Contexts
  <1>2. Unique' /\ Ordered'
    BY DEF Unique, Ordered
  <1>3. SecretsServe' /\ KeysServe' /\ StreamServes'
    BY DEF SecretsServe, KeysServe, TableServes, EntryServes, StreamServes, Contexts
  <1>4. QED
    BY <1>1, <1>2, <1>3

\* A tag that has no pair yet has no key anywhere, so that its parameters can
\* be settled.
LEMMA KeyGenKeeps ==
    ASSUME IInv, NEW c \in Contexts, NEW t \in Tags, KeyGen(c, t)
    PROVE  IInv'
  <1> USE DEF IInv
  <1>1. /\ pairOf[t] = NoParams /\ c \in Contexts /\ params[c] \in Params
        /\ secret' = [secret EXCEPT ![t] = c]
        /\ pairOf' = [pairOf EXCEPT ![t] = params[c]]
        /\ UNCHANGED <<params, registry, tables, stream, released>>
    BY DEF KeyGen, Types, Contexts
  <1>2. Types'
    BY <1>1 DEF Types, Contexts
  <1>3. Unique' /\ Ordered'
    BY <1>1 DEF Unique, Ordered, Contexts
  <1>4. SecretsServe'
    BY <1>1 DEF SecretsServe, Types
  <1>5. \A x \in Contexts : params[x] # pairOf[t]
    BY <1>1, NoParamsAssumption DEF Types, Contexts
  <1>6. KeysServe'
    <2> SUFFICES ASSUME NEW n \in Tables, NEW u \in DOMAIN tables[n]
                 PROVE  u \in Tags /\ EntryServes(tables[n][u], u)'
      BY <1>1 DEF KeysServe, TableServes
    <2>1. u \in Tags /\ EntryServes(tables[n][u], u)
      BY DEF KeysServe, TableServes
    <2>2. CASE u = t
      <3>1. DOMAIN tables[n][u] = {}
        BY <1>5, <2>1, <2>2 DEF EntryServes
      <3>2. QED
        BY <1>1, <2>1, <3>1 DEF EntryServes
    <2>3. CASE u # t
      BY <1>1, <2>1, <2>3 DEF EntryServes, Contexts, Types
    <2>4. QED
      BY <2>2, <2>3
  <1>7. StreamServes'
    BY <1>1, NoParamsAssumption DEF StreamServes, Types
  <1>8. QED
    BY <1>2, <1>3, <1>4, <1>6, <1>7

LEMMA LoadKeyPairKeeps ==
    ASSUME IInv, NEW t \in Tags, LoadKeyPair(t)
    PROVE  IInv'
  <1> USE DEF IInv
  <1> DEFINE p == pairOf[t]
  <1>1. /\ p \in Params /\ GetContexts({p})
        /\ secret' = [secret EXCEPT ![t] = FindContext(p)]
        /\ UNCHANGED <<tables, stream, pairOf, released>>
    BY DEF LoadKeyPair, Types
  <1>2. {p} \in SUBSET Params /\ released' = released
    BY <1>1
  <1>3. /\ params' \in Seq(Params) /\ registry' \in Seq(Contexts')
        /\ Contexts \subseteq Contexts' /\ \A c \in Contexts : params'[c] = params[c]
        /\ Unique' /\ Ordered'
        /\ \A q \in {p} : FindContext(q) \in Contexts' /\ params'[FindContext(q)] = q
    BY <1>1, <1>2, GetContextsGives
  <1> HIDE DEF p
  <1>4. FindContext(p) \in Contexts' /\ params'[FindContext(p)] = p
    BY <1>3
  <1>5. Types'
    BY <1>1, <1>3, <1>4 DEF Types
  <1>6. SecretsServe'
    BY <1>1, <1>3, <1>4 DEF SecretsServe, Types, p
  <1>7. KeysServe'
    BY <1>1, <1>3, StillServes DEF KeysServe
  <1>8. StreamServes'
    BY <1>1 DEF StreamServes
  <1>9. QED
    BY <1>3, <1>5, <1>6, <1>7, <1>8

\* The tables are others and nothing else changes.
LEMMA TablesKeep ==
    ASSUME IInv, DOMAIN tables' = Tables, \A n \in Tables : TableServes(tables'[n]),
           OnlyTables
    PROVE  IInv'
  <1> USE DEF IInv, OnlyTables
  <1>1. Types' /\ Unique' /\ Ordered' /\ SecretsServe' /\ StreamServes'
    BY DEF Types, Unique, Ordered, SecretsServe, StreamServes, Contexts
  <1>2. \A x : TableServes(x) => TableServes(x)'
    <2>1. /\ UNCHANGED pairOf /\ Contexts \subseteq Contexts'
          /\ \A c \in Contexts : params'[c] = params[c]
      BY DEF Contexts
    <2>2. QED
      BY <2>1, StillServes
  <1>3. QED
    BY <1>1, <1>2 DEF KeysServe

\* One table takes the place of another.
LEMMA SetTableKeeps ==
    ASSUME IInv, NEW n \in Tables, NEW table, TableServes(table),
           tables' = [tables EXCEPT ![n] = table], OnlyTables
    PROVE  IInv'
  <1>1. DOMAIN tables' = Tables /\ \A m \in Tables : TableServes(tables'[m])
    BY DEF IInv, Types, KeysServe
  <1>2. QED
    BY <1>1, TablesKeep

\* Keys of the context that a tag's pair has here.
LEMMA NewKeysServe ==
    ASSUME IInv, NEW t \in Tags, secret[t] # 0, NEW I \in SUBSET Nat
    PROVE  EntryServes(Keys(I, secret[t]), t)
  BY DEF IInv, Types, SecretsServe, EntryServes, Keys

LEMMA PutKeeps ==
    ASSUME IInv, NEW n \in Tables, NEW t \in Tags, NEW entry,
           EntryServes(entry, t), Put(n, t, entry), OnlyTables
    PROVE  IInv'
  <1> DEFINE table == Joined([u \in {t} |-> entry], tables[n])
  <1>1. tables' = [tables EXCEPT ![n] = table]
    BY DEF Put
  <1>2. TableServes(tables[n])
    BY DEF IInv, KeysServe
  <1>3. TableServes(table)
    BY <1>2 DEF TableServes, Joined
  <1> HIDE DEF table
  <1>4. QED
    BY <1>1, <1>3, SetTableKeeps

LEMMA SumKeysServe ==
    ASSUME IInv, NEW t \in Tags, secret[t] # 0
    PROVE  EntryServes(SumKeys(t), t)
  <1> DEFINE I == SumIndices[params[secret[t]]]
  <1>1. params[secret[t]] \in Params
    BY DEF IInv, Types, Contexts
  <1>2. I \in SUBSET Nat
    BY <1>1, IndicesAssumption
  <1>3. SumKeys(t) = Keys(I, secret[t])
    BY DEF SumKeys
  <1> HIDE DEF I
  <1>4. QED
    BY <1>2, <1>3, NewKeysServe

\* Keys for rotations, new or joined to those of the tag.
LEMMA RotationsServe ==
    ASSUME IInv, NEW t \in Tags, secret[t] # 0, NEW I \in IndexLists
    PROVE  EntryServes(WithRotations(t, I), t)
  <1> DEFINE new == Keys(I, secret[t])
             old == tables["auto"][t]
             entry == IF t \in DOMAIN tables["auto"] THEN MergedKeys(old, new) ELSE new
  <1>1. I \in SUBSET Nat
    BY IndicesAssumption
  <1>2. EntryServes(new, t)
    BY <1>1, NewKeysServe
  <1>3. t \in DOMAIN tables["auto"] => EntryServes(old, t)
    BY DEF IInv, KeysServe, TableServes, Tables
  <1>4. WithRotations(t, I) = entry
    BY DEF WithRotations
  <1> HIDE DEF new, old
  <1>5. EntryServes(entry, t)
    BY <1>2, <1>3 DEF MergedKeys, Joined, EntryServes
  <1>6. QED
    BY <1>4, <1>5

LEMMA SwitchingKeeps ==
    ASSUME IInv, NEW t \in Tags, NEW I \in IndexLists, NEW made \in SUBSET Tables,
           SchemeSwitchingKeyGen(t, I, made)
    PROVE  IInv'
  <1> DEFINE keys(n) == SwitchingKeys(n, t, I)
             table(n) == IF n \in made THEN Joined([u \in {t} |-> keys(n)], tables[n])
                                       ELSE tables[n]
  <1>1. secret[t] # 0 /\ tables' = [n \in Tables |-> table(n)] /\ OnlyTables
    BY DEF SchemeSwitchingKeyGen
  <1>2. ASSUME NEW n \in Tables
        PROVE  EntryServes(keys(n), t)
    <2>1. CASE n = "mult"
      <3>1. EntryServes(Keys({0}, secret[t]), t)
        BY <1>1, NewKeysServe
      <3>2. QED
        BY <2>1, <3>1 DEF SwitchingKeys
    <2>2. CASE n = "sum"
      BY <1>1, <2>2, SumKeysServe DEF SwitchingKeys
    <2>3. CASE n = "auto"
      BY <1>1, <2>3, RotationsServe DEF SwitchingKeys
    <2>4. QED
      BY <2>1, <2>2, <2>3 DEF Tables
  <1> HIDE DEF keys
  <1>3. \A n \in Tables : TableServes(table(n))
    BY <1>2 DEF IInv, KeysServe, TableServes, Joined
  <1> HIDE DEF table
  <1>4. DOMAIN tables' = Tables /\ \A n \in Tables : TableServes(tables'[n])
    BY <1>1, <1>3
  <1>5. QED
    BY <1>1, <1>4, TablesKeep

LEMMA GeneratorsKeep ==
    ASSUME IInv, NEW t \in Tags,
           \/ \E I \in IndexSets("mult") : EvalMultKeyGen(t, I)
           \/ EvalSumKeyGen(t)
           \/ \E I \in IndexLists : EvalAtIndexKeyGen(t, I)
           \/ \E I \in IndexLists, made \in SUBSET Tables : SchemeSwitchingKeyGen(t, I, made)
           \/ \E n \in Tables : \E I \in IndexSets(n) : InsertKeys(n, t, I)
    PROVE  IInv'
  <1>1. \A n \in Tables : \A I \in IndexSets(n) : I \in SUBSET Nat
    BY IndicesAssumption DEF IndexSets
  <1>2. "mult" \in Tables /\ "sum" \in Tables /\ "auto" \in Tables
    BY DEF Tables
  <1>3. ASSUME NEW n \in Tables, NEW I \in IndexSets(n), secret[t] # 0,
               Put(n, t, Keys(I, secret[t])), OnlyTables
        PROVE  IInv'
    BY <1>1, <1>3, NewKeysServe, PutKeeps
  <1>4. ASSUME NEW I \in IndexSets("mult"), EvalMultKeyGen(t, I) PROVE IInv'
    BY <1>2, <1>3, <1>4 DEF EvalMultKeyGen
  <1>5. ASSUME NEW n \in Tables, NEW I \in IndexSets(n), InsertKeys(n, t, I) PROVE IInv'
    BY <1>3, <1>5 DEF InsertKeys
  <1>6. CASE EvalSumKeyGen(t)
    BY <1>2, <1>6, SumKeysServe, PutKeeps DEF EvalSumKeyGen
  <1>7. ASSUME NEW I \in IndexLists, EvalAtIndexKeyGen(t, I) PROVE IInv'
    BY <1>2, <1>7, RotationsServe, PutKeeps DEF EvalAtIndexKeyGen
  <1>8. QED
    BY <1>4, <1>5, <1>6, <1>7, SwitchingKeeps

LEMMA ClearsKeep ==
    ASSUME IInv, NEW n \in Tables,
           \/ ClearAll(n)
           \/ \E t \in Tags : ClearTag(n, t)
           \/ \E c \in Contexts : ClearContext(n, c)
    PROVE  IInv'
  <1>1. ASSUME NEW gone, tables' = [tables EXCEPT ![n] = Without(@, gone)], OnlyTables
        PROVE  IInv'
    <2> DEFINE table == Without(tables[n], gone)
    <2>1. TableServes(tables[n])
      BY DEF IInv, KeysServe
    <2>2. TableServes(table)
      BY <2>1 DEF TableServes, Without
    <2>3. tables' = [tables EXCEPT ![n] = table]
      BY <1>1
    <2> HIDE DEF table
    <2>4. QED
      BY <1>1, <2>2, <2>3, SetTableKeeps
  <1>2. CASE ClearAll(n)
    <2> DEFINE table == << >>
    <2>1. TableServes(table)
      BY DEF TableServes
    <2>2. tables' = [tables EXCEPT ![n] = table] /\ OnlyTables
      BY <1>2 DEF ClearAll
    <2> HIDE DEF table
    <2>3. QED
      BY <2>1, <2>2, SetTableKeeps
  <1>3. ASSUME NEW t \in Tags, ClearTag(n, t) PROVE IInv'
    BY <1>1, <1>3 DEF ClearTag
  <1>4. ASSUME NEW c \in Contexts, ClearContext(n, c) PROVE IInv'
    BY <1>1, <1>4 DEF ClearContext
  <1>5. QED
    BY <1>2, <1>3, <1>4

LEMMA WriteKeeps ==
    ASSUME IInv, NEW n \in Tables,
           \/ \E t \in Tags : SerializeTag(n, t)
           \/ \E c \in Contexts : SerializeContext(n, c)
           \/ SerializeAll(n)
    PROVE  IInv'
  <1> USE DEF IInv
  <1>1. PICK chosen \in SUBSET DOMAIN tables[n] : Write(n, chosen)
    BY DEF SerializeTag, SerializeContext, SerializeAll, EntriesOf
  <1>2. /\ stream' = [table |-> n,
                      keys |-> [t \in chosen |-> Serialized(tables[n][t])]]
        /\ UNCHANGED <<params, registry, secret, tables, released, pairOf>>
    BY <1>1 DEF Write, memory
  <1>3. Types' /\ Unique' /\ Ordered' /\ SecretsServe'
    BY <1>2 DEF Types, Unique, Ordered, SecretsServe, Contexts
  <1>4. KeysServe'
    BY <1>2 DEF KeysServe, TableServes, EntryServes, Contexts
  <1>5. StreamServes'
    <2>1. DOMAIN stream'.keys = chosen
      BY <1>2
    <2>2. ASSUME NEW t \in chosen
          PROVE  LET e == stream'.keys[t] IN
                 /\ t \in Tags /\ DOMAIN e \subseteq Nat
                 /\ \A i \in DOMAIN e : e[i] \in Params /\ e[i] = pairOf[t]
      <3> DEFINE old == tables[n][t]
      <3>1. t \in Tags /\ EntryServes(old, t)
        BY DEF KeysServe, TableServes
      <3>2. stream'.keys[t] = [i \in DOMAIN old |-> params[old[i]]]
        BY <1>2 DEF Serialized
      <3> HIDE DEF old
      <3>3. \A c \in Contexts : params[c] \in Params
        BY DEF Types, Contexts
      <3>4. QED
        BY <3>1, <3>2, <3>3 DEF EntryServes
    <2>3. QED
      BY <1>2, <2>1, <2>2 DEF StreamServes
  <1>6. QED
    BY <1>3, <1>4, <1>5

LEMMA DeserializeKeeps ==
    ASSUME IInv, NEW n \in Tables, Deserialize(n)
    PROVE  IInv'
  <1> USE DEF IInv
  <1> DEFINE ps == UNION {Range(stream.keys[t]) : t \in DOMAIN stream.keys}
             read == [t \in DOMAIN stream.keys |-> InContext(stream.keys[t])]
             loaded == Loaded(n, read)
             Good(e, t) == /\ DOMAIN e \subseteq Nat
                           /\ \A i \in DOMAIN e : /\ e[i] \in Contexts'
                                                  /\ params'[e[i]] = pairOf'[t]
  <1>1. /\ stream # NoStream /\ GetContexts(ps)
        /\ tables' = [tables EXCEPT ![n] = loaded]
        /\ UNCHANGED <<secret, stream, pairOf, released>>
    BY DEF Deserialize
  <1>2. /\ DOMAIN stream.keys \subseteq Tags
        /\ \A t \in DOMAIN stream.keys :
            /\ DOMAIN stream.keys[t] \subseteq Nat
            /\ \A i \in DOMAIN stream.keys[t] :
                /\ stream.keys[t][i] \in Params /\ stream.keys[t][i] = pairOf[t]
                /\ stream.keys[t][i] \in ps
    BY <1>1 DEF StreamServes, Range
  <1>3. ps \in SUBSET Params
    BY <1>2 DEF Range
  <1>4. /\ params' \in Seq(Params) /\ registry' \in Seq(Contexts')
        /\ Contexts \subseteq Contexts' /\ \A c \in Contexts : params'[c] = params[c]
        /\ Unique' /\ Ordered'
        /\ \A p \in ps : FindContext(p) \in Contexts' /\ params'[FindContext(p)] = p
    BY <1>1, <1>3, GetContextsGives
  <1>5. ASSUME NEW t \in DOMAIN stream.keys
        PROVE  t \in Tags /\ Good(read[t], t)
    <2> DEFINE e == stream.keys[t]
    <2>1. read[t] = [i \in DOMAIN e |-> FindContext(e[i])]
      BY DEF InContext
    <2>2. /\ DOMAIN e \subseteq Nat /\ t \in Tags
          /\ \A i \in DOMAIN e : e[i] \in ps /\ e[i] = pairOf[t]
      BY <1>2
    <2> HIDE DEF e, ps
    <2>3. \A i \in DOMAIN e : /\ FindContext(e[i]) \in Contexts'
                              /\ params'[FindContext(e[i])] = pairOf'[t]
      BY <1>1, <1>4, <2>2
    <2>4. /\ DOMAIN read[t] = DOMAIN e
          /\ \A i \in DOMAIN e : read[t][i] = FindContext(e[i])
      BY <2>1
    <2> HIDE DEF read
    <2>5. QED
      BY <2>2, <2>3, <2>4
  <1>6. Types'
    BY <1>1, <1>4 DEF Types
  <1>7. SecretsServe'
    <2>1. \A t \in Tags : secret[t] # 0 => secret[t] \in Contexts
      BY DEF Types
    <2>2. QED
      BY <1>1, <1>4, <2>1 DEF SecretsServe
  <1>8. StreamServes'
    BY <1>1 DEF StreamServes
  <1>9. \A m \in Tables : \A t \in DOMAIN tables[m] : t \in Tags /\ Good(tables[m][t], t)
    BY <1>1, <1>4 DEF KeysServe, TableServes, EntryServes
  <1>10. DOMAIN read = DOMAIN stream.keys
    OBVIOUS
  <1> HIDE DEF ps, read, Good
  <1>11. \A t \in DOMAIN loaded : t \in Tags /\ Good(loaded[t], t)
    BY <1>5, <1>9, <1>10 DEF Loaded, Joined
  <1> HIDE DEF loaded
  <1>12. \A m \in Tables : \A t \in DOMAIN tables'[m] : t \in Tags /\ Good(tables'[m][t], t)
    BY <1>1, <1>9, <1>11 DEF Types
  <1>13. KeysServe'
    BY <1>12 DEF KeysServe, TableServes, EntryServes, Good
  <1>14. QED
    BY <1>4, <1>6, <1>7, <1>8, <1>13

LEMMA NewProcessKeeps == IInv /\ NewProcess => IInv'
  <1> SUFFICES ASSUME IInv, NewProcess PROVE IInv'
    OBVIOUS
  <1>1. /\ params' = << >> /\ registry' = << >> /\ released' = FALSE
        /\ secret' = [t \in Tags |-> 0] /\ tables' = EmptyTables
        /\ UNCHANGED <<stream, pairOf>>
    BY DEF NewProcess
  <1>2. Types'
    <2>1. \A S : << >> \in Seq(S)
      OBVIOUS
    <2>2. secret' \in [Tags -> Contexts' \union {0}] /\ DOMAIN tables' = Tables
      BY <1>1 DEF EmptyTables
    <2>3. /\ pairOf' \in [Tags -> Params \union {NoParams}]
          /\ released' \in BOOLEAN
      BY <1>1 DEF IInv, Types
    <2>4. QED
      BY <1>1, <2>1, <2>2, <2>3 DEF Types
  <1>3. Unique' /\ Ordered'
    BY <1>1 DEF Unique, Ordered, Contexts
  <1>4. SecretsServe' /\ KeysServe'
    BY <1>1 DEF SecretsServe, KeysServe, TableServes, EmptyTables
  <1>5. StreamServes'
    BY <1>1 DEF IInv, StreamServes
  <1>6. QED
    BY <1>2, <1>3, <1>4, <1>5 DEF IInv

LEMMA StepKeeps == IInv /\ [Next]_vars => IInv'
  <1> SUFFICES ASSUME IInv, [Next]_vars PROVE IInv'
    OBVIOUS
  <1>1. CASE UNCHANGED vars
    BY <1>1 DEF vars, memory, IInv, Types, Unique, Ordered, SecretsServe, KeysServe,
       StreamServes, TableServes, EntryServes, Contexts
  <1>2. CASE Next
    BY <1>2, GetContextKeeps, ReleaseKeeps, KeyGenKeeps, LoadKeyPairKeeps, GeneratorsKeep,
       ClearsKeep, WriteKeeps, DeserializeKeeps, NewProcessKeeps DEF Next
  <1>3. QED
    BY <1>1, <1>2

\* The invariant holds of any parameters, pairs and contexts.
THEOREM InvariantHolds == Spec => []IInv
  <1>1. QED
    BY InitHolds, StepKeeps, PTL DEF Spec

\* Equal parameters share one registered context, and as long as contexts are
\* not released one context altogether (CryptoContextFactory::GetContext).
THEOREM OneContextPerParamsHolds == Spec => []OneContextPerParams
  <1>1. IInv => OneContextPerParams
    <2> SUFFICES ASSUME IInv PROVE OneContextPerParams
      OBVIOUS
    <2>1. ~released => registry = [k \in DOMAIN params |-> k]
      <3>1. params \in Seq(Params) /\ registry \in Seq(Contexts)
        BY DEF IInv, Types
      <3>2. QED
        BY <3>1 DEF IInv, Ordered, Contexts
    <2>2. QED
      BY <2>1 DEF IInv, Unique, OneContextPerParams
  <1>2. QED
    BY <1>1, InvariantHolds, PTL

\* Contexts that are not released are told apart by their parameters.
LEMMA SameParams ==
    ASSUME IInv, ~released, NEW c \in Contexts, NEW d \in Contexts, params[c] = params[d]
    PROVE  c = d
  <1>1. Len(registry) = Len(params) /\ \A k \in Contexts : registry[k] = k
    BY DEF IInv, Ordered
  <1>2. DOMAIN registry = Contexts
    BY <1>1 DEF IInv, Types, Contexts
  <1>3. QED
    BY <1>1, <1>2 DEF IInv, Unique

\* Every key in the tables is of its pair's parameters, and unless contexts were
\* released of the very context the pair has here, whether it was made here,
\* inserted or read from a stream (InsertEvalMultKey, DeserializeEvalMultKey).
THEOREM KeysServeTheirTagHolds == Spec => []KeysServeTheirTag
  <1>1. IInv => KeysServeTheirTag
    <2> SUFFICES ASSUME IInv, NEW n \in Tables, NEW t \in DOMAIN tables[n],
                        NEW c \in Range(tables[n][t])
                 PROVE  /\ params[c] = pairOf[t]
                        /\ ~released => c \in Range(registry) /\ secret[t] \in {0, c}
      BY DEF KeysServeTheirTag
    <2>1. t \in Tags /\ c \in Contexts /\ params[c] = pairOf[t]
      BY DEF IInv, KeysServe, TableServes, EntryServes, Range
    <2>2. CASE ~released
      <3>1. secret[t] # 0 => secret[t] \in Contexts /\ params[secret[t]] = params[c]
        BY <2>1 DEF IInv, Types, SecretsServe
      <3>2. secret[t] \in {0, c}
        BY <2>1, <2>2, <3>1, SameParams
      <3>3. Len(registry) = Len(params) /\ registry[c] = c
        BY <2>1, <2>2 DEF IInv, Ordered
      <3>4. c \in DOMAIN registry
        BY <2>1, <3>3 DEF IInv, Types, Contexts
      <3>5. QED
        BY <2>1, <3>2, <3>3, <3>4 DEF Range
    <2>3. QED
      BY <2>1, <2>2
  <1>2. QED
    BY <1>1, InvariantHolds, PTL
-----------------------------------------------------------------------------
(* What a step may do to the keys.                                           *)

LessThan == {pair \in Nat \X Nat : pair[1] < pair[2]}

\* So the first key of an entry that is not empty is one of its keys.
LEMMA FirstKeyIsKey ==
    ASSUME NEW entry, DOMAIN entry \in SUBSET Nat, DOMAIN entry # {}
    PROVE  \E i \in DOMAIN entry : FirstKey(entry) = entry[i]
  <1>1. IsWellFoundedOn(LessThan, Nat)
    <2>1. LessThan = OpToRel(<, Nat)
      BY Zenon DEF OpToRel, LessThan
    <2>2. QED
      BY <2>1, NatLessThanWellFounded, Zenon
  <1>2. PICK m \in DOMAIN entry : \A j \in DOMAIN entry : <<j, m>> \notin LessThan
    BY <1>1, WFMin, Zenon
  <1>3. \A j \in DOMAIN entry : ~(j < m)
    BY <1>2 DEF LessThan
  <1>4. \A j \in DOMAIN entry : m <= j
    BY <1>3
  <1>5. QED
    BY <1>4 DEF FirstKey

\* Clearing a context's keys leaves none of them and all others: all keys of an
\* entry are of one context, so that the first speaks for them
\* (ClearEvalMultKeys(CryptoContext) and its siblings).
THEOREM ClearRemovesContextHolds == Spec => ClearRemovesContext
  <1> DEFINE Removes ==
        \A n \in Tables, c \in Contexts : ClearContext(n, c) /\ ~released =>
          \A t \in DOMAIN tables[n] : \A i \in DOMAIN tables[n][t] :
            Has(n, t, i)' <=> tables[n][t][i] # c
  <1>1. IInv => Removes
    <2> SUFFICES ASSUME IInv, NEW n \in Tables, NEW c \in Contexts,
                        ClearContext(n, c), ~released,
                        NEW t \in DOMAIN tables[n], NEW i \in DOMAIN tables[n][t]
                 PROVE  Has(n, t, i)' <=> tables[n][t][i] # c
      OBVIOUS
    <2> DEFINE e == tables[n][t]
    <2>1. /\ DOMAIN e \in SUBSET Nat
          /\ \A j \in DOMAIN e : e[j] \in Contexts /\ params[e[j]] = pairOf[t]
      BY DEF IInv, KeysServe, TableServes, EntryServes
    <2>2. PICK j \in DOMAIN e : FirstKey(e) = e[j]
      BY <2>1, FirstKeyIsKey
    <2>3. e[j] = e[i]
      BY <2>1, SameParams
    <2>4. t \in EntriesOf(n, c) <=> e[i] = c
      BY <2>2, <2>3 DEF EntriesOf
    <2>5. tables'[n] = Without(tables[n], EntriesOf(n, c))
      BY DEF ClearContext, IInv, Types
    <2>6. Has(n, t, i)' <=> t \notin EntriesOf(n, c)
      BY <2>5 DEF Has, Without
    <2>7. QED
      BY <2>4, <2>6
  <1> HIDE DEF Removes
  <1>2. Spec => [][Removes]_vars
    BY <1>1, InvariantHolds, PTL DEF Spec
  <1>3. QED
    BY <1>2 DEF Removes, ClearRemovesContext

LEMMA PutSpares ==
    ASSUME IInv, NEW m \in Tables, NEW u, NEW entry, Put(m, u, entry),
           NEW n \in Tables, NEW t \in DOMAIN tables[n], NEW i \in DOMAIN tables[n][t],
           m = n /\ u = t => i \in DOMAIN entry
    PROVE  Has(n, t, i)'
  <1>1. tables'[n] = IF m = n THEN Joined([x \in {u} |-> entry], tables[n]) ELSE tables[n]
    BY DEF Put, IInv, Types
  <1>2. QED
    BY <1>1 DEF Has, Joined

\* Making rotation keys keeps all there are.
LEMMA RotationsJoin ==
    ASSUME IInv, NEW t \in Tags, NEW I \in IndexLists, MakesRotations(t, I)
    PROVE  \A u \in DOMAIN tables["auto"] : \A i \in DOMAIN tables["auto"][u] :
             Has("auto", u, i)' /\ tables'["auto"][u][i] = tables["auto"][u][i]
  <1> DEFINE new == WithRotations(t, I)
  <1>1. "auto" \in Tables
    BY DEF Tables
  <1>2. tables'["auto"] = Joined([x \in {t} |-> new], tables["auto"])
    <2>1. CASE EvalAtIndexKeyGen(t, I)
      BY <1>1, <2>1 DEF EvalAtIndexKeyGen, Put, IInv, Types
    <2>2. ASSUME NEW made \in SUBSET Tables, "auto" \in made,
                 SchemeSwitchingKeyGen(t, I, made)
          PROVE  tables'["auto"] = Joined([x \in {t} |-> new], tables["auto"])
      <3>1. SwitchingKeys("auto", t, I) = new
        BY DEF SwitchingKeys
      <3> HIDE DEF new
      <3>2. QED
        BY <1>1, <2>2, <3>1 DEF SchemeSwitchingKeyGen
    <2>3. QED
      BY <2>1, <2>2 DEF MakesRotations
  <1>4. t \in DOMAIN tables["auto"] =>
          \A i \in DOMAIN tables["auto"][t] :
            i \in DOMAIN new /\ new[i] = tables["auto"][t][i]
    BY DEF WithRotations, MergedKeys, Joined
  <1> HIDE DEF new
  <1>5. t \in DOMAIN tables'["auto"] /\ tables'["auto"][t] = new
    BY <1>2 DEF Joined
  <1>6. \A u \in DOMAIN tables["auto"] : u # t =>
          u \in DOMAIN tables'["auto"] /\ tables'["auto"][u] = tables["auto"][u]
    BY <1>2 DEF Joined
  <1>7. QED
    BY <1>4, <1>5, <1>6 DEF Has

\* No operation takes a key away but those that are asked to, and making
\* rotation keys takes none and replaces none (the two parts of KeysKept).
THEOREM KeysKeptHolds == Spec => KeysKept
  <1> DEFINE Kept ==
        \A n \in Tables : \A t \in DOMAIN tables[n] : \A i \in DOMAIN tables[n][t] :
          \/ Has(n, t, i)'
          \/ params' = <<>>
          \/ ClearAll(n) \/ ClearTag(n, t) \/ ClearContext(n, FirstKey(tables[n][t]))
          \/ Deserialize(n) /\ (n = "mult" \/ t \in DOMAIN stream.keys)
          \/ n = "mult" /\ \E I \in IndexSets(n) : EvalMultKeyGen(t, I)
          \/ n = "sum" /\ EvalSumKeyGen(t)
          \/ n \in {"mult", "sum"} /\ \E I \in IndexLists, made \in SUBSET Tables :
               n \in made /\ SchemeSwitchingKeyGen(t, I, made)
          \/ \E I \in IndexSets(n) : InsertKeys(n, t, I)
        Joins ==
          \/ \A t \in DOMAIN tables["auto"] : \A i \in DOMAIN tables["auto"][t] :
               Has("auto", t, i)' /\ tables'["auto"][t][i] = tables["auto"][t][i]
          \/ ~\E t \in Tags, I \in IndexLists : MakesRotations(t, I)
  <1>1. IInv /\ Next => Kept
    <2> SUFFICES ASSUME IInv, Next, NEW n \in Tables, NEW t \in DOMAIN tables[n],
                        NEW i \in DOMAIN tables[n][t], ~Has(n, t, i)'
                 PROVE  \/ params' = <<>>
                        \/ ClearAll(n) \/ ClearTag(n, t)
                        \/ ClearContext(n, FirstKey(tables[n][t]))
                        \/ Deserialize(n) /\ (n = "mult" \/ t \in DOMAIN stream.keys)
                        \/ n = "mult" /\ \E I \in IndexSets(n) : EvalMultKeyGen(t, I)
                        \/ n = "sum" /\ EvalSumKeyGen(t)
                        \/ n \in {"mult", "sum"} /\ \E I \in IndexLists, made \in SUBSET Tables :
                             n \in made /\ SchemeSwitchingKeyGen(t, I, made)
                        \/ \E I \in IndexSets(n) : InsertKeys(n, t, I)
      OBVIOUS
    <2>1. "mult" \in Tables /\ "sum" \in Tables /\ "auto" \in Tables
      BY DEF Tables
    <2>2. tables' # tables
      BY DEF Has
    <2>3. ASSUME NEW m \in Tables, NEW u, NEW entry, Put(m, u, entry)
          PROVE  m = n /\ u = t /\ i \notin DOMAIN entry
      BY <2>3, PutSpares
    <2>4. ASSUME NEW m \in Tables, NEW gone,
                 tables' = [tables EXCEPT ![m] = Without(@, gone)]
          PROVE  m = n /\ t \in gone
      BY <2>4 DEF Has, Without, IInv, Types
    <2>5. ASSUME NEW u \in Tags, NEW I \in IndexSets("mult"), EvalMultKeyGen(u, I)
          PROVE  n = "mult" /\ EvalMultKeyGen(t, I)
      <3>1. Put("mult", u, Keys(I, secret[u]))
        BY <2>5 DEF EvalMultKeyGen
      <3>2. n = "mult" /\ u = t
        BY <2>1, <2>3, <3>1
      <3>3. QED
        BY <2>5, <3>2
    <2>6. ASSUME NEW u \in Tags, EvalSumKeyGen(u)
          PROVE  n = "sum" /\ EvalSumKeyGen(t)
      <3>1. Put("sum", u, SumKeys(u))
        BY <2>6 DEF EvalSumKeyGen
      <3>2. n = "sum" /\ u = t
        BY <2>1, <2>3, <3>1
      <3>3. QED
        BY <2>6, <3>2
    \* Rotation keys join those there are.
    <2>6a. \A I : n = "auto" => i \in DOMAIN WithRotations(t, I)
      BY DEF WithRotations, MergedKeys, Joined
    <2>7. ASSUME NEW u \in Tags, NEW I, EvalAtIndexKeyGen(u, I)
          PROVE  FALSE
      <3>1. Put("auto", u, WithRotations(u, I))
        BY <2>7 DEF EvalAtIndexKeyGen
      <3>2. "auto" = n /\ u = t /\ i \notin DOMAIN WithRotations(u, I)
        BY <2>1, <2>3, <3>1
      <3>3. QED
        BY <2>6a, <3>2
    <2>7a. ASSUME NEW u \in Tags, NEW I \in IndexLists, NEW made \in SUBSET Tables,
                  SchemeSwitchingKeyGen(u, I, made)
           PROVE  /\ n \in {"mult", "sum"}
                  /\ n \in made /\ SchemeSwitchingKeyGen(t, I, made)
      <3> DEFINE keys == SwitchingKeys(n, u, I)
      <3>1. tables'[n] = IF n \in made THEN Joined([x \in {u} |-> keys], tables[n])
                                       ELSE tables[n]
        BY <2>7a DEF SchemeSwitchingKeyGen
      <3>2. n = "auto" /\ u = t => keys = WithRotations(t, I)
        BY DEF SwitchingKeys
      <3> HIDE DEF keys
      <3>3. n \in made /\ u = t /\ i \notin DOMAIN keys
        BY <3>1 DEF Has, Joined
      <3>4. n # "auto"
        BY <2>6a, <3>2, <3>3
      <3>5. QED
        BY <2>7a, <3>3, <3>4 DEF Tables
    <2>8. ASSUME NEW u \in Tags, NEW m \in Tables, NEW I \in IndexSets(m), InsertKeys(m, u, I)
          PROVE  I \in IndexSets(n) /\ InsertKeys(n, t, I)
      <3>1. Put(m, u, Keys(I, secret[u]))
        BY <2>8 DEF InsertKeys
      <3>2. m = n /\ u = t
        BY <2>3, <3>1
      <3>3. QED
        BY <2>8, <3>2
    <2>9. ASSUME NEW m \in Tables, ClearAll(m)
          PROVE  ClearAll(n)
      <3>1. m = n
        BY <2>9 DEF ClearAll, Has, IInv, Types
      <3>2. QED
        BY <2>9, <3>1
    <2>10. ASSUME NEW m \in Tables, NEW u \in Tags, ClearTag(m, u)
           PROVE  ClearTag(n, t)
      <3>1. m = n /\ t \in {u}
        BY <2>4, <2>10 DEF ClearTag
      <3>2. QED
        BY <2>10, <3>1
    <2>11. ASSUME NEW m \in Tables, NEW c \in Contexts, ClearContext(m, c)
           PROVE  ClearContext(n, FirstKey(tables[n][t]))
      <3>1. m = n /\ t \in EntriesOf(m, c)
        BY <2>4, <2>11 DEF ClearContext
      <3>2. FirstKey(tables[n][t]) = c
        BY <3>1 DEF EntriesOf
      <3>3. QED
        BY <2>11, <3>1, <3>2
    <2>12. ASSUME NEW m \in Tables, Deserialize(m)
           PROVE  Deserialize(n) /\ (n = "mult" \/ t \in DOMAIN stream.keys)
      <3> DEFINE read == [x \in DOMAIN stream.keys |-> InContext(stream.keys[x])]
      <3>1. tables' = [tables EXCEPT ![m] = Loaded(m, read)]
        BY <2>12 DEF Deserialize
      <3>2. DOMAIN read = DOMAIN stream.keys
        OBVIOUS
      <3> HIDE DEF read
      <3>3. m = n
        BY <3>1 DEF Has, IInv, Types
      <3>4. tables'[n] = Loaded(n, read)
        BY <3>1, <3>3 DEF IInv, Types
      <3>5. n # "mult" /\ t \notin DOMAIN read => Has(n, t, i)'
        BY <3>4 DEF Loaded, Joined, Has
      <3>6. QED
        BY <2>12, <3>2, <3>3, <3>5
    <2>13. NewProcess => params' = <<>>
      BY DEF NewProcess
    <2>14. /\ \A p \in Params : ~GetContext(p)
           /\ ~ReleaseAllContexts
           /\ \A c \in Contexts, u \in Tags : ~KeyGen(c, u)
           /\ \A u \in Tags : ~LoadKeyPair(u)
           /\ \A m \in Tables : /\ ~SerializeAll(m)
                                /\ \A u \in Tags : ~SerializeTag(m, u)
                                /\ \A c \in Contexts : ~SerializeContext(m, c)
      BY <2>2 DEF GetContext, ReleaseAllContexts, KeyGen, LoadKeyPair, SerializeAll,
         SerializeTag, SerializeContext, Write, memory
    <2>15. QED
      BY <2>5, <2>6, <2>7, <2>7a, <2>8, <2>9, <2>10, <2>11, <2>12, <2>13, <2>14 DEF Next
  <1>2. IInv => Joins
    BY RotationsJoin
  <1> DEFINE Step == /\ Kept
                     /\ Joins
  <1>3. IInv /\ [Next]_vars => [Step]_vars
    BY <1>1, <1>2
  <1> HIDE DEF Step
  <1>4. Spec => [][Step]_vars
    BY <1>3, InvariantHolds, PTL DEF Spec
  <1>5. QED
    BY <1>4 DEF Step, Kept, Joins, KeysKept
=============================================================================
