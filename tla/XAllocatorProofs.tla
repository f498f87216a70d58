--------------------------- MODULE XAllocatorProofs ---------------------------
(***************************************************************************)
(* Theorems about XAllocator for any threads, sizes, pools, tables and     *)
(* numbers of calls, in both builds.                                       *)
(***************************************************************************)
EXTENDS XAllocator, FiniteSetTheorems, NaturalsInduction, TLAPS

-----------------------------------------------------------------------------
(***************************************************************************)
(* Powers of two: TwoTo is the function its definition says it is, and     *)
(* every positive number has a power of two that is less than twice it and *)
(* not below it.                                                           *)
(***************************************************************************)
LessThan == {pair \in Nat \X Nat : pair[1] < pair[2]}

LEMMA LeastNatural ==
    ASSUME NEW S \in SUBSET Nat, S # {}
    PROVE  \E m \in S : \A t \in S : m <= t
<1>1. IsWellFoundedOn(LessThan, Nat)
  <2>1. LessThan = OpToRel(<, Nat)
    BY Zenon DEF OpToRel, LessThan
  <2> QED
    BY <2>1, NatLessThanWellFounded, Zenon
<1>2. PICK m \in S : \A t \in S : <<t, m>> \notin LessThan
  BY <1>1, WFMin, Zenon
<1>3. \A a, b \in Nat : <<a, b>> \in LessThan <=> a < b
  BY DEF LessThan
<1>4. \A t \in S : ~(t < m)
  BY <1>2, <1>3, Zenon
<1> QED
  BY <1>4

\* The first m + 1 values.
FirstPowers(m) ==
    {g \in [0 .. m -> Nat] : \A e \in 0 .. m : g[e] = IF e = 0 THEN 1 ELSE 2 * g[e - 1]}

LEMMA FirstPowersExist == \A m \in Nat : FirstPowers(m) # {}
<1> DEFINE Bad == {m \in Nat : FirstPowers(m) = {}}
<1> SUFFICES ASSUME Bad # {} PROVE FALSE
  OBVIOUS
<1>1. PICK m \in Bad : \A n \in Bad : m <= n
  BY LeastNatural
<1>2. CASE m = 0
  <2>1. [e \in 0 .. m |-> 1] \in FirstPowers(m)
    BY <1>2 DEF FirstPowers
  <2> QED
    BY <1>1, <2>1
<1>3. CASE m # 0
  <2>1. m \in Nat /\ m - 1 \in Nat /\ m - 1 \notin Bad
    BY <1>1, <1>3
  <2>2. PICK g : g \in FirstPowers(m - 1)
    BY <2>1
  <2>3. g \in [0 .. m - 1 -> Nat] /\ \A e \in 0 .. m - 1 : g[e] = IF e = 0 THEN 1 ELSE 2 * g[e - 1]
    BY <2>2 DEF FirstPowers
  <2> DEFINE h == [e \in 0 .. m |-> IF e = m THEN 2 * g[m - 1] ELSE g[e]]
  <2>4. h \in [0 .. m -> Nat]
    BY <2>1, <2>3
  <2>5. ASSUME NEW e \in 0 .. m PROVE h[e] = IF e = 0 THEN 1 ELSE 2 * h[e - 1]
    <3>1. CASE e = m
      BY <1>3, <2>1, <2>3, <3>1
    <3>2. CASE e # m
      BY <2>1, <2>3, <3>2
    <3> QED
      BY <3>1, <3>2
  <2> HIDE DEF h
  <2>6. h \in FirstPowers(m)
    BY <2>4, <2>5 DEF FirstPowers
  <2> QED
    BY <1>1, <2>6
<1> QED
  BY <1>2, <1>3

LEMMA FirstPowersAgree ==
    ASSUME NEW m \in Nat, NEW n \in Nat, NEW g \in FirstPowers(m), NEW h \in FirstPowers(n)
    PROVE  \A e \in Nat : e <= m /\ e <= n => g[e] = h[e]
<1> DEFINE Bad == {e \in Nat : e <= m /\ e <= n /\ g[e] # h[e]}
<1> SUFFICES ASSUME Bad # {} PROVE FALSE
  OBVIOUS
<1>1. PICK e \in Bad : \A d \in Bad : e <= d
  BY LeastNatural
<1>2. /\ g[e] = IF e = 0 THEN 1 ELSE 2 * g[e - 1]
      /\ h[e] = IF e = 0 THEN 1 ELSE 2 * h[e - 1]
  BY <1>1 DEF FirstPowers
<1>3. e # 0 /\ e - 1 \in Nat /\ e - 1 \notin Bad
  BY <1>1, <1>2
<1>4. g[e - 1] = h[e - 1]
  BY <1>1, <1>3
<1> QED
  BY <1>1, <1>2, <1>3, <1>4

LEMMA TwoToUnfolds == TwoTo = [e \in Nat |-> IF e = 0 THEN 1 ELSE 2 * TwoTo[e - 1]]
<1> DEFINE G(e) == CHOOSE g : g \in FirstPowers(e)
           F == [e \in Nat |-> G(e)[e]]
<1>1. \A e \in Nat : G(e) \in FirstPowers(e)
  BY FirstPowersExist
<1> HIDE DEF G
<1>2. ASSUME NEW e \in Nat PROVE F[e] = IF e = 0 THEN 1 ELSE 2 * F[e - 1]
  <2>1. G(e)[e] = IF e = 0 THEN 1 ELSE 2 * G(e)[e - 1]
    BY <1>1 DEF FirstPowers
  <2>2. ASSUME e # 0 PROVE e - 1 \in Nat /\ G(e)[e - 1] = G(e - 1)[e - 1]
    <3>1. e - 1 \in Nat /\ G(e) \in FirstPowers(e) /\ G(e - 1) \in FirstPowers(e - 1)
      BY <1>1, <2>2
    <3> QED
      BY <3>1, FirstPowersAgree
  <2> QED
    BY <2>1, <2>2
<1>3. F = [e \in Nat |-> IF e = 0 THEN 1 ELSE 2 * F[e - 1]]
  BY <1>2
<1> HIDE DEF F
<1> QED
  BY <1>3 DEF TwoTo

LEMMA PowersOfTwo ==
    /\ TwoTo[0] = 1
    /\ \A e \in Nat : TwoTo[e + 1] = 2 * TwoTo[e]
<1>1. TwoTo[0] = 1
  BY TwoToUnfolds
<1>2. ASSUME NEW e \in Nat PROVE TwoTo[e + 1] = 2 * TwoTo[e]
  <2>1. e + 1 \in Nat /\ e + 1 # 0 /\ (e + 1) - 1 = e
    OBVIOUS
  <2> QED
    BY <2>1, TwoToUnfolds
<1> QED
  BY <1>1, <1>2

LEMMA NextHigherReaches ==
    ASSUME NEW k \in Nat \ {0}
    PROVE  NextHigher(k) \in Nat /\ NextHigher(k) >= k
<1> DEFINE Good(n) == \E e \in 0 .. n : TwoTo[e] \in Nat /\ TwoTo[e] >= n /\ TwoTo[e] < 2 * n
           Bad == {n \in Nat \ {0} : ~Good(n)}
<1>1. Bad = {}
  <2> SUFFICES ASSUME Bad # {} PROVE FALSE
    OBVIOUS
  <2>1. PICK n \in Bad : \A m \in Bad : n <= m
    BY LeastNatural, Bad \in SUBSET Nat
  <2>2. n # 1
    <3>1. TwoTo[1] = 2 * TwoTo[0]
      BY PowersOfTwo, 0 + 1 = 1
    <3>2. Good(1)
      BY PowersOfTwo, 0 \in 0 .. 1
    <3> QED
      BY <2>1, <3>2
  <2>3. n - 1 \in Nat \ {0} /\ n - 1 \notin Bad
    BY <2>1, <2>2
  <2>4. PICK e \in 0 .. n - 1 :
            TwoTo[e] \in Nat /\ TwoTo[e] >= n - 1 /\ TwoTo[e] < 2 * (n - 1)
    BY <2>3
  <2>5. CASE TwoTo[e] >= n
    <3>1. e \in 0 .. n /\ TwoTo[e] < 2 * n
      BY <2>1, <2>4
    <3> QED
      BY <2>1, <2>4, <2>5, <3>1
  <2>6. CASE TwoTo[e] = n - 1
    <3>1. TwoTo[e + 1] = 2 * (n - 1)
      BY <2>4, <2>6, PowersOfTwo
    <3>2. e + 1 \in 0 .. n /\ 2 * (n - 1) \in Nat /\ 2 * (n - 1) >= n /\ 2 * (n - 1) < 2 * n
      BY <2>1, <2>2, <2>3, <2>4
    <3>3. Good(n)
      BY <3>1, <3>2
    <3> QED
      BY <2>1, <3>3
  <2> QED
    BY <2>1, <2>4, <2>5, <2>6
<1>2. Good(k)
  BY <1>1
<1>3. \E e \in 0 .. k : TwoTo[e] >= k /\ TwoTo[e] < 2 * k
  BY <1>2
<1> DEFINE c == CHOOSE e \in 0 .. k : TwoTo[e] >= k /\ TwoTo[e] < 2 * k
<1>4. c \in 0 .. k /\ TwoTo[c] >= k
  BY <1>3
<1>5. \A e \in Nat : TwoTo[e] \in Nat
  <2> DEFINE Odd == {e \in Nat : TwoTo[e] \notin Nat}
  <2> SUFFICES ASSUME Odd # {} PROVE FALSE
    OBVIOUS
  <2>1. PICK e \in Odd : \A d \in Odd : e <= d
    BY LeastNatural
  <2>2. e # 0
    BY <2>1, PowersOfTwo
  <2>3. e - 1 \in Nat /\ TwoTo[e - 1] \in Nat
    BY <2>1, <2>2
  <2>4. TwoTo[e] = 2 * TwoTo[e - 1]
    <3>1. TwoTo[(e - 1) + 1] = 2 * TwoTo[e - 1]
      BY <2>3, PowersOfTwo
    <3> QED
      BY <2>1, <3>1
  <2> QED
    BY <2>1, <2>3, <2>4
<1> QED
  BY <1>4, <1>5 DEF NextHigher

\* The block size for a request holds the request and the word in front.
LEMMA BlockSizeFits ==
    ASSUME NEW s \in Sizes
    PROVE  /\ BlockSizeFor(s) \in Nat
           /\ s + PointerSize <= BlockSizeFor(s)
<1>1. s \in Nat \ {0} /\ PointerSize \in Nat
  BY SizesAssumption, BoundsAssumption
<1>2. s + PointerSize \in Nat \ {0}
  BY <1>1
<1>3. NextHigher(s + PointerSize) \in Nat /\ NextHigher(s + PointerSize) >= s + PointerSize
  BY <1>2, NextHigherReaches
<1> QED
  BY <1>2, <1>3 DEF BlockSizeFor
-----------------------------------------------------------------------------
Labels == {"idle", "find", "allocate", "header", "copy", "readHeader", "push"}

Ops == [size : Nat, tag : Nat, old : Blocks \union {Null}, alloc : Nat,
        block : Blocks \union {Null}]

Types ==
    /\ static \in BOOLEAN /\ created \in Nat
    /\ blockSize \in [Ids -> Nat] /\ free \in [Ids -> Seq(Blocks)]
    /\ made \in [Ids -> Nat] /\ inUse \in [Ids -> Int]
    /\ listed \in Seq(Nat)
    /\ word0 \in [Blocks -> Nat]
    /\ data \in [Blocks -> [tag : Nat, valid : Nat]]
    /\ size \in [Blocks -> Nat]
    /\ live \subseteq Blocks
    /\ mutex \in Threads \union {NoOne}
    /\ pc \in [Threads -> Labels] /\ op \in [Threads -> Ops]
    /\ crashed \in BOOLEAN /\ calls \in 0 .. MaxCalls

\* Threads whose calls have still to find an allocator, or to take a block.
Finding == {t \in Threads : pc[t] = "find"}
Asking == {t \in Threads : pc[t] \in {"find", "allocate"}}

(***************************************************************************)
(* The table of allocators.  The last two parts say that every call makes  *)
(* at most one allocator and one block, so that Ids and Numbers are never  *)
(* used up.                                                                *)
(***************************************************************************)
TablesOK ==
    /\ \A a \in Ids : a > created => made[a] = 0 /\ free[a] = <<>>
    /\ Listed \subseteq 1 .. created
    /\ static => created = Len(PoolSizes) /\ \A a \in Ids : made[a] <= MaxBlocks
    /\ created + Cardinality(Finding) <= Len(PoolSizes) + calls
    /\ \A a \in Ids : made[a] + Cardinality(Asking) <= calls

\* The block's first word names its allocator, and the request fits.
Fits(b) ==
    /\ word0[b] = b[1]
    /\ size[b] \in Sizes
    /\ size[b] + PointerSize <= blockSize[b[1]]

\* What a thread inside a call knows: it is what the next step takes on trust.
ThreadOK(t) ==
    /\ pc[t] = "idle" => op[t] = NoOp
    /\ pc[t] \in {"find", "allocate", "header", "copy"} => op[t].size \in Sizes
    /\ pc[t] \in {"find", "allocate", "header"} => op[t].old \in live \union {Null}
    /\ pc[t] \in {"copy", "readHeader", "push"} => op[t].old \in live
    /\ pc[t] \in {"allocate", "header"} =>
          /\ mutex = t
          /\ op[t].alloc \in 1 .. created
          /\ blockSize[op[t].alloc] = BlockSizeFor(op[t].size)
    /\ pc[t] = "header" =>
          IF op[t].block = Null
          THEN static /\ made[op[t].alloc] = MaxBlocks
          ELSE op[t].block[1] = op[t].alloc
    /\ pc[t] = "copy" =>
          /\ op[t].block # Null /\ Fits(op[t].block)
          /\ size[op[t].block] = op[t].size
    /\ pc[t] = "push" => op[t].alloc = op[t].old[1]

\* A thread has a block that it has not handed over yet.
Holding(t) == pc[t] \in {"header", "copy"} /\ op[t].block # Null

\* No two threads give back, copy out of or hand over the same block.
PairOK ==
    \A t, u \in Threads : t # u =>
        /\ op[t].old = op[u].old => op[t].old = Null
        /\ Holding(t) /\ Holding(u) => op[t].block # op[u].block

Placed(b) == b[1] \in 1 .. created /\ b[2] \in 1 .. made[b[1]]

BlocksOK ==
    /\ \A b \in Given : Placed(b)
    /\ \A t \in Threads : Holding(t) => op[t].block \notin live
    /\ \A b \in live : Fits(b) /\ data[b].valid <= size[b]

\* A thread is about to write something of its own into a new object.
Writing(t) == pc[t] \in {"find", "allocate", "header"} /\ op[t].old = Null

TagsOK ==
    /\ \A b \in live : data[b].tag \in 1 .. calls
    /\ \A t \in Threads : Writing(t) =>
          /\ op[t].tag \in 1 .. calls
          /\ \A b \in live : data[b].tag # op[t].tag
          /\ \A u \in Threads \ {t} : Writing(u) => op[u].tag # op[t].tag

IInv ==
    /\ Types /\ TablesOK /\ (\A t \in Threads : ThreadOK(t)) /\ PairOK /\ BlocksOK
    /\ TagsOK /\ FreeListsSound /\ CountsRight /\ CrashesOnlyAtPoolLimit

-----------------------------------------------------------------------------
GivenOf(a) == {b \in Given : b[1] = a}

NullHeld(a) ==
    {t \in Threads : pc[t] = "header" /\ op[t].alloc = a /\ op[t].block = Null}

LEMMA Bounds ==
    /\ Len(PoolSizes) \in Nat /\ MaxCalls \in Nat /\ MaxBlocks \in Nat
    /\ PointerSize \in Nat /\ Sizes \subseteq Nat \ {0}
    /\ PoolSizes \in Seq(Nat)
    /\ IsFiniteSet(Threads) /\ NoOne \notin Threads
    /\ Ids = 1 .. (Len(PoolSizes) + MaxCalls)
    /\ Null \notin Blocks
<1>1. /\ Len(PoolSizes) \in Nat /\ MaxCalls \in Nat /\ MaxBlocks \in Nat
      /\ PointerSize \in Nat /\ Sizes \subseteq Nat \ {0} /\ PoolSizes \in Seq(Nat)
      /\ IsFiniteSet(Threads) /\ NoOne \notin Threads
  BY BoundsAssumption, SizesAssumption, PoolSizesAssumption, ThreadsAssumption
<1>2. Null \notin Blocks
  BY <1>1 DEF Null, Blocks, Ids
<1> QED
  BY <1>1, <1>2 DEF Ids

LEMMA GivenIs ==
    /\ Given = live \union {op[t].block : t \in {u \in Threads : Holding(u)}}
    /\ Given' = live' \union {op'[t].block : t \in {u \in Threads : Holding(u)'}}
<1>1. InFlight = {op[t].block : t \in {u \in Threads : Holding(u)}}
  BY DEF InFlight, Holding
<1>2. InFlight' = {op'[t].block : t \in {u \in Threads : Holding(u)'}}
  BY DEF InFlight, Holding
<1> QED
  BY <1>1, <1>2 DEF Given

\* Blocks and threads are finitely many, so that they can be counted.
LEMMA BlocksFinite == IsFiniteSet(Blocks)
<1>1. IsFiniteSet(Ids)
  BY Bounds, FS_Interval
<1>2. IsFiniteSet(Numbers)
  <2>1. PICK n \in Nat : Numbers = 1 .. n
    BY Bounds DEF Numbers
  <2> QED
    BY <2>1, FS_Interval
<1> QED
  BY <1>1, <1>2, FS_Product DEF Blocks

LEMMA GivenBlocks ==
    ASSUME Types
    PROVE  /\ Given \subseteq Blocks
           /\ \A a : IsFiniteSet(GivenOf(a)) /\ IsFiniteSet(NullHeld(a))
           /\ IsFiniteSet(Finding) /\ IsFiniteSet(Asking)
<1>1. Given \subseteq Blocks
  BY GivenIs DEF Types, Ops, Holding
<1>2. \A a : GivenOf(a) \in SUBSET Blocks /\ NullHeld(a) \in SUBSET Threads
  BY <1>1 DEF GivenOf, NullHeld
<1>3. Finding \in SUBSET Threads /\ Asking \in SUBSET Threads
  BY DEF Finding, Asking
<1> QED
  BY <1>1, <1>2, <1>3, BlocksFinite, Bounds, FS_Subset

\* What the parts of CountsRight say.
LEMMA Counts ==
    /\ CountsRight <=>
          \A a \in Ids :
              /\ inUse[a] = Cardinality(GivenOf(a)) + Cardinality(NullHeld(a))
              /\ a \in Listed => made[a] = Len(free[a]) + Cardinality(GivenOf(a))
    /\ CountsRight' <=>
          \A a \in Ids :
              /\ inUse'[a] = Cardinality(GivenOf(a)') + Cardinality(NullHeld(a)')
              /\ a \in Listed' => made'[a] = Len(free'[a]) + Cardinality(GivenOf(a)')
BY DEF CountsRight, GivenOf, NullHeld
-----------------------------------------------------------------------------
\* A set with one element more, or one fewer.
LEMMA OneMore ==
    ASSUME NEW S, IsFiniteSet(S), NEW x, x \notin S, NEW T, T = S \/ T = S \union {x}
    PROVE  /\ Cardinality(S) \in Nat /\ Cardinality(T) \in Nat
           /\ Cardinality(T) <= Cardinality(S) + 1
           /\ T = S \union {x} => Cardinality(T) = Cardinality(S) + 1
<1>1. Cardinality(S) \in Nat /\ Cardinality(S \union {x}) = Cardinality(S) + 1
  BY FS_AddElement, FS_CardinalityType
<1>2. CASE T = S
  <2>1. T # S \union {x} /\ Cardinality(T) = Cardinality(S)
    BY <1>2
  <2> QED
    BY <1>1, <2>1
<1>3. CASE T = S \union {x}
  <2>1. Cardinality(T) = Cardinality(S) + 1
    BY <1>1, <1>3
  <2> QED
    BY <1>1, <2>1
<1> QED
  BY <1>2, <1>3

LEMMA OneFewer ==
    ASSUME NEW S, IsFiniteSet(S), NEW x \in S, NEW T, T = S \ {x}
    PROVE  /\ Cardinality(S) \in Nat /\ Cardinality(T) \in Nat
           /\ Cardinality(T) = Cardinality(S) - 1
<1>1. Cardinality(S) \in Nat /\ Cardinality(S \ {x}) = Cardinality(S) - 1
  BY FS_RemoveElement, FS_CardinalityType
<1>2. IsFiniteSet(T) /\ Cardinality(T) \in Nat
  <2>1. T \in SUBSET S
    OBVIOUS
  <2> QED
    BY <2>1, FS_Subset, FS_CardinalityType
<1> QED
  BY <1>1, <1>2

Others(t) == \A u \in Threads \ {t} : pc'[u] = pc[u] /\ op'[u] = op[u]

\* A step of a thread that neither had a block nor has one.
LEMMA EmptyHanded ==
    ASSUME NEW t \in Threads, Others(t), live' = live,
           pc[t] \notin {"header", "copy"}, pc'[t] \notin {"header", "copy"}
    PROVE  /\ Given' = Given
           /\ \A u \in Threads : Holding(u)' = Holding(u)
           /\ \A a : GivenOf(a)' = GivenOf(a) /\ NullHeld(a)' = NullHeld(a)
<1>1. \A u \in Threads : Holding(u)' = Holding(u) /\ (Holding(u) => op'[u] = op[u])
  BY DEF Others, Holding
<1>2. Given' = Given
  BY <1>1, GivenIs
<1>3. \A a : NullHeld(a)' = NullHeld(a)
  BY DEF Others, NullHeld
<1> QED
  BY <1>1, <1>2, <1>3 DEF GivenOf

\* Nothing about free lists and counts changes with such a step.
LEMMA ListsAndCountsKept ==
    ASSUME IInv, Given' = Given,
           \A a : GivenOf(a)' = GivenOf(a) /\ NullHeld(a)' = NullHeld(a),
           UNCHANGED <<free, made, inUse, listed>>
    PROVE  FreeListsSound' /\ CountsRight'
<1>1. FreeListsSound /\ CountsRight
  BY DEF IInv
<1>2. FreeListsSound'
  BY <1>1 DEF FreeListsSound
<1>3. CountsRight'
  BY <1>1, Counts DEF Listed
<1> QED
  BY <1>2, <1>3

(***************************************************************************)
(* The start of a call.                                                    *)
(***************************************************************************)
LEMMA CallKeeps ==
    ASSUME IInv, NEW t \in Threads, NEW l \in {"find", "readHeader"}, NEW o \in Ops,
           Call(t, l, o), o.block = Null,
           l = "find" => o.size \in Sizes,
           l = "readHeader" => o.old \in live,
           o.old = Null => o.tag = calls + 1,
           o.old # Null => o.old \in live /\ o.old \notin Busy
    PROVE  IInv'
<1>1. /\ ~crashed /\ calls < MaxCalls /\ calls' = calls + 1 /\ pc[t] = "idle"
      /\ pc' = [pc EXCEPT ![t] = l] /\ op' = [op EXCEPT ![t] = o]
      /\ UNCHANGED <<static, created, blockSize, free, made, inUse, listed, word0, data,
                     size, live, mutex, crashed>>
  BY DEF Call, Goto, allocators, client
<1>2. /\ Types /\ TablesOK /\ PairOK /\ BlocksOK /\ TagsOK
      /\ \A u \in Threads : ThreadOK(u)
  BY DEF IInv
<1>3. Types'
  BY SMTT(30), <1>1, <1>2, Bounds DEF Types, Labels
<1>4. /\ pc'[t] = l /\ op'[t] = o /\ Others(t)
      /\ calls \in Nat /\ calls' = calls + 1
  BY <1>1, <1>2 DEF Types, Others
<1>5. /\ Given' = Given
      /\ \A u \in Threads : Holding(u)' = Holding(u)
      /\ \A a : GivenOf(a)' = GivenOf(a) /\ NullHeld(a)' = NullHeld(a)
  BY <1>1, <1>4, EmptyHanded
<1>6. TablesOK'
  <2>1. /\ IsFiniteSet(Finding) /\ IsFiniteSet(Asking)
        /\ t \notin Finding /\ t \notin Asking
    BY <1>1, <1>2, GivenBlocks DEF Finding, Asking
  <2>2. /\ Finding' = Finding \union {t} \/ Finding' = Finding
        /\ Asking' = Asking \union {t} \/ Asking' = Asking
    BY <1>1, <1>4 DEF Finding, Asking, Others
  <2>3. /\ Cardinality(Finding) \in Nat /\ Cardinality(Finding') \in Nat
        /\ Cardinality(Finding') <= Cardinality(Finding) + 1
    BY <2>1, <2>2, OneMore
  <2>4. /\ Cardinality(Asking) \in Nat /\ Cardinality(Asking') \in Nat
        /\ Cardinality(Asking') <= Cardinality(Asking) + 1
    BY <2>1, <2>2, OneMore
  <2>5. created' + Cardinality(Finding') <= Len(PoolSizes) + calls'
    BY <1>1, <1>2, <1>4, <2>3, Bounds DEF TablesOK, Types
  <2>6. ASSUME NEW a \in Ids PROVE made'[a] + Cardinality(Asking') <= calls'
    <3>1. made[a] \in Nat /\ made'[a] = made[a] /\ made[a] + Cardinality(Asking) <= calls
      BY <1>1, <1>2 DEF TablesOK, Types
    <3> QED
      BY <1>4, <2>4, <3>1
  <2> QED
    BY <1>1, <1>2, <2>5, <2>6 DEF TablesOK, Listed
<1>7. \A u \in Threads : ThreadOK(u)'
  <2>1. ThreadOK(t)'
    BY <1>1, <1>4 DEF ThreadOK
  <2>2. \A u \in Threads \ {t} : ThreadOK(u)'
    BY <1>1, <1>2, <1>4 DEF ThreadOK, Others, Fits
  <2> QED
    BY <2>1, <2>2
<1>8. PairOK'
  <2>1. \A u \in Threads : o.old = op[u].old => o.old = Null
    BY <1>2, Bounds DEF Busy, ThreadOK, NoOp, Types
  <2>2. ~Holding(t) /\ ~Holding(t)'
    BY <1>1, <1>4 DEF Holding
  <2> QED
    BY <1>2, <1>4, <1>5, <2>1, <2>2 DEF PairOK, Others
<1>9. BlocksOK'
  <2>1. ~Holding(t) /\ ~Holding(t)'
    BY <1>1, <1>4 DEF Holding
  <2>2. \A u \in Threads : Holding(u)' => op'[u].block \notin live'
    BY <1>1, <1>2, <1>4, <1>5, <2>1 DEF BlocksOK, Others
  <2> QED
    BY <1>1, <1>2, <1>5, <2>2 DEF BlocksOK, Placed, Fits
<1>10. TagsOK'
  <2>1. \A u \in Threads \ {t} : Writing(u)' = Writing(u)
    BY <1>4 DEF Writing, Others
  <2>2. Writing(t)' => op'[t].tag = calls + 1
    BY <1>4 DEF Writing
  <2>3. \A b \in live : data[b].tag \in 1 .. calls /\ data[b].tag \in 1 .. calls' /\ data[b].tag # calls + 1
    BY <1>2, <1>4 DEF TagsOK
  <2>4. \A u \in Threads \ {t} : Writing(u)' =>
            /\ op'[u].tag \in 1 .. calls /\ op'[u].tag \in 1 .. calls' /\ op'[u].tag # calls + 1
            /\ \A b \in live : data[b].tag # op'[u].tag
            /\ \A v \in Threads \ {t} : v # u /\ Writing(v)' => op'[v].tag # op'[u].tag
    BY <1>2, <1>4, <2>1 DEF TagsOK, Others
  <2>5. calls + 1 \in 1 .. calls'
    BY <1>4
  <2> QED
    BY <1>1, <2>2, <2>3, <2>4, <2>5 DEF TagsOK
<1>11. FreeListsSound' /\ CountsRight'
  BY <1>1, <1>5, ListsAndCountsKept
<1>12. CrashesOnlyAtPoolLimit'
  BY <1>1 DEF CrashesOnlyAtPoolLimit
<1> QED
  BY <1>3, <1>6, <1>7, <1>8, <1>9, <1>10, <1>11, <1>12 DEF IInv

LEMMA CallsKeep ==
    ASSUME IInv, NEW t \in Threads,
           \/ \E s \in Sizes : Malloc(t, s)
           \/ \E b \in live : Free(t, b)
           \/ \E b \in live, s \in Sizes : Realloc(t, b, s)
    PROVE  IInv'
<1>1. /\ NoOp \in Ops /\ live \subseteq Blocks /\ Sizes \subseteq Nat /\ calls + 1 \in Nat
      /\ Null \notin Blocks
  BY Bounds DEF NoOp, Ops, IInv, Types
<1>2. ASSUME NEW s \in Sizes, Malloc(t, s) PROVE IInv'
  <2>1. PICK o : o = [NoOp EXCEPT !.size = s, !.tag = calls + 1]
    OBVIOUS
  <2>2. o \in Ops /\ o.block = Null /\ o.size \in Sizes /\ o.old = Null /\ o.tag = calls + 1
    BY <1>1, <2>1 DEF NoOp, Ops
  <2> QED
    BY <1>2, <2>1, <2>2, CallKeeps DEF Malloc
<1>3. ASSUME NEW b \in live, Free(t, b) PROVE IInv'
  <2>1. PICK o : o = [NoOp EXCEPT !.old = b]
    OBVIOUS
  <2>2. o \in Ops /\ o.block = Null /\ o.old = b /\ b # Null
    BY <1>1, <2>1 DEF NoOp, Ops
  <2> QED
    BY <1>3, <2>1, <2>2, CallKeeps DEF Free
<1>4. ASSUME NEW b \in live, NEW s \in Sizes, Realloc(t, b, s) PROVE IInv'
  <2>1. PICK o : o = [NoOp EXCEPT !.size = s, !.old = b]
    OBVIOUS
  <2>2. o \in Ops /\ o.block = Null /\ o.size \in Sizes /\ o.old = b /\ b # Null
    BY <1>1, <2>1 DEF NoOp, Ops
  <2> QED
    BY <1>4, <2>1, <2>2, CallKeeps DEF Realloc
<1> QED
  BY <1>2, <1>3, <1>4
(***************************************************************************)
(* The steps inside a call.  First what they leave alone: the threads that *)
(* do not move.                                                            *)
(***************************************************************************)
LEMMA OtherThreads ==
    ASSUME IInv, NEW t \in Threads, Others(t),
           \/ mutex \in {NoOne, t}
           \/ UNCHANGED <<static, mutex, created, made>>,
           created' >= created, created' \in Nat,
           \A a \in 1 .. created : blockSize'[a] = blockSize[a],
           \A u \in Threads \ {t} : op[u].old \in live => op[u].old \in live',
           \A u \in Threads \ {t} : Holding(u) =>
               word0'[op[u].block] = word0[op[u].block] /\ size'[op[u].block] = size[op[u].block]
    PROVE  \A u \in Threads \ {t} : ThreadOK(u)'
<1> SUFFICES ASSUME NEW u \in Threads \ {t} PROVE ThreadOK(u)'
  OBVIOUS
<1>1. ThreadOK(u) /\ pc'[u] = pc[u] /\ op'[u] = op[u] /\ created \in Nat /\ u # NoOne
  BY Bounds DEF IInv, Others, Types
<1>2. pc[u] \in {"allocate", "header"} => UNCHANGED <<static, mutex, created, made>>
  BY <1>1 DEF ThreadOK
<1>3. pc[u] = "copy" => Fits(op[u].block)'
  <2>1. pc[u] = "copy" => Holding(u) /\ op[u].block[1] \in 1 .. created
    BY <1>1, GivenIs DEF ThreadOK, Holding, IInv, BlocksOK, Placed
  <2> QED
    BY <1>1, <2>1 DEF ThreadOK, Fits
<1>4. pc[u] = "copy" => op[u].block # Null /\ size'[op[u].block] = op[u].size
  BY <1>1 DEF ThreadOK, Holding
<1> QED
  BY <1>1, <1>2, <1>3, <1>4 DEF ThreadOK

LEMMA PairKept ==
    ASSUME PairOK, NEW t \in Threads, Others(t), op'[t].old \in {op[t].old, Null},
           Holding(t)' => \A u \in Threads \ {t} : Holding(u) => op[u].block # op'[t].block
    PROVE  PairOK'
<1>1. \A u \in Threads \ {t} : Holding(u)' = Holding(u)
  BY DEF Others, Holding
<1> QED
  BY <1>1 DEF PairOK, Others

LEMMA TagsKept ==
    ASSUME TagsOK, NEW t \in Threads, Others(t), UNCHANGED <<calls, data>>,
           live' \subseteq live,
           Writing(t)' => Writing(t) /\ op'[t].tag = op[t].tag
    PROVE  TagsOK'
<1>1. \A u \in Threads \ {t} : Writing(u)' = Writing(u)
  BY DEF Others, Writing
<1> QED
  BY <1>1 DEF TagsOK, Others

(***************************************************************************)
(* FindAllocator.                                                          *)
(***************************************************************************)
LEMMA FirstMatching ==
    ASSUME IInv, NEW bs, Matching(bs) # {}
    PROVE  LET a == listed[First(Matching(bs))]
           IN  a \in 1 .. created /\ blockSize[a] = bs
<1>1. listed \in Seq(Nat) /\ Listed \subseteq 1 .. created
  BY DEF IInv, Types, TablesOK
<1>2. Matching(bs) \in SUBSET Nat
  BY <1>1 DEF Matching
<1>3. PICK m \in Matching(bs) : \A j \in Matching(bs) : m <= j
  BY <1>2, LeastNatural
<1>4. First(Matching(bs)) \in Matching(bs)
  BY <1>3 DEF First
<1>5. \A i \in 1 .. Len(listed) : listed[i] \in Listed
  BY <1>1 DEF Listed, Range
<1> QED
  BY <1>1, <1>4, <1>5 DEF Matching

\* The table has an allocator of that size.
LEMMA FindFound ==
    ASSUME IInv, NEW t \in Threads, ~crashed, pc[t] = "find", mutex = NoOne, mutex' = t,
           NEW a \in 1 .. created, blockSize[a] = BlockSizeFor(op[t].size),
           pc' = [pc EXCEPT ![t] = "allocate"], op' = [op EXCEPT ![t].alloc = a],
           UNCHANGED <<static, created, blockSize, free, made, inUse, listed, word0, data,
                       size, live, crashed, calls>>
    PROVE  IInv'
<1>1. /\ Types /\ TablesOK /\ PairOK /\ BlocksOK /\ TagsOK
      /\ \A u \in Threads : ThreadOK(u)
  BY DEF IInv
<1>2. /\ pc'[t] = "allocate" /\ Others(t)
      /\ op'[t] = [op[t] EXCEPT !.alloc = a] /\ op[t] \in Ops /\ op'[t] \in Ops
  <2>1. op[t] \in Ops /\ op'[t] = [op[t] EXCEPT !.alloc = a] /\ a \in Nat
    BY <1>1 DEF Types
  <2>2. op'[t] \in Ops
    BY <2>1 DEF Ops
  <2> QED
    BY <1>1, <2>1, <2>2 DEF Types, Others
<1>3. /\ Given' = Given
      /\ \A u \in Threads : Holding(u)' = Holding(u)
      /\ \A c : GivenOf(c)' = GivenOf(c) /\ NullHeld(c)' = NullHeld(c)
  BY <1>2, EmptyHanded
<1>4. Types'
  BY <1>1, <1>2 DEF Types, Labels
<1>5. TablesOK'
  <2>1. IsFiniteSet(Finding) /\ t \in Finding /\ Finding' = Finding \ {t}
    BY <1>1, <1>2, GivenBlocks DEF Finding, Others
  <2>2. Asking' = Asking
    BY <1>2 DEF Asking, Others
  <2>3. Cardinality(Finding) \in Nat /\ Cardinality(Finding') = Cardinality(Finding) - 1
    BY <2>1, OneFewer
  <2>4. created' + Cardinality(Finding') <= Len(PoolSizes) + calls'
    BY <1>1, <2>3, Bounds DEF TablesOK, Types
  <2> QED
    BY <1>1, <2>2, <2>4 DEF TablesOK, Listed
<1>6. \A u \in Threads : ThreadOK(u)'
  <2>1. ThreadOK(t)'
    BY <1>1, <1>2 DEF ThreadOK, Ops
  <2>2. created \in Nat /\ created' = created /\ blockSize' = blockSize
    BY <1>1 DEF Types
  <2>3. \A u \in Threads \ {t} : ThreadOK(u)'
    BY <1>2, <2>2, OtherThreads
  <2> QED
    BY <2>1, <2>3
<1>7. PairOK'
  <2>1. ~Holding(t)' /\ op'[t].old = op[t].old
    BY <1>2 DEF Holding, Ops
  <2> QED
    BY <1>1, <1>2, <2>1, PairKept
<1>8. BlocksOK'
  <2>1. \A u \in Threads : Holding(u)' => op'[u].block = op[u].block
    BY <1>2 DEF Holding, Others
  <2> QED
    BY <1>1, <1>3, <2>1 DEF BlocksOK, Placed, Fits
<1>9. TagsOK'
  <2>1. Writing(t)' => Writing(t) /\ op'[t].tag = op[t].tag
    BY <1>2 DEF Writing, Ops
  <2> QED
    BY <1>1, <1>2, <2>1, TagsKept
<1>10. FreeListsSound' /\ CountsRight' /\ CrashesOnlyAtPoolLimit'
  BY <1>3, ListsAndCountsKept DEF CrashesOnlyAtPoolLimit
<1> QED
  BY <1>4, <1>5, <1>6, <1>7, <1>8, <1>9, <1>10 DEF IInv

\* A static build has none of that size, and goes through a null pointer.
LEMMA FindCrashes ==
    ASSUME IInv, NEW t \in Threads, pc[t] = "find", mutex = NoOne, mutex' = t,
           Matching(BlockSizeFor(op[t].size)) = {}, static, crashed',
           UNCHANGED <<static, created, blockSize, free, made, inUse, listed, word0, data,
                       size, live, pc, op, calls>>
    PROVE  IInv'
<1>1. /\ Types /\ TablesOK /\ PairOK /\ BlocksOK /\ TagsOK
      /\ \A u \in Threads : ThreadOK(u)
  BY DEF IInv
<1>2. Others(t)
  BY DEF Others
<1>3. /\ Given' = Given
      /\ \A u \in Threads : Holding(u)' = Holding(u)
      /\ \A c : GivenOf(c)' = GivenOf(c) /\ NullHeld(c)' = NullHeld(c)
  BY <1>2, EmptyHanded
<1>4. Types' /\ TablesOK' /\ PairOK' /\ BlocksOK' /\ TagsOK'
  <2>1. Types'
    BY <1>1, crashed' = TRUE DEF Types
  <2>2. TablesOK'
    BY <1>1 DEF TablesOK, Finding, Asking, Listed
  <2>3. PairOK' /\ TagsOK'
    BY <1>1 DEF PairOK, TagsOK, Holding, Writing
  <2>4. BlocksOK'
    BY <1>1, <1>3 DEF BlocksOK, Placed, Fits
  <2> QED
    BY <2>1, <2>2, <2>3, <2>4
<1>5. \A u \in Threads : ThreadOK(u)'
  <2>1. ThreadOK(t)'
    BY <1>1 DEF ThreadOK
  <2>2. \A u \in Threads \ {t} : ThreadOK(u)'
    BY <1>1, <1>2, OtherThreads DEF Types
  <2> QED
    BY <2>1, <2>2
<1>6. FreeListsSound' /\ CountsRight'
  BY <1>3, ListsAndCountsKept
<1>7. CrashesOnlyAtPoolLimit'
  BY DEF CrashesOnlyAtPoolLimit, Matching
<1> QED
  BY <1>4, <1>5, <1>6, <1>7 DEF IInv

\* The other build makes one; it goes to the table when there is room.
LEMMA FindMakes ==
    ASSUME IInv, NEW t \in Threads, ~crashed, pc[t] = "find", mutex = NoOne, mutex' = t,
           ~static, NEW bs, bs = BlockSizeFor(op[t].size),
           created' = created + 1, blockSize' = [blockSize EXCEPT ![created + 1] = bs],
           listed' = IF Len(listed) < MaxAllocators THEN Append(listed, created + 1) ELSE listed,
           pc' = [pc EXCEPT ![t] = "allocate"], op' = [op EXCEPT ![t].alloc = created + 1],
           UNCHANGED <<static, free, made, inUse, word0, data, size, live, crashed, calls>>
    PROVE  IInv'
<1>1. /\ Types /\ TablesOK /\ PairOK /\ BlocksOK /\ TagsOK
      /\ (\A u \in Threads : ThreadOK(u)) /\ FreeListsSound /\ CountsRight
  BY DEF IInv
<1>2. /\ pc'[t] = "allocate" /\ Others(t)
      /\ op'[t] = [op[t] EXCEPT !.alloc = created + 1] /\ op[t] \in Ops /\ op'[t] \in Ops
  <2>1. /\ op[t] \in Ops /\ op'[t] = [op[t] EXCEPT !.alloc = created + 1]
        /\ created + 1 \in Nat
    BY <1>1 DEF Types
  <2>2. op'[t] \in Ops
    BY <2>1 DEF Ops
  <2> QED
    BY <1>1, <2>1, <2>2 DEF Types, Others
<1>3. /\ Given' = Given
      /\ \A u \in Threads : Holding(u)' = Holding(u)
      /\ \A c : GivenOf(c)' = GivenOf(c) /\ NullHeld(c)' = NullHeld(c)
  BY <1>2, EmptyHanded
<1>4. /\ IsFiniteSet(Finding) /\ t \in Finding /\ Finding' = Finding \ {t}
      /\ Asking' = Asking
  BY <1>1, <1>2, GivenBlocks DEF Finding, Asking, Others
<1>5. /\ Cardinality(Finding) \in Nat /\ Cardinality(Finding') \in Nat
      /\ Cardinality(Finding') = Cardinality(Finding) - 1
  BY <1>4, OneFewer
<1>6. created + 1 \in Ids /\ created + 1 \in Nat /\ bs \in Nat
  <2>1. created + 1 <= Len(PoolSizes) + MaxCalls
    BY <1>1, <1>5, Bounds DEF TablesOK, Types
  <2>2. op[t].size \in Sizes
    BY <1>1 DEF ThreadOK
  <2> QED
    BY SMTT(30), <1>1, <2>1, <2>2, Bounds, BlockSizeFits DEF Types
<1>7. /\ blockSize'[created + 1] = bs
      /\ \A c \in 1 .. created : blockSize'[c] = blockSize[c]
      /\ blockSize' \in [Ids -> Nat]
  BY <1>1, <1>6 DEF Types
<1>8. listed' \in Seq(Nat) /\ Listed' \subseteq Listed \union {created + 1}
  <2>1. listed \in Seq(Nat)
    BY <1>1 DEF Types
  <2>2. CASE listed' = listed
    BY <2>1, <2>2 DEF Listed
  <2>3. CASE listed' = Append(listed, created + 1)
    BY <1>6, <2>1, <2>3 DEF Listed, Range
  <2> QED
    BY <2>2, <2>3
<1>9. Types'
  BY <1>1, <1>2, <1>6, <1>7, <1>8 DEF Types, Labels
<1>10. TablesOK'
  <2>1. created' + Cardinality(Finding') <= Len(PoolSizes) + calls'
    BY <1>1, <1>5, Bounds DEF TablesOK, Types
  <2>2. Listed' \subseteq 1 .. created'
    BY <1>1, <1>6, <1>8 DEF TablesOK, Types
  <2>3. ASSUME NEW c \in Ids, c > created' PROVE made'[c] = 0 /\ free'[c] = <<>>
    <3>1. c \in Nat /\ created \in Nat
      BY <1>1, Bounds DEF Types
    <3>2. c > created
      BY <2>3, <3>1
    <3> QED
      BY <1>1, <3>2 DEF TablesOK
  <2> QED
    BY <1>1, <1>4, <2>1, <2>2, <2>3 DEF TablesOK
<1>11. \A u \in Threads : ThreadOK(u)'
  <2>1. ThreadOK(t)'
    <3>1. op'[t].alloc = created + 1 /\ op'[t].size = op[t].size /\ op'[t].old = op[t].old
      BY <1>2 DEF Ops
    <3>2. op[t].size \in Sizes /\ op[t].old \in live \union {Null}
      BY <1>1 DEF ThreadOK
    <3>3. created \in Nat /\ created + 1 \in 1 .. created'
      BY <1>1, <1>6 DEF Types
    <3> QED
      BY <1>2, <1>7, <3>1, <3>2, <3>3 DEF ThreadOK
  <2>2. \A u \in Threads \ {t} : ThreadOK(u)'
    <3>1. created' >= created /\ created' \in Nat
      BY <1>1, <1>6 DEF Types
    <3> QED
      BY <1>1, <1>2, <1>7, <3>1, OtherThreads
  <2> QED
    BY <2>1, <2>2
<1>12. PairOK'
  <2>1. ~Holding(t)' /\ op'[t].old = op[t].old
    BY <1>2 DEF Holding, Ops
  <2> QED
    BY <1>1, <1>2, <2>1, PairKept
<1>13. BlocksOK'
  <2>1. \A u \in Threads : Holding(u)' => op'[u].block = op[u].block
    BY <1>2 DEF Holding, Others
  <2>2. \A b \in Given : Placed(b) /\ Placed(b)'
    BY <1>1, <1>6 DEF BlocksOK, Placed, Types
  <2>3. \A b \in live : Fits(b)'
    <3>1. live \subseteq Given
      BY GivenIs
    <3>2. \A b \in live : Fits(b) /\ b[1] \in 1 .. created
      BY <1>1, <2>2, <3>1 DEF BlocksOK, Placed
    <3> QED
      BY <1>7, <3>2 DEF Fits
  <2> QED
    BY <1>1, <1>3, <2>1, <2>2, <2>3 DEF BlocksOK
<1>14. TagsOK'
  <2>1. Writing(t)' => Writing(t) /\ op'[t].tag = op[t].tag
    BY <1>2 DEF Writing, Ops
  <2> QED
    BY <1>1, <1>2, <2>1, TagsKept
<1>15. FreeListsSound'
  BY <1>1, <1>3 DEF FreeListsSound
<1>16. CountsRight'
  <2>1. made[created + 1] = 0 /\ free[created + 1] = <<>>
    BY <1>1, <1>6 DEF TablesOK, Types
  <2>2. Cardinality(GivenOf(created + 1)) = 0
    <3>1. \A b \in Given : b[1] \in 1 .. created
      BY <1>1 DEF BlocksOK, Placed
    <3>2. GivenOf(created + 1) = {}
      BY <1>1, <3>1 DEF GivenOf, Types
    <3> QED
      BY <3>2, FS_EmptySet
  <2>3. ASSUME NEW c \in Ids, c \in Listed'
        PROVE  made'[c] = Len(free'[c]) + Cardinality(GivenOf(c)')
    <3>1. CASE c = created + 1
      BY <1>3, <2>1, <2>2, <3>1
    <3>2. CASE c # created + 1
      BY <1>1, <1>3, <1>8, <2>3, <3>2, Counts
    <3> QED
      BY <3>1, <3>2
  <2>4. \A c \in Ids : inUse'[c] = Cardinality(GivenOf(c)') + Cardinality(NullHeld(c)')
    BY <1>1, <1>3, Counts
  <2> QED
    BY <2>3, <2>4, Counts
<1> QED
  BY <1>9, <1>10, <1>11, <1>12, <1>13, <1>14, <1>15, <1>16
     DEF IInv, CrashesOnlyAtPoolLimit

LEMMA FindAllocatorKeeps ==
    ASSUME IInv, NEW t \in Threads, FindAllocator(t)
    PROVE  IInv'
<1>1. PICK bs : bs = BlockSizeFor(op[t].size)
  OBVIOUS
<1>2. CASE Matching(bs) # {}
  <2>1. PICK a : a = listed[First(Matching(bs))]
    OBVIOUS
  <2>2. a \in 1 .. created /\ blockSize[a] = bs
    BY <1>2, <2>1, FirstMatching
  <2>3. /\ ~crashed /\ pc[t] = "find" /\ mutex = NoOne /\ mutex' = t
        /\ pc' = [pc EXCEPT ![t] = "allocate"] /\ op' = [op EXCEPT ![t].alloc = a]
        /\ UNCHANGED <<static, created, blockSize, free, made, inUse, listed, word0, data,
                       size, live, crashed, calls>>
    BY <1>1, <1>2, <2>1 DEF FindAllocator, Goto, allocators, client
  <2> QED
    BY <1>1, <2>2, <2>3, FindFound
<1>3. CASE Matching(bs) = {} /\ static
  <2>1. /\ pc[t] = "find" /\ mutex = NoOne /\ mutex' = t /\ crashed' = TRUE
        /\ UNCHANGED <<static, created, blockSize, free, made, inUse, listed, word0, data,
                       size, live, pc, op, calls>>
    BY <1>1, <1>3 DEF FindAllocator, Goto, allocators, client
  <2> QED
    BY <1>1, <1>3, <2>1, FindCrashes
<1>4. CASE Matching(bs) = {} /\ ~static
  <2>1. /\ ~crashed /\ pc[t] = "find" /\ mutex = NoOne /\ mutex' = t
        /\ created' = created + 1 /\ blockSize' = [blockSize EXCEPT ![created + 1] = bs]
        /\ listed' = IF Len(listed) < MaxAllocators
                     THEN Append(listed, created + 1) ELSE listed
        /\ pc' = [pc EXCEPT ![t] = "allocate"] /\ op' = [op EXCEPT ![t].alloc = created + 1]
        /\ UNCHANGED <<static, free, made, inUse, word0, data, size, live, crashed, calls>>
    BY <1>1, <1>4 DEF FindAllocator, Goto, client
  <2> QED
    BY <1>1, <1>4, <2>1, FindMakes
<1> QED
  BY <1>2, <1>3, <1>4

(***************************************************************************)
(* Allocate.  A block taken from the free list or made is one more that is *)
(* given out; both ways to get one are TakeKeeps.                          *)
(***************************************************************************)
LEMMA TailOfList ==
    ASSUME NEW S, NEW s \in Seq(S), s # <<>>, IsInjective(s)
    PROVE  /\ Head(s) \in Range(s) /\ Tail(s) \in Seq(S) /\ Len(s) = Len(Tail(s)) + 1
           /\ Len(Tail(s)) \in Nat
           /\ IsInjective(Tail(s)) /\ Range(Tail(s)) = Range(s) \ {Head(s)}
<1>1. /\ Len(s) \in Nat /\ Len(s) >= 1 /\ DOMAIN s = 1 .. Len(s)
      /\ Tail(s) \in Seq(S) /\ Len(Tail(s)) = Len(s) - 1 /\ Head(s) = s[1]
      /\ DOMAIN Tail(s) = 1 .. Len(s) - 1
      /\ \A i \in 1 .. Len(s) - 1 : Tail(s)[i] = s[i + 1]
  OBVIOUS
<1>2. \A i, j \in 1 .. Len(s) : s[i] = s[j] => i = j
  BY <1>1 DEF IsInjective
<1>3. \A i \in 1 .. Len(s) - 1 : i \in 1 .. Len(s) /\ i + 1 \in 1 .. Len(s) /\ i + 1 # 1
  BY <1>1
<1>4. \A i \in 1 .. Len(s) : i # 1 => i - 1 \in 1 .. Len(s) - 1 /\ (i - 1) + 1 = i
  BY <1>1
<1>5. IsInjective(Tail(s))
  <2> SUFFICES ASSUME NEW i \in 1 .. Len(s) - 1, NEW j \in 1 .. Len(s) - 1,
                      Tail(s)[i] = Tail(s)[j]
               PROVE  i = j
    BY <1>1 DEF IsInjective
  <2>1. i + 1 = j + 1
    BY <1>1, <1>2, <1>3
  <2> QED
    BY <2>1
<1>6. Range(Tail(s)) \subseteq Range(s) \ {Head(s)}
  <2> SUFFICES ASSUME NEW i \in 1 .. Len(s) - 1
               PROVE  Tail(s)[i] \in Range(s) \ {Head(s)}
    BY <1>1 DEF Range
  <2>1. 1 \in 1 .. Len(s) /\ i + 1 \in 1 .. Len(s) /\ i + 1 # 1
    BY <1>1, <1>3
  <2> QED
    BY <1>1, <1>2, <2>1 DEF Range
<1>7. Range(s) \ {Head(s)} \subseteq Range(Tail(s))
  <2> SUFFICES ASSUME NEW i \in 1 .. Len(s), s[i] # s[1]
               PROVE  s[i] \in Range(Tail(s))
    BY <1>1 DEF Range
  <2>1. i - 1 \in 1 .. Len(s) - 1 /\ (i - 1) + 1 = i
    BY <1>4
  <2>2. Tail(s)[i - 1] = s[i]
    BY <1>1, <2>1
  <2> QED
    BY <1>1, <2>1, <2>2 DEF Range
<1> QED
  BY <1>1, <1>5, <1>6, <1>7 DEF Range

LEMMA MadeAreIds ==
    ASSUME IInv
    PROVE  1 .. created \subseteq Ids /\ created \in Nat
<1>1. Types /\ TablesOK /\ IsFiniteSet(Finding)
  BY GivenBlocks DEF IInv
<1>2. Cardinality(Finding) \in Nat
  BY <1>1, FS_CardinalityType
<1>3. created \in Nat /\ created <= Len(PoolSizes) + MaxCalls
  BY <1>1, <1>2, Bounds DEF TablesOK, Types
<1> QED
  BY <1>3, Bounds

\* Thread t takes block b of allocator a.
Takes(t, a, b) ==
    /\ a = op[t].alloc /\ b \in Blocks /\ b \notin Given /\ b[1] = a
    /\ b[2] \in 1 .. made'[a]
    /\ inUse' = [inUse EXCEPT ![a] = @ + 1] /\ op' = [op EXCEPT ![t].block = b]
    /\ pc' = [pc EXCEPT ![t] = "header"]
    /\ UNCHANGED <<static, created, blockSize, listed, word0, data, size, live, mutex,
                   crashed, calls>>

\* It is the first of the free list, or the list is empty and it is new.
ListMoves(a, b) ==
    /\ free' \in [Ids -> Seq(Blocks)] /\ made' \in [Ids -> Nat]
    /\ \A c \in Ids \ {a} : free'[c] = free[c] /\ made'[c] = made[c]
    /\ made'[a] \in {made[a], made[a] + 1} /\ (static => made'[a] <= MaxBlocks)
    /\ IsInjective(free'[a]) /\ Range(free'[a]) \subseteq Range(free[a]) \ {b}
    /\ made'[a] + Len(free[a]) = made[a] + Len(free'[a]) + 1

LEMMA TakeKeeps ==
    ASSUME IInv, NEW t \in Threads, ~crashed, pc[t] = "allocate",
           NEW a \in Ids, NEW b, Takes(t, a, b), ListMoves(a, b)
    PROVE  IInv'
<1>0. /\ a = op[t].alloc /\ b \in Blocks /\ b \notin Given /\ b[1] = a
      /\ inUse' = [inUse EXCEPT ![a] = @ + 1] /\ op' = [op EXCEPT ![t].block = b]
      /\ pc' = [pc EXCEPT ![t] = "header"]
      /\ UNCHANGED <<static, created, blockSize, listed, word0, data, size, live, mutex,
                     crashed, calls>>
  BY DEF Takes
<1>1. /\ Types /\ TablesOK /\ PairOK /\ BlocksOK /\ TagsOK
      /\ (\A u \in Threads : ThreadOK(u)) /\ FreeListsSound /\ CountsRight
  BY DEF IInv
<1>2. /\ a \in 1 .. created /\ a \in Nat /\ created \in Nat
      /\ op[t].size \in Sizes /\ op[t].old \in live \union {Null}
      /\ mutex = t /\ blockSize[a] = BlockSizeFor(op[t].size)
  BY <1>0, <1>1, MadeAreIds DEF ThreadOK
<1>3. /\ pc'[t] = "header" /\ Others(t)
      /\ op'[t] = [op[t] EXCEPT !.block = b] /\ op[t] \in Ops /\ op'[t] \in Ops
  <2>1. op[t] \in Ops /\ op'[t] = [op[t] EXCEPT !.block = b]
    BY <1>0, <1>1 DEF Types
  <2>2. op'[t] \in Ops
    BY <1>0, <2>1 DEF Ops
  <2> QED
    BY <1>0, <1>1, <2>1, <2>2 DEF Types, Others
<1>4. /\ op'[t].block = b /\ op'[t].old = op[t].old /\ op'[t].size = op[t].size
      /\ op'[t].tag = op[t].tag /\ op'[t].alloc = a
  BY <1>0, <1>3 DEF Ops
<1>5. /\ ~Holding(t) /\ Holding(t)' /\ b # Null
      /\ \A u \in Threads \ {t} : Holding(u)' = Holding(u) /\ op'[u] = op[u]
  BY <1>0, <1>3, <1>4, Bounds DEF Holding, Others
<1>6. Given' = Given \union {b}
  BY <1>0, <1>4, <1>5, GivenIs
<1>7. /\ GivenOf(a)' = GivenOf(a) \union {b} /\ b \notin GivenOf(a)
      /\ \A c \in Ids \ {a} : GivenOf(c)' = GivenOf(c)
      /\ \A c : NullHeld(c)' = NullHeld(c)
  <2>1. \A c : NullHeld(c)' = NullHeld(c)
    BY ZenonT(60), <1>3, <1>4, <1>5 DEF NullHeld, Others
  <2> QED
    BY <1>0, <1>6, <2>1 DEF GivenOf
<1>8. /\ IsFiniteSet(Asking) /\ t \in Asking /\ Asking' = Asking \ {t} /\ Finding' = Finding
  BY <1>1, <1>3, GivenBlocks DEF Asking, Finding, Others
<1>9. /\ Cardinality(Asking) \in Nat /\ Cardinality(Asking') \in Nat
      /\ Cardinality(Asking') = Cardinality(Asking) - 1
  BY <1>8, OneFewer
<1>10. ASSUME NEW c \in Ids
       PROVE  /\ free[c] \in Seq(Blocks) /\ free'[c] \in Seq(Blocks)
              /\ Len(free[c]) \in Nat /\ Len(free'[c]) \in Nat
              /\ made[c] \in Nat /\ made'[c] \in Nat /\ made'[c] >= made[c]
              /\ made'[c] <= made[c] + 1
              /\ c # a => free'[c] = free[c] /\ made'[c] = made[c]
              /\ static => made'[c] <= MaxBlocks
  <2>1. free[c] \in Seq(Blocks) /\ made[c] \in Nat /\ (static => made[c] <= MaxBlocks)
    BY <1>1 DEF Types, TablesOK
  <2>2. /\ free'[c] \in Seq(Blocks) /\ made'[c] \in Nat
        /\ c # a => free'[c] = free[c] /\ made'[c] = made[c]
        /\ c = a => made'[c] \in {made[c], made[c] + 1} /\ (static => made'[c] <= MaxBlocks)
    BY DEF ListMoves
  <2> QED
    BY <2>1, <2>2
<1>11. Types'
  <2>1. inUse' \in [Ids -> Int]
    BY SMTT(30), <1>0, <1>1 DEF Types
  <2>2. op' \in [Threads -> Ops] /\ pc' \in [Threads -> Labels]
    BY <1>0, <1>1, <1>3 DEF Types, Labels
  <2>3. free' \in [Ids -> Seq(Blocks)] /\ made' \in [Ids -> Nat]
    BY DEF ListMoves
  <2> QED
    BY <1>0, <1>1, <2>1, <2>2, <2>3 DEF Types
<1>12. TablesOK'
  <2>1. \A c \in Ids : c > created' => made'[c] = 0 /\ free'[c] = <<>>
    BY <1>0, <1>1, <1>2, <1>10 DEF TablesOK
  <2>2. ASSUME NEW c \in Ids PROVE made'[c] + Cardinality(Asking') <= calls'
    <3>1. made[c] \in Nat /\ made'[c] \in Nat /\ made'[c] <= made[c] + 1
          /\ made[c] + Cardinality(Asking) <= calls
      BY <1>1, <1>10 DEF TablesOK
    <3>2. calls \in Nat /\ calls' = calls
      BY <1>0, <1>1, Bounds DEF Types
    <3> QED
      BY <1>9, <3>1, <3>2
  <2>3. \A c \in Ids : static' => made'[c] <= MaxBlocks
    BY <1>0, <1>10
  <2> QED
    BY <1>0, <1>1, <1>8, <2>1, <2>2, <2>3 DEF TablesOK, Listed
<1>13. \A u \in Threads : ThreadOK(u)'
  <2>1. ThreadOK(t)'
    BY <1>0, <1>2, <1>3, <1>4, <1>5 DEF ThreadOK
  <2>2. \A u \in Threads \ {t} : ThreadOK(u)'
    BY <1>0, <1>2, <1>3, OtherThreads
  <2> QED
    BY <2>1, <2>2
<1>14. PairOK'
  <2>1. \A u \in Threads \ {t} : Holding(u) => op[u].block # b
    BY <1>0, GivenIs
  <2> QED
    BY <1>1, <1>3, <1>4, <2>1, PairKept
<1>15. BlocksOK'
  <2>1. ASSUME NEW c \in Given PROVE Placed(c)'
    <3>1. Placed(c) /\ c[1] \in Ids
      BY <1>1, MadeAreIds DEF BlocksOK, Placed
    <3>2. made[c[1]] \in Nat /\ made'[c[1]] \in Nat /\ made'[c[1]] >= made[c[1]]
      BY <1>10, <3>1
    <3> QED
      BY <1>0, <3>1, <3>2 DEF Placed
  <2>2. Placed(b)'
    BY <1>0, <1>2 DEF Placed, Takes
  <2>3. \A u \in Threads : Holding(u)' => op'[u].block \notin live'
    BY <1>0, <1>1, <1>4, <1>5, GivenIs DEF BlocksOK
  <2>4. \A c \in live : Fits(c)' /\ data'[c].valid <= size'[c]
    BY <1>0, <1>1 DEF BlocksOK, Fits
  <2> QED
    BY <1>0, <1>6, <2>1, <2>2, <2>3, <2>4 DEF BlocksOK
<1>16. TagsOK'
  <2>1. Writing(t)' => Writing(t) /\ op'[t].tag = op[t].tag
    BY <1>3, <1>4 DEF Writing
  <2> QED
    BY <1>0, <1>1, <1>3, <2>1, TagsKept
<1>17. FreeListsSound'
  <2> SUFFICES ASSUME NEW c \in Ids
               PROVE  /\ IsInjective(free'[c])
                      /\ Range(free'[c]) \intersect Given' = {}
                      /\ Range(free'[c]) \subseteq {c} \X (1 .. made'[c])
    BY DEF FreeListsSound
  <2>1. /\ IsInjective(free[c]) /\ Range(free[c]) \intersect Given = {}
        /\ Range(free[c]) \subseteq {c} \X (1 .. made[c])
    BY <1>1 DEF FreeListsSound
  <2>2. CASE c = a
    <3>1. 1 .. made[a] \subseteq 1 .. made'[a]
      BY <1>10
    <3>2. IsInjective(free'[a]) /\ Range(free'[a]) \subseteq Range(free[a]) \ {b}
      BY DEF ListMoves
    <3> QED
      BY <1>6, <2>1, <2>2, <3>1, <3>2
  <2>3. CASE c # a
    <3>1. b \notin Range(free[c])
      BY <1>0, <2>1, <2>3
    <3>2. free'[c] = free[c] /\ made'[c] = made[c]
      BY <1>10, <2>3
    <3> QED
      BY <1>6, <2>1, <3>1, <3>2
  <2> QED
    BY <2>2, <2>3
<1>18. CountsRight'
  <2>1. IsFiniteSet(GivenOf(a))
    BY <1>1, GivenBlocks
  <2>2. Cardinality(GivenOf(a)) \in Nat
        /\ Cardinality(GivenOf(a)') = Cardinality(GivenOf(a)) + 1
    BY <1>7, <2>1, OneMore
  <2>3. Cardinality(NullHeld(a)) \in Nat
    BY <1>1, GivenBlocks, FS_CardinalityType
  <2>4. inUse'[a] = Cardinality(GivenOf(a)') + Cardinality(NullHeld(a)')
    <3>1. inUse[a] = Cardinality(GivenOf(a)) + Cardinality(NullHeld(a))
      BY <1>1, Counts
    <3>2. inUse'[a] = inUse[a] + 1
      BY <1>0, <1>1 DEF Types
    <3> QED
      BY <1>7, <2>2, <2>3, <3>1, <3>2
  <2>5. ASSUME a \in Listed' PROVE made'[a] = Len(free'[a]) + Cardinality(GivenOf(a)')
    <3>1. made[a] = Len(free[a]) + Cardinality(GivenOf(a))
      BY <1>0, <1>1, <2>5, Counts DEF Listed
    <3>2. made'[a] + Len(free[a]) = made[a] + Len(free'[a]) + 1
      BY DEF ListMoves
    <3>3. /\ Len(free[a]) \in Nat /\ Len(free'[a]) \in Nat
          /\ made[a] \in Nat /\ made'[a] \in Nat
      BY <1>10
    <3>4. PICK g, h, k, j : /\ g = Cardinality(GivenOf(a)) /\ h = Cardinality(GivenOf(a)')
                            /\ k = Len(free[a]) /\ j = Len(free'[a])
      OBVIOUS
    <3>5. /\ g \in Nat /\ k \in Nat /\ j \in Nat /\ h = g + 1
          /\ made[a] = k + g /\ made'[a] + k = made[a] + j + 1
      BY <2>2, <3>1, <3>2, <3>3, <3>4
    <3>6. made'[a] = j + h
      BY SMTT(30), <3>3, <3>5
    <3> QED
      BY <3>4, <3>6
  <2>6. ASSUME NEW c \in Ids, c # a
        PROVE  /\ inUse'[c] = Cardinality(GivenOf(c)') + Cardinality(NullHeld(c)')
               /\ c \in Listed' => made'[c] = Len(free'[c]) + Cardinality(GivenOf(c)')
    <3>1. /\ inUse[c] = Cardinality(GivenOf(c)) + Cardinality(NullHeld(c))
          /\ c \in Listed => made[c] = Len(free[c]) + Cardinality(GivenOf(c))
      BY <1>1, Counts
    <3>2. inUse'[c] = inUse[c] /\ Listed' = Listed
      BY <1>0, <1>1, <2>6 DEF Types, Listed
    <3> QED
      BY <1>7, <1>10, <2>6, <3>1, <3>2
  <2> QED
    BY <2>4, <2>5, <2>6, Counts
<1>19. CrashesOnlyAtPoolLimit'
  BY <1>0 DEF CrashesOnlyAtPoolLimit
<1> QED
  BY <1>11, <1>12, <1>13, <1>14, <1>15, <1>16, <1>17, <1>18, <1>19 DEF IInv

\* A pool that is used up: a null block is counted and goes on, ...
NoneLeft(t) ==
    /\ inUse' = [inUse EXCEPT ![op[t].alloc] = @ + 1]
    /\ op' = [op EXCEPT ![t].block = Null] /\ pc' = [pc EXCEPT ![t] = "header"]
    /\ UNCHANGED <<static, created, blockSize, free, made, listed, word0, data, size, live,
                   mutex, crashed, calls>>

LEMMA NullKeeps ==
    ASSUME IInv, NEW t \in Threads, ~crashed, pc[t] = "allocate",
           static, made[op[t].alloc] >= MaxBlocks, NoneLeft(t)
    PROVE  IInv'
<1>0. PICK a : a = op[t].alloc
  OBVIOUS
<1>1. /\ Types /\ TablesOK /\ PairOK /\ BlocksOK /\ TagsOK
      /\ (\A u \in Threads : ThreadOK(u)) /\ FreeListsSound /\ CountsRight
  BY DEF IInv
<1>2. /\ a \in 1 .. created /\ a \in Ids
      /\ op[t].size \in Sizes /\ op[t].old \in live \union {Null}
      /\ mutex = t /\ blockSize[a] = BlockSizeFor(op[t].size)
  BY <1>0, <1>1, MadeAreIds DEF ThreadOK
<1>3. /\ pc'[t] = "header" /\ Others(t)
      /\ op'[t] = [op[t] EXCEPT !.block = Null] /\ op[t] \in Ops /\ op'[t] \in Ops
  <2>1. op[t] \in Ops /\ op'[t] = [op[t] EXCEPT !.block = Null]
    BY <1>1 DEF Types, NoneLeft
  <2>2. op'[t] \in Ops
    BY <2>1 DEF Ops
  <2> QED
    BY <1>1, <2>1, <2>2 DEF Types, Others, NoneLeft
<1>4. /\ op'[t].block = Null /\ op'[t].old = op[t].old /\ op'[t].size = op[t].size
      /\ op'[t].tag = op[t].tag /\ op'[t].alloc = a
  BY <1>0, <1>3 DEF Ops
<1>5. /\ ~Holding(t) /\ ~Holding(t)'
      /\ \A u \in Threads \ {t} : Holding(u)' = Holding(u) /\ op'[u] = op[u]
  BY <1>3, <1>4 DEF Holding, Others
<1>6. /\ Given' = Given
      /\ \A c : GivenOf(c)' = GivenOf(c)
  <2>1. Given' = Given
    BY <1>5, GivenIs DEF NoneLeft
  <2> QED
    BY <2>1 DEF GivenOf
<1>7. /\ t \notin NullHeld(a) /\ NullHeld(a)' = NullHeld(a) \union {t}
      /\ \A c : c # a => NullHeld(c)' = NullHeld(c)
  BY <1>3, <1>4 DEF NullHeld, Others
<1>8. /\ IsFiniteSet(Asking) /\ t \in Asking /\ Asking' = Asking \ {t} /\ Finding' = Finding
  BY <1>1, <1>3, GivenBlocks DEF Asking, Finding, Others
<1>9. /\ Cardinality(Asking) \in Nat /\ Cardinality(Asking') \in Nat
      /\ Cardinality(Asking') = Cardinality(Asking) - 1
  BY <1>8, OneFewer
<1>10. Types'
  <2>1. inUse' \in [Ids -> Int]
    BY <1>0, <1>1, <1>2 DEF Types, NoneLeft
  <2>2. op' \in [Threads -> Ops] /\ pc' \in [Threads -> Labels]
    BY <1>1, <1>3 DEF Types, Labels, NoneLeft
  <2> QED
    BY <1>1, <2>1, <2>2 DEF Types, NoneLeft
<1>11. TablesOK'
  <2>1. ASSUME NEW c \in Ids PROVE made'[c] + Cardinality(Asking') <= calls'
    <3>1. /\ made[c] \in Nat /\ made'[c] = made[c] /\ calls \in Nat /\ calls' = calls
          /\ made[c] + Cardinality(Asking) <= calls
      BY <1>1, Bounds DEF TablesOK, Types, NoneLeft
    <3> QED
      BY <1>9, <3>1
  <2> QED
    BY <1>1, <1>8, <2>1 DEF TablesOK, Listed, NoneLeft
<1>12. \A u \in Threads : ThreadOK(u)'
  <2>1. made[a] = MaxBlocks
    BY <1>0, <1>1, <1>2, Bounds DEF TablesOK, Types
  <2>2. ThreadOK(t)'
    BY <1>2, <1>3, <1>4, <2>1 DEF ThreadOK, NoneLeft
  <2>3. \A u \in Threads \ {t} : ThreadOK(u)'
    <3>1. created \in Nat
      BY MadeAreIds
    <3> QED
      BY <1>2, <1>3, <3>1, OtherThreads DEF NoneLeft
  <2> QED
    BY <2>2, <2>3
<1>13. PairOK'
  BY <1>1, <1>3, <1>4, <1>5, PairKept
<1>14. BlocksOK'
  <2>1. \A u \in Threads : Holding(u)' => op'[u].block \notin live'
    BY <1>1, <1>5 DEF BlocksOK, NoneLeft
  <2> QED
    BY <1>1, <1>6, <2>1 DEF BlocksOK, Placed, Fits, NoneLeft
<1>15. TagsOK'
  <2>1. Writing(t)' => Writing(t) /\ op'[t].tag = op[t].tag
    BY <1>3, <1>4 DEF Writing
  <2> QED
    BY <1>1, <1>3, <2>1, TagsKept DEF NoneLeft
<1>16. FreeListsSound'
  BY <1>1, <1>6 DEF FreeListsSound, NoneLeft
<1>17. CountsRight'
  <2>1. Cardinality(NullHeld(a)) \in Nat
        /\ Cardinality(NullHeld(a)') = Cardinality(NullHeld(a)) + 1
    BY <1>1, <1>7, GivenBlocks, OneMore
  <2>2. Cardinality(GivenOf(a)) \in Nat
    BY <1>1, GivenBlocks, FS_CardinalityType
  <2>3. inUse'[a] = Cardinality(GivenOf(a)') + Cardinality(NullHeld(a)')
    <3>1. inUse[a] = Cardinality(GivenOf(a)) + Cardinality(NullHeld(a))
      BY <1>1, <1>2, Counts
    <3>2. inUse'[a] = inUse[a] + 1
      BY <1>0, <1>1, <1>2 DEF Types, NoneLeft
    <3> QED
      BY <1>6, <2>1, <2>2, <3>1, <3>2
  <2>4. ASSUME NEW c \in Ids, c # a
        PROVE  inUse'[c] = Cardinality(GivenOf(c)') + Cardinality(NullHeld(c)')
    <3>1. inUse'[c] = inUse[c]
      BY <1>0, <1>1, <2>4 DEF Types, NoneLeft
    <3> QED
      BY <1>1, <1>6, <1>7, <2>4, <3>1, Counts
  <2>5. \A c \in Ids : c \in Listed' => made'[c] = Len(free'[c]) + Cardinality(GivenOf(c)')
    BY <1>1, <1>6, Counts DEF Listed, NoneLeft
  <2> QED
    BY <2>3, <2>4, <2>5, Counts
<1>18. CrashesOnlyAtPoolLimit'
  BY DEF CrashesOnlyAtPoolLimit, NoneLeft
<1> QED
  BY <1>10, <1>11, <1>12, <1>13, <1>14, <1>15, <1>16, <1>17, <1>18 DEF IInv

\* ... or the call ends in an exception.
Throws(t) ==
    /\ pc' = [pc EXCEPT ![t] = "idle"] /\ op' = [op EXCEPT ![t] = NoOp] /\ mutex' = NoOne
    /\ UNCHANGED <<static, created, blockSize, free, made, inUse, listed, word0, data, size,
                   live, crashed, calls>>

LEMMA ThrowKeeps ==
    ASSUME IInv, NEW t \in Threads, ~crashed, pc[t] = "allocate", Throws(t)
    PROVE  IInv'
<1>1. /\ Types /\ TablesOK /\ PairOK /\ BlocksOK /\ TagsOK
      /\ (\A u \in Threads : ThreadOK(u)) /\ FreeListsSound /\ CountsRight
  BY DEF IInv
<1>2. pc'[t] = "idle" /\ Others(t) /\ op'[t] = NoOp /\ NoOp \in Ops /\ mutex = t
  BY <1>1, Bounds DEF Types, Others, Throws, NoOp, Ops, ThreadOK
<1>3. /\ Given' = Given
      /\ \A u \in Threads : Holding(u)' = Holding(u)
      /\ \A c : GivenOf(c)' = GivenOf(c) /\ NullHeld(c)' = NullHeld(c)
  BY <1>2, EmptyHanded DEF Throws
<1>4. Types'
  BY <1>1, <1>2 DEF Types, Labels, Throws
<1>5. TablesOK'
  <2>1. IsFiniteSet(Asking) /\ t \in Asking /\ Asking' = Asking \ {t} /\ Finding' = Finding
    BY <1>1, <1>2, GivenBlocks DEF Asking, Finding, Others
  <2>2. /\ Cardinality(Asking) \in Nat /\ Cardinality(Asking') \in Nat
        /\ Cardinality(Asking') = Cardinality(Asking) - 1
    BY <2>1, OneFewer
  <2>3. ASSUME NEW c \in Ids PROVE made'[c] + Cardinality(Asking') <= calls'
    <3>1. /\ made[c] \in Nat /\ made'[c] = made[c]
          /\ made[c] + Cardinality(Asking) <= calls
      BY <1>1 DEF TablesOK, Types, Throws
    <3>2. calls \in Nat /\ calls' = calls
      BY <1>1, Bounds DEF Types, Throws
    <3> QED
      BY <2>2, <3>1, <3>2
  <2> QED
    BY <1>1, <2>1, <2>3 DEF TablesOK, Listed, Throws
<1>6. \A u \in Threads : ThreadOK(u)'
  <2>1. ThreadOK(t)'
    BY <1>2 DEF ThreadOK
  <2>2. \A u \in Threads \ {t} : ThreadOK(u)'
    <3>1. created \in Nat
      BY MadeAreIds
    <3> QED
      BY <1>2, <3>1, OtherThreads DEF Throws
  <2> QED
    BY <2>1, <2>2
<1>7. PairOK'
  <2>1. ~Holding(t)' /\ op'[t].old = Null
    BY <1>2 DEF Holding, NoOp
  <2> QED
    BY <1>1, <1>2, <2>1, PairKept
<1>8. BlocksOK'
  <2>1. \A u \in Threads : Holding(u)' => op'[u].block = op[u].block
    BY <1>2 DEF Holding, Others
  <2> QED
    BY <1>1, <1>3, <2>1 DEF BlocksOK, Placed, Fits, Throws
<1>9. TagsOK'
  <2>1. ~Writing(t)'
    BY <1>2 DEF Writing
  <2> QED
    BY <1>1, <1>2, <2>1, TagsKept DEF Throws
<1>10. FreeListsSound' /\ CountsRight' /\ CrashesOnlyAtPoolLimit'
  BY <1>3, ListsAndCountsKept DEF CrashesOnlyAtPoolLimit, Throws
<1> QED
  BY <1>4, <1>5, <1>6, <1>7, <1>8, <1>9, <1>10 DEF IInv

LEMMA AllocateKeeps ==
    ASSUME IInv, NEW t \in Threads, Allocate(t)
    PROVE  IInv'
<1>1. /\ Types /\ TablesOK /\ BlocksOK /\ ThreadOK(t) /\ FreeListsSound
      /\ ~crashed /\ pc[t] = "allocate"
  BY DEF IInv, Allocate
<1>2. PICK a \in Ids : a = op[t].alloc
  BY <1>1, MadeAreIds DEF ThreadOK
<1>3. /\ free[a] \in Seq(Blocks) /\ made[a] \in Nat
      /\ IsInjective(free[a]) /\ Range(free[a]) \intersect Given = {}
      /\ Range(free[a]) \subseteq {a} \X (1 .. made[a])
  BY <1>1 DEF Types, FreeListsSound
<1>4. CASE AllocateFree(t)
  <2>1. PICK b : b = Head(free[a])
    OBVIOUS
  <2>2. /\ b \in Range(free[a]) /\ Tail(free[a]) \in Seq(Blocks)
        /\ Len(free[a]) = Len(Tail(free[a])) + 1 /\ Len(Tail(free[a])) \in Nat
        /\ IsInjective(Tail(free[a])) /\ Range(Tail(free[a])) = Range(free[a]) \ {b}
    BY <1>2, <1>3, <1>4, <2>1, TailOfList DEF AllocateFree
  <2>3. b \in Blocks /\ b \notin Given /\ b[1] = a /\ b[2] \in 1 .. made[a]
    <3>1. Range(free[a]) \subseteq Blocks
      BY <1>3 DEF Range
    <3> QED
      BY <1>3, <2>2, <3>1
  <2>4. Takes(t, a, b)
    <3>1. made' = made
      BY <1>4 DEF AllocateFree
    <3> QED
      BY <1>2, <1>4, <2>1, <2>3, <3>1
         DEF Takes, Allocate, AllocateFree, TakeBlock, Count, Goto, client
  <2>5. ListMoves(a, b)
    <3>1. free' = [free EXCEPT ![a] = Tail(@)] /\ made' = made /\ static' = static
      BY <1>2, <1>4 DEF Allocate, AllocateFree
    <3>2. /\ free'[a] = Tail(free[a]) /\ free' \in [Ids -> Seq(Blocks)]
          /\ \A c \in Ids \ {a} : free'[c] = free[c] /\ made'[c] = made[c]
      BY <1>1, <2>2, <3>1 DEF Types
    <3>3. made' \in [Ids -> Nat] /\ (static => made[a] <= MaxBlocks)
      BY <1>1, <3>1 DEF Types, TablesOK
    <3> QED
      BY <1>3, <2>2, <3>1, <3>2, <3>3 DEF ListMoves
  <2> QED
    BY <1>1, <2>4, <2>5, TakeKeeps
<1>5. CASE AllocateNew(t)
  <2>1. PICK b : b = <<a, made[a] + 1>>
    OBVIOUS
  <2>2. made' = [made EXCEPT ![a] = @ + 1] /\ free' = free /\ free[a] = <<>>
        /\ (static => made[a] < MaxBlocks)
    BY <1>2, <1>5 DEF AllocateNew
  <2>3. /\ made'[a] = made[a] + 1 /\ made' \in [Ids -> Nat]
        /\ \A c \in Ids \ {a} : made'[c] = made[c]
    BY <1>1, <1>3, <2>2 DEF Types
  <2>4. b \in Blocks
    <3>1. IsFiniteSet(Asking) /\ t \in Asking
      BY <1>1, GivenBlocks DEF Asking
    <3>2. Cardinality(Asking) \in Nat /\ Cardinality(Asking) >= 1
      <4>1. /\ Cardinality(Asking) \in Nat /\ Cardinality(Asking \ {t}) \in Nat
            /\ Cardinality(Asking \ {t}) = Cardinality(Asking) - 1
        BY <3>1, OneFewer
      <4> QED
        BY <4>1
    <3>3. made[a] + 1 <= MaxCalls
      BY <1>1, <1>3, <3>2, Bounds DEF TablesOK, Types
    <3>4. made[a] + 1 \in Numbers
      BY <1>3, <3>3, Bounds DEF Numbers
    <3> QED
      BY <2>1, <3>4 DEF Blocks
  <2>5. b \notin Given
    BY <1>1, <1>3, <2>1 DEF BlocksOK, Placed
  <2>6. Takes(t, a, b)
    BY <1>2, <1>3, <1>5, <2>1, <2>3, <2>4, <2>5
       DEF Takes, Allocate, AllocateNew, TakeBlock, Count, Goto, client
  <2>7. ListMoves(a, b)
    <3>1. b \notin Range(free[a])
      BY <2>2 DEF Range
    <3>2. free' \in [Ids -> Seq(Blocks)] /\ MaxBlocks \in Nat
      BY <1>1, <2>2, Bounds DEF Types
    <3> QED
      BY <1>3, <2>2, <2>3, <3>1, <3>2 DEF ListMoves
  <2> QED
    BY <1>1, <2>6, <2>7, TakeKeeps
<1>6. CASE AllocateNone(t)
  <2>1. static /\ made[op[t].alloc] >= MaxBlocks
    BY <1>6 DEF AllocateNone
  <2>2. CASE TakeBlock(t, Null)
    <3>1. NoneLeft(t)
      BY <1>6, <2>2 DEF NoneLeft, Allocate, AllocateNone, TakeBlock, Count, Goto, client
    <3> QED
      BY <1>1, <2>1, <3>1, NullKeeps
  <2>3. CASE ~TakeBlock(t, Null)
    <3>1. Throws(t)
      BY <1>6, <2>3 DEF Throws, Allocate, AllocateNone, Goto, client
    <3> QED
      BY <1>1, <3>1, ThrowKeeps
  <2> QED
    BY <2>2, <2>3
<1> QED
  BY <1>4, <1>5, <1>6 DEF Allocate

(***************************************************************************)
(* SetHeader and CopyOver: the thread keeps the block it holds, or hands   *)
(* it over to the caller.                                                  *)
(***************************************************************************)
LEMMA TablesKept ==
    ASSUME TablesOK, NEW t \in Threads, Others(t),
           pc[t] \notin {"find", "allocate"}, pc'[t] \notin {"find", "allocate"},
           UNCHANGED <<static, created, free, made, listed, calls>>
    PROVE  TablesOK'
<1>1. Finding' = Finding /\ Asking' = Asking
  BY DEF Finding, Asking, Others
<1> QED
  BY <1>1 DEF TablesOK, Listed

LEMMA SameGiven ==
    ASSUME NEW t \in Threads, Others(t), Given' = Given,
           pc[t] = "header" => op[t].block # Null,
           pc'[t] = "header" => op'[t].block # Null
    PROVE  \A c : GivenOf(c)' = GivenOf(c) /\ NullHeld(c)' = NullHeld(c)
BY DEF GivenOf, NullHeld, Others

LEMMA HeldBlock ==
    ASSUME IInv, NEW t \in Threads, NEW b, b = op[t].block, b # Null,
           pc[t] \in {"header", "copy"}
    PROVE  /\ b \in Blocks /\ b \notin live /\ Holding(t)
           /\ Placed(b) /\ op[t].size \in Sizes
           /\ \A u \in Threads \ {t} : Holding(u) => op[u].block # b
           /\ pc[t] = "header" =>
                 /\ b[1] = op[t].alloc /\ op[t].alloc \in Nat /\ mutex = t
                 /\ op[t].size + PointerSize <= blockSize[b[1]]
<1>1. /\ Types /\ PairOK /\ BlocksOK /\ ThreadOK(t)
  BY DEF IInv
<1>2. Holding(t) /\ b \in Given
  BY GivenIs DEF Holding
<1>3. b \in Blocks /\ b \notin live /\ Placed(b) /\ op[t].size \in Sizes
  BY <1>1, <1>2, GivenBlocks DEF BlocksOK, ThreadOK
<1>4. \A u \in Threads \ {t} : Holding(u) => op[u].block # b
  BY <1>1, <1>2 DEF PairOK
<1>5. ASSUME pc[t] = "header"
      PROVE  /\ b[1] = op[t].alloc /\ op[t].alloc \in Nat /\ mutex = t
             /\ op[t].size + PointerSize <= blockSize[b[1]]
  BY <1>1, <1>3, <1>5, BlockSizeFits DEF ThreadOK, Types, Ops
<1> QED
  BY <1>2, <1>3, <1>4, <1>5

\* A null block: the program dies.
LEMMA HeaderCrashes ==
    ASSUME IInv, NEW t \in Threads, SetHeader(t), op[t].block = Null
    PROVE  IInv'
<1>0. /\ pc[t] = "header" /\ crashed' = TRUE
      /\ UNCHANGED <<static, created, blockSize, free, made, inUse, listed, word0, data,
                     size, live, mutex, pc, op, calls>>
  BY DEF SetHeader, allocators, client
<1>1. /\ Types /\ TablesOK /\ PairOK /\ BlocksOK /\ TagsOK
      /\ (\A u \in Threads : ThreadOK(u)) /\ FreeListsSound /\ CountsRight
  BY DEF IInv
<1>2. Given' = Given /\ \A c : GivenOf(c)' = GivenOf(c) /\ NullHeld(c)' = NullHeld(c)
  <2>1. Given' = Given
    BY <1>0, GivenIs DEF Holding
  <2> QED
    BY <1>0, <2>1 DEF GivenOf, NullHeld
<1>3. Types' /\ TablesOK' /\ PairOK' /\ BlocksOK' /\ TagsOK'
  <2>1. Types'
    BY <1>0, <1>1 DEF Types
  <2>2. TablesOK'
    BY <1>0, <1>1 DEF TablesOK, Finding, Asking, Listed
  <2>3. PairOK' /\ TagsOK'
    BY <1>0, <1>1 DEF PairOK, TagsOK, Holding, Writing
  <2>4. BlocksOK'
    BY <1>0, <1>1, <1>2 DEF BlocksOK, Placed, Fits, Holding
  <2> QED
    BY <2>1, <2>2, <2>3, <2>4
<1>4. \A u \in Threads : ThreadOK(u)'
  BY <1>0, <1>1 DEF ThreadOK, Fits
<1>5. FreeListsSound' /\ CountsRight'
  BY <1>0, <1>2, ListsAndCountsKept
<1>6. CrashesOnlyAtPoolLimit'
  BY <1>0, <1>1 DEF CrashesOnlyAtPoolLimit, ThreadOK
<1> QED
  BY <1>3, <1>4, <1>5, <1>6 DEF IInv

\* xmalloc returns the block.
LEMMA HeaderReturns ==
    ASSUME IInv, NEW t \in Threads, SetHeader(t), op[t].block # Null, op[t].old = Null
    PROVE  IInv'
<1> PICK b : b = op[t].block
  OBVIOUS
<1>0. /\ pc[t] = "header" /\ mutex' = NoOne
      /\ word0' = [word0 EXCEPT ![b] = op[t].alloc]
      /\ size' = [size EXCEPT ![b] = op[t].size]
      /\ live' = live \union {b}
      /\ data' = [data EXCEPT ![b] = [tag |-> op[t].tag, valid |-> op[t].size]]
      /\ pc' = [pc EXCEPT ![t] = "idle"] /\ op' = [op EXCEPT ![t] = NoOp]
      /\ UNCHANGED <<static, created, blockSize, free, made, inUse, listed, crashed, calls>>
      /\ ~crashed
  BY DEF SetHeader, allocators, Goto
<1>1. /\ Types /\ TablesOK /\ PairOK /\ BlocksOK /\ TagsOK
      /\ (\A u \in Threads : ThreadOK(u)) /\ FreeListsSound /\ CountsRight
  BY DEF IInv
<1>2. /\ b \in Blocks /\ b \notin live /\ Placed(b) /\ op[t].size \in Sizes
      /\ \A u \in Threads \ {t} : Holding(u) => op[u].block # b
      /\ b[1] = op[t].alloc /\ op[t].alloc \in Nat /\ mutex = t /\ Holding(t)
      /\ op[t].size + PointerSize <= blockSize[b[1]]
  BY <1>0, HeldBlock
<1>3. /\ pc'[t] = "idle" /\ Others(t) /\ op'[t] = NoOp /\ NoOp \in Ops /\ op[t].tag \in Nat
      /\ op[t].size \in Nat /\ created \in Nat
  BY <1>0, <1>1, Bounds DEF Types, Others, NoOp, Ops
<1>4. /\ ~Holding(t)'
      /\ \A u \in Threads \ {t} : Holding(u)' = Holding(u) /\ op'[u] = op[u]
  BY <1>3 DEF Holding, Others
<1>5. Given' = Given
  BY <1>0, <1>2, <1>4, GivenIs
<1>6. /\ \A c \in Blocks \ {b} : word0'[c] = word0[c] /\ size'[c] = size[c] /\ data'[c] = data[c]
      /\ word0'[b] = op[t].alloc /\ size'[b] = op[t].size
      /\ data'[b].tag = op[t].tag /\ data'[b].valid = op[t].size
  BY <1>0, <1>1, <1>2 DEF Types
<1>7. Types'
  <2>1. /\ word0' \in [Blocks -> Nat] /\ size' \in [Blocks -> Nat]
        /\ data' \in [Blocks -> [tag : Nat, valid : Nat]] /\ live' \subseteq Blocks
    BY <1>0, <1>1, <1>2, <1>3 DEF Types
  <2>2. pc' \in [Threads -> Labels] /\ op' \in [Threads -> Ops]
    BY <1>0, <1>1, <1>3 DEF Types, Labels
  <2> QED
    BY <1>0, <1>1, <2>1, <2>2 DEF Types
<1>8. TablesOK'
  BY <1>0, <1>1, <1>3, TablesKept
<1>9. \A c \in live : c \in Blocks \ {b}
  BY <1>1, <1>2 DEF Types
<1>10. \A u \in Threads : ThreadOK(u)'
  <2>1. ThreadOK(t)'
    BY <1>3 DEF ThreadOK
  <2>2. \A u \in Threads \ {t} : Holding(u) => op[u].block \in Blocks \ {b}
    BY <1>1, <1>2, GivenIs, GivenBlocks
  <2>3. \A u \in Threads \ {t} : ThreadOK(u)'
    BY <1>0, <1>2, <1>3, <1>6, <2>2, OtherThreads
  <2> QED
    BY <2>1, <2>3
<1>11. PairOK'
  BY <1>1, <1>3, <1>4, PairKept DEF NoOp
<1>12. BlocksOK'
  <2>1. \A u \in Threads : Holding(u)' => op'[u].block \notin live'
    BY <1>0, <1>1, <1>2, <1>4 DEF BlocksOK
  <2>2. \A c \in Given' : Placed(c)'
    BY <1>0, <1>1, <1>5 DEF BlocksOK, Placed
  <2>3. \A c \in live : Fits(c)' /\ data'[c].valid <= size'[c]
    BY <1>0, <1>1, <1>6, <1>9 DEF BlocksOK, Fits
  <2>4. Fits(b)' /\ data'[b].valid <= size'[b]
    BY <1>0, <1>2, <1>3, <1>6 DEF Fits
  <2> QED
    BY <1>0, <2>1, <2>2, <2>3, <2>4 DEF BlocksOK
<1>13. TagsOK'
  <2>1. Writing(t) /\ ~Writing(t)' /\ \A u \in Threads \ {t} : Writing(u)' = Writing(u)
    BY <1>0, <1>3 DEF Writing, Others
  <2>2. \A c \in live' : data'[c].tag \in 1 .. calls'
    BY <1>0, <1>1, <1>6, <1>9, <2>1 DEF TagsOK
  <2>3. \A u \in Threads : Writing(u)' => \A c \in live' : data'[c].tag # op'[u].tag
    BY <1>0, <1>1, <1>4, <1>6, <1>9, <2>1 DEF TagsOK
  <2> QED
    BY <1>0, <1>1, <1>4, <2>1, <2>2, <2>3 DEF TagsOK
<1>14. FreeListsSound' /\ CountsRight'
  <2>1. \A c : GivenOf(c)' = GivenOf(c) /\ NullHeld(c)' = NullHeld(c)
    BY <1>3, <1>5, SameGiven
  <2> QED
    BY <1>0, <1>5, <2>1, ListsAndCountsKept
<1>15. CrashesOnlyAtPoolLimit'
  BY <1>0 DEF CrashesOnlyAtPoolLimit
<1> QED
  BY <1>7, <1>8, <1>10, <1>11, <1>12, <1>13, <1>14, <1>15 DEF IInv

\* xrealloc has its block, and keeps the old one for the copy.
LEMMA HeaderGoesOn ==
    ASSUME IInv, NEW t \in Threads, SetHeader(t), op[t].block # Null, op[t].old # Null
    PROVE  IInv'
<1> PICK b : b = op[t].block
  OBVIOUS
<1>0. /\ pc[t] = "header" /\ mutex' = NoOne
      /\ word0' = [word0 EXCEPT ![b] = op[t].alloc]
      /\ size' = [size EXCEPT ![b] = op[t].size]
      /\ pc' = [pc EXCEPT ![t] = "copy"]
      /\ UNCHANGED <<static, created, blockSize, free, made, inUse, listed, data, live, op,
                     crashed, calls>>
      /\ ~crashed
  BY DEF SetHeader, allocators, Goto
<1>1. /\ Types /\ TablesOK /\ PairOK /\ BlocksOK /\ TagsOK
      /\ (\A u \in Threads : ThreadOK(u)) /\ FreeListsSound /\ CountsRight
  BY DEF IInv
<1>2. /\ b \in Blocks /\ b \notin live /\ Placed(b) /\ op[t].size \in Sizes
      /\ \A u \in Threads \ {t} : Holding(u) => op[u].block # b
      /\ b[1] = op[t].alloc /\ op[t].alloc \in Nat /\ mutex = t /\ Holding(t)
      /\ op[t].size + PointerSize <= blockSize[b[1]]
  BY <1>0, HeldBlock
<1>3. /\ pc'[t] = "copy" /\ Others(t) /\ op[t].size \in Nat /\ created \in Nat
      /\ op[t].old \in live
  BY <1>0, <1>1, <1>2, Bounds DEF Types, Others, ThreadOK
<1>4. \A u \in Threads : Holding(u)' = Holding(u) /\ op'[u] = op[u]
  BY <1>0, <1>2, <1>3 DEF Holding, Others
<1>5. Given' = Given
  BY <1>0, <1>4, GivenIs
<1>6. /\ \A c \in Blocks \ {b} : word0'[c] = word0[c] /\ size'[c] = size[c]
      /\ word0'[b] = op[t].alloc /\ size'[b] = op[t].size
  BY <1>0, <1>1, <1>2 DEF Types
<1>7. Types'
  <2>1. word0' \in [Blocks -> Nat] /\ size' \in [Blocks -> Nat]
    BY <1>0, <1>1, <1>2, <1>3 DEF Types
  <2>2. pc' \in [Threads -> Labels]
    BY <1>0, <1>1 DEF Types, Labels
  <2> QED
    BY <1>0, <1>1, <2>1, <2>2 DEF Types
<1>8. TablesOK'
  BY <1>0, <1>1, <1>3, TablesKept
<1>9. \A c \in live : c \in Blocks \ {b}
  BY <1>1, <1>2 DEF Types
<1>10. Fits(b)'
  BY <1>0, <1>2, <1>6 DEF Fits
<1>11. \A u \in Threads : ThreadOK(u)'
  <2>1. ThreadOK(t)'
    BY <1>0, <1>2, <1>3, <1>6, <1>10 DEF ThreadOK
  <2>2. \A u \in Threads \ {t} : Holding(u) => op[u].block \in Blocks \ {b}
    BY <1>1, <1>2, GivenIs, GivenBlocks
  <2>3. \A u \in Threads \ {t} : ThreadOK(u)'
    BY <1>0, <1>2, <1>3, <1>6, <2>2, OtherThreads
  <2> QED
    BY <2>1, <2>3
<1>12. PairOK'
  BY <1>1, <1>2, <1>3, <1>4, PairKept
<1>13. BlocksOK'
  <2>1. \A u \in Threads : Holding(u)' => op'[u].block \notin live'
    BY <1>0, <1>1, <1>4 DEF BlocksOK
  <2>2. \A c \in Given' : Placed(c)'
    BY <1>0, <1>1, <1>5 DEF BlocksOK, Placed
  <2>3. \A c \in live : Fits(c)' /\ data'[c].valid <= size'[c]
    BY <1>0, <1>1, <1>6, <1>9 DEF BlocksOK, Fits
  <2> QED
    BY <1>0, <2>1, <2>2, <2>3 DEF BlocksOK
<1>14. TagsOK'
  <2>1. ~Writing(t)'
    BY <1>3 DEF Writing
  <2> QED
    BY <1>0, <1>1, <1>3, <2>1, TagsKept
<1>15. FreeListsSound' /\ CountsRight'
  <2>1. \A c : GivenOf(c)' = GivenOf(c) /\ NullHeld(c)' = NullHeld(c)
    BY <1>3, <1>5, SameGiven
  <2> QED
    BY <1>0, <1>5, <2>1, ListsAndCountsKept
<1>16. CrashesOnlyAtPoolLimit'
  BY <1>0 DEF CrashesOnlyAtPoolLimit
<1> QED
  BY <1>7, <1>8, <1>11, <1>12, <1>13, <1>14, <1>15, <1>16 DEF IInv

LEMMA CopyOverKeeps ==
    ASSUME IInv, NEW t \in Threads, CopyOver(t)
    PROVE  IInv'
<1> PICK b, old, v : /\ b = op[t].block /\ old = op[t].old
                     /\ v = Smaller(data[old].valid,
                                    Smaller(blockSize[word0[old]] - PointerSize, op[t].size))
  OBVIOUS
<1>0. /\ ~crashed /\ pc[t] = "copy" /\ pc' = [pc EXCEPT ![t] = "readHeader"]
      /\ data' = [data EXCEPT ![b] = [tag |-> data[old].tag, valid |-> v]]
      /\ live' = live \union {b}
      /\ UNCHANGED <<static, created, blockSize, free, made, inUse, listed, word0, size,
                     mutex, op, crashed, calls>>
  BY DEF CopyOver, allocators, Goto
<1>1. /\ Types /\ TablesOK /\ PairOK /\ BlocksOK /\ TagsOK
      /\ (\A u \in Threads : ThreadOK(u)) /\ FreeListsSound /\ CountsRight
  BY DEF IInv
<1>2. /\ b # Null /\ Fits(b) /\ size[b] = op[t].size /\ old \in live /\ op[t].size \in Sizes
  BY <1>0, <1>1 DEF ThreadOK
<1>3. /\ b \in Blocks /\ b \notin live /\ Placed(b) /\ Holding(t)
      /\ \A u \in Threads \ {t} : Holding(u) => op[u].block # b
  BY <1>0, <1>2, HeldBlock
<1>4. /\ pc'[t] = "readHeader" /\ Others(t) /\ op[t].size \in Nat /\ created \in Nat
      /\ ~Holding(t)'
      /\ \A u \in Threads \ {t} : Holding(u)' = Holding(u) /\ op'[u] = op[u]
  BY <1>0, <1>1, <1>2, Bounds DEF Types, Others, Holding
<1>5. Given' = Given
  BY <1>0, <1>3, <1>4, GivenIs
<1>6. v \in Nat /\ v <= size[b] /\ data[old].tag \in Nat
  <2>1. /\ Fits(old) /\ old \in Blocks /\ old[1] \in 1 .. created
    BY <1>1, <1>2, GivenIs DEF BlocksOK, Types, Placed
  <2>2. /\ blockSize[old[1]] \in Nat /\ PointerSize \in Nat /\ size[old] \in Nat
        /\ data[old].valid \in Nat /\ data[old].tag \in Nat
    BY <1>1, <2>1, MadeAreIds, Bounds DEF Types
  <2>3. blockSize[word0[old]] - PointerSize \in Nat
    BY <2>1, <2>2 DEF Fits
  <2> QED
    BY <1>2, <1>4, <2>2, <2>3 DEF Smaller
<1>7. /\ \A c \in Blocks \ {b} : data'[c] = data[c]
      /\ data'[b].tag = data[old].tag /\ data'[b].valid = v
  BY <1>0, <1>1, <1>3 DEF Types
<1>8. Types'
  <2>1. data' \in [Blocks -> [tag : Nat, valid : Nat]] /\ live' \subseteq Blocks
    BY <1>0, <1>1, <1>3, <1>6 DEF Types
  <2>2. pc' \in [Threads -> Labels]
    BY <1>0, <1>1 DEF Types, Labels
  <2> QED
    BY <1>0, <1>1, <2>1, <2>2 DEF Types
<1>9. TablesOK'
  BY <1>0, <1>1, <1>4, TablesKept
<1>10. \A c \in live : c \in Blocks \ {b}
  BY <1>1, <1>3 DEF Types
<1>11. \A u \in Threads : ThreadOK(u)'
  <2>1. ThreadOK(t)'
    BY <1>0, <1>2, <1>4 DEF ThreadOK
  <2>2. \A u \in Threads \ {t} : ThreadOK(u)'
    BY <1>0, <1>4, OtherThreads
  <2> QED
    BY <2>1, <2>2
<1>12. PairOK'
  BY <1>0, <1>1, <1>4, PairKept
<1>13. BlocksOK'
  <2>1. \A u \in Threads : Holding(u)' => op'[u].block \notin live'
    BY <1>0, <1>1, <1>3, <1>4 DEF BlocksOK
  <2>2. \A c \in Given' : Placed(c)'
    BY <1>0, <1>1, <1>5 DEF BlocksOK, Placed
  <2>3. \A c \in live : Fits(c)' /\ data'[c].valid <= size'[c]
    BY <1>0, <1>1, <1>7, <1>10 DEF BlocksOK, Fits
  <2>4. Fits(b)' /\ data'[b].valid <= size'[b]
    BY <1>0, <1>2, <1>6, <1>7 DEF Fits
  <2> QED
    BY <1>0, <2>1, <2>2, <2>3, <2>4 DEF BlocksOK
<1>14. TagsOK'
  <2>1. ~Writing(t)' /\ \A u \in Threads \ {t} : Writing(u)' = Writing(u)
    BY <1>4 DEF Writing, Others
  <2>2. \A c \in live' : \E d \in live : data'[c].tag = data[d].tag
    BY <1>0, <1>2, <1>7, <1>10
  <2>3. \A c \in live' : data'[c].tag \in 1 .. calls'
    BY <1>0, <1>1, <2>2 DEF TagsOK
  <2>4. \A u \in Threads : Writing(u)' => \A c \in live' : data'[c].tag # op'[u].tag
    BY <1>1, <1>4, <2>1, <2>2 DEF TagsOK
  <2> QED
    BY <1>0, <1>1, <2>1, <2>3, <2>4 DEF TagsOK
<1>15. FreeListsSound' /\ CountsRight'
  <2>1. \A c : GivenOf(c)' = GivenOf(c) /\ NullHeld(c)' = NullHeld(c)
    BY <1>0, <1>4, <1>5, SameGiven
  <2> QED
    BY <1>0, <1>5, <2>1, ListsAndCountsKept
<1>16. CrashesOnlyAtPoolLimit'
  BY <1>0 DEF CrashesOnlyAtPoolLimit
<1> QED
  BY <1>8, <1>9, <1>11, <1>12, <1>13, <1>14, <1>15, <1>16 DEF IInv

(***************************************************************************)
(* ReadHeader and Push.  What the thread read is still true when it gets   *)
(* the mutex: nobody else gives that block back.                           *)
(***************************************************************************)
LEMMA ReadHeaderKeeps ==
    ASSUME IInv, NEW t \in Threads, ReadHeader(t)
    PROVE  IInv'
<1> PICK a, old : old = op[t].old /\ a = word0[old]
  OBVIOUS
<1>0. /\ ~crashed /\ pc[t] = "readHeader" /\ pc' = [pc EXCEPT ![t] = "push"]
      /\ op' = [op EXCEPT ![t].alloc = a]
      /\ UNCHANGED <<static, created, blockSize, free, made, inUse, listed, word0, data, size,
                     live, mutex, crashed, calls>>
  BY DEF ReadHeader, allocators, client, Goto
<1>1. /\ Types /\ TablesOK /\ PairOK /\ BlocksOK /\ TagsOK
      /\ (\A u \in Threads : ThreadOK(u)) /\ FreeListsSound /\ CountsRight
  BY DEF IInv
<1>2. old \in live /\ a = old[1] /\ a \in Nat
  BY <1>0, <1>1 DEF ThreadOK, BlocksOK, Fits, Types
<1>3. /\ pc'[t] = "push" /\ Others(t)
      /\ op'[t] = [op[t] EXCEPT !.alloc = a] /\ op[t] \in Ops /\ op'[t] \in Ops
  <2>1. op[t] \in Ops /\ op'[t] = [op[t] EXCEPT !.alloc = a]
    BY <1>0, <1>1 DEF Types
  <2>2. op'[t] \in Ops
    BY <1>2, <2>1 DEF Ops
  <2> QED
    BY <1>0, <1>1, <2>1, <2>2 DEF Types, Others
<1>4. op'[t].old = old /\ op'[t].alloc = a
  BY <1>3 DEF Ops
<1>5. /\ Given' = Given
      /\ \A u \in Threads : Holding(u)' = Holding(u)
      /\ \A c : GivenOf(c)' = GivenOf(c) /\ NullHeld(c)' = NullHeld(c)
  BY <1>0, <1>3, EmptyHanded
<1>6. Types'
  BY <1>0, <1>1, <1>3 DEF Types, Labels
<1>7. TablesOK'
  BY <1>0, <1>1, <1>3, TablesKept
<1>8. \A u \in Threads : ThreadOK(u)'
  <2>1. ThreadOK(t)'
    BY <1>0, <1>2, <1>3, <1>4 DEF ThreadOK
  <2>2. \A u \in Threads \ {t} : ThreadOK(u)'
    <3>1. created \in Nat
      BY MadeAreIds
    <3> QED
      BY <1>0, <1>3, <3>1, OtherThreads
  <2> QED
    BY <2>1, <2>2
<1>9. PairOK'
  <2>1. ~Holding(t)'
    BY <1>3 DEF Holding
  <2> QED
    BY <1>1, <1>3, <1>4, <2>1, PairKept
<1>10. BlocksOK'
  <2>1. \A u \in Threads : Holding(u)' => op'[u].block = op[u].block
    BY <1>3 DEF Holding, Others
  <2> QED
    BY <1>0, <1>1, <1>5, <2>1 DEF BlocksOK, Placed, Fits
<1>11. TagsOK'
  <2>1. ~Writing(t)'
    BY <1>3 DEF Writing
  <2> QED
    BY <1>0, <1>1, <1>3, <2>1, TagsKept
<1>12. FreeListsSound' /\ CountsRight' /\ CrashesOnlyAtPoolLimit'
  BY <1>0, <1>5, ListsAndCountsKept DEF CrashesOnlyAtPoolLimit
<1> QED
  BY <1>6, <1>7, <1>8, <1>9, <1>10, <1>11, <1>12 DEF IInv

LEMMA BlockInFront ==
    ASSUME NEW S, NEW s \in Seq(S), IsInjective(s), NEW b \in S, b \notin Range(s)
    PROVE  LET r == <<b>> \o s
           IN  /\ r \in Seq(S) /\ Len(s) \in Nat /\ Len(r) = Len(s) + 1
               /\ IsInjective(r) /\ Range(r) = Range(s) \union {b}
<1> PICK r : r = <<b>> \o s
  OBVIOUS
<1>1. /\ r \in Seq(S) /\ Len(s) \in Nat /\ Len(r) = Len(s) + 1
      /\ DOMAIN s = 1 .. Len(s) /\ DOMAIN r = 1 .. Len(s) + 1
      /\ r[1] = b /\ \A i \in 2 .. Len(s) + 1 : r[i] = s[i - 1]
  OBVIOUS
<1>2. \A i \in 1 .. Len(s) + 1 : i # 1 => i \in 2 .. Len(s) + 1 /\ i - 1 \in 1 .. Len(s)
  BY <1>1
<1>3. \A i \in 1 .. Len(s) : i + 1 \in 2 .. Len(s) + 1 /\ (i + 1) - 1 = i
                             /\ i + 1 \in 1 .. Len(s) + 1
  BY <1>1
<1>4. \A i \in 1 .. Len(s) : s[i] # b
  BY <1>1 DEF Range
<1>5. IsInjective(r)
  <2> SUFFICES ASSUME NEW i \in 1 .. Len(s) + 1, NEW j \in 1 .. Len(s) + 1, r[i] = r[j]
               PROVE  i = j
    BY <1>1 DEF IsInjective
  <2>1. CASE i = 1 \/ j = 1
    BY <1>1, <1>2, <1>4, <2>1
  <2>2. CASE i # 1 /\ j # 1
    <3>1. r[i] = s[i - 1] /\ r[j] = s[j - 1]
      BY <1>1, <1>2, <2>2
    <3>2. PICK x \in 1 .. Len(s), y \in 1 .. Len(s) : x = i - 1 /\ y = j - 1
      BY <1>2, <2>2
    <3>3. s[x] = s[y]
      BY <3>1, <3>2
    <3>4. x = y
      BY <1>1, <3>3 DEF IsInjective
    <3> QED
      BY <1>1, <3>2, <3>4
  <2> QED
    BY <2>1, <2>2
<1>6. Range(r) = Range(s) \union {b}
  <2>1. Range(r) \subseteq Range(s) \union {b}
    BY <1>1, <1>2 DEF Range
  <2>2. Range(s) \subseteq Range(r)
    <3> SUFFICES ASSUME NEW i \in 1 .. Len(s) PROVE s[i] \in Range(r)
      BY <1>1 DEF Range
    <3>1. s[i] = r[i + 1] /\ i + 1 \in DOMAIN r
      BY <1>1, <1>3
    <3> QED
      BY <3>1 DEF Range
  <2>3. 1 \in 1 .. Len(s) + 1
    BY <1>1
  <2>4. b \in Range(r)
    BY <1>1, <2>3 DEF Range
  <2> QED
    BY <2>1, <2>2, <2>4
<1> QED
  BY <1>1, <1>5, <1>6

LEMMA PushKeeps ==
    ASSUME IInv, NEW t \in Threads, Push(t)
    PROVE  IInv'
<1> PICK a, b : a = op[t].alloc /\ b = op[t].old
  OBVIOUS
<1>0. /\ ~crashed /\ pc[t] = "push" /\ mutex = NoOne
      /\ free' = [free EXCEPT ![a] = <<b>> \o @]
      /\ word0' = [word0 EXCEPT ![b] = Link]
      /\ inUse' = [inUse EXCEPT ![a] = @ - 1]
      /\ live' = live \ {b}
      /\ pc' = [pc EXCEPT ![t] = "idle"] /\ op' = [op EXCEPT ![t] = NoOp]
      /\ UNCHANGED <<static, created, blockSize, made, listed, data, size, mutex, crashed,
                     calls>>
  BY DEF Push, Goto
<1>1. /\ Types /\ TablesOK /\ PairOK /\ BlocksOK /\ TagsOK
      /\ (\A u \in Threads : ThreadOK(u)) /\ FreeListsSound /\ CountsRight
  BY DEF IInv
<1>2. b \in live /\ b \in Blocks /\ a = b[1] /\ b \in Given /\ Placed(b)
  BY <1>0, <1>1, GivenIs DEF ThreadOK, Types, BlocksOK
<1>3. a \in Ids /\ b[2] \in 1 .. made[a] /\ b = <<a, b[2]>> /\ b # Null
  BY <1>2, MadeAreIds, Bounds DEF Placed, Blocks
<1>4. pc'[t] = "idle" /\ Others(t) /\ op'[t] = NoOp /\ NoOp \in Ops /\ created \in Nat
  BY <1>0, <1>1, MadeAreIds DEF Types, Others, NoOp, Ops
<1>5. /\ ~Holding(t) /\ ~Holding(t)'
      /\ \A u \in Threads \ {t} : Holding(u)' = Holding(u) /\ op'[u] = op[u]
  BY <1>0, <1>4 DEF Holding, Others
<1>6. \A u \in Threads : Holding(u) => op[u].block # b
  BY <1>1, <1>2 DEF BlocksOK
<1>7. Given' = Given \ {b}
  BY <1>0, <1>5, <1>6, GivenIs
<1>8. /\ GivenOf(a)' = GivenOf(a) \ {b} /\ b \in GivenOf(a)
      /\ \A c \in Ids \ {a} : GivenOf(c)' = GivenOf(c)
      /\ \A c : NullHeld(c)' = NullHeld(c)
  <2>1. \A c : NullHeld(c)' = NullHeld(c)
    BY <1>0, <1>4 DEF NullHeld, Others
  <2> QED
    BY <1>2, <1>7, <2>1 DEF GivenOf
<1>9. \A u \in Threads \ {t} : op[u].old # b
  BY <1>1, <1>3 DEF PairOK
<1>10. /\ free[a] \in Seq(Blocks) /\ made[a] \in Nat /\ IsInjective(free[a])
       /\ b \notin Range(free[a]) /\ Range(free[a]) \subseteq {a} \X (1 .. made[a])
  BY <1>1, <1>2, <1>3 DEF Types, FreeListsSound
<1>11. /\ free'[a] \in Seq(Blocks) /\ Len(free[a]) \in Nat /\ Len(free'[a]) = Len(free[a]) + 1
       /\ IsInjective(free'[a]) /\ Range(free'[a]) = Range(free[a]) \union {b}
  <2>1. PICK s, r : s = free[a] /\ r = free'[a]
    OBVIOUS
  <2>2. r = <<b>> \o s
    BY <1>0, <1>1, <1>3, <2>1 DEF Types
  <2>3. s \in Seq(Blocks) /\ IsInjective(s) /\ b \notin Range(s) /\ b \in Blocks
    BY <1>2, <1>10, <2>1
  <2>4. /\ r \in Seq(Blocks) /\ Len(s) \in Nat /\ Len(r) = Len(s) + 1
        /\ IsInjective(r) /\ Range(r) = Range(s) \union {b}
    BY <2>2, <2>3, BlockInFront
  <2> QED
    BY <2>1, <2>4
<1>12. /\ \A c \in Ids \ {a} : free'[c] = free[c] /\ inUse'[c] = inUse[c]
       /\ inUse'[a] = inUse[a] - 1 /\ inUse[a] \in Int
       /\ \A c \in Blocks \ {b} : word0'[c] = word0[c]
  BY <1>0, <1>1, <1>3 DEF Types
<1>13. Types'
  <2>1. free' \in [Ids -> Seq(Blocks)]
    BY <1>0, <1>1, <1>11 DEF Types
  <2>2. inUse' \in [Ids -> Int]
    BY <1>0, <1>1, <1>3 DEF Types
  <2>3. word0' \in [Blocks -> Nat] /\ live' \subseteq Blocks
    BY <1>0, <1>1 DEF Types, Link
  <2>4. pc' \in [Threads -> Labels] /\ op' \in [Threads -> Ops]
    BY <1>0, <1>1, <1>4 DEF Types, Labels
  <2> QED
    BY <1>0, <1>1, <2>1, <2>2, <2>3, <2>4 DEF Types
<1>14. TablesOK'
  <2>1. Finding' = Finding /\ Asking' = Asking
    BY <1>0, <1>4 DEF Finding, Asking, Others
  <2>2. a \in 1 .. created /\ ~(a > created)
    BY <1>2, <1>4 DEF Placed
  <2>3. \A c \in Ids : c > created' => made'[c] = 0 /\ free'[c] = <<>>
    BY <1>0, <1>1, <1>12, <2>2 DEF TablesOK
  <2> QED
    BY <1>0, <1>1, <2>1, <2>3 DEF TablesOK, Listed
<1>15. \A u \in Threads : ThreadOK(u)'
  <2>1. ThreadOK(t)'
    BY <1>4 DEF ThreadOK
  <2>2. \A u \in Threads \ {t} : Holding(u) => op[u].block \in Blocks \ {b}
    BY <1>1, <1>6, GivenIs, GivenBlocks
  <2>3. \A u \in Threads \ {t} : ThreadOK(u)'
    BY <1>0, <1>4, <1>9, <1>12, <2>2, OtherThreads
  <2> QED
    BY <2>1, <2>3
<1>16. PairOK'
  BY <1>1, <1>4, <1>5, PairKept DEF NoOp
<1>17. BlocksOK'
  <2>1. \A u \in Threads : Holding(u)' => op'[u].block \notin live'
    BY <1>0, <1>1, <1>5 DEF BlocksOK
  <2>2. \A c \in Given' : Placed(c)'
    BY <1>0, <1>1, <1>7 DEF BlocksOK, Placed
  <2>3. \A c \in live' : c \in live /\ c \in Blocks \ {b}
    BY <1>0, <1>1 DEF Types
  <2>4. \A c \in live' : Fits(c)' /\ data'[c].valid <= size'[c]
    BY <1>0, <1>1, <1>12, <2>3 DEF BlocksOK, Fits
  <2> QED
    BY <2>1, <2>2, <2>4 DEF BlocksOK
<1>18. TagsOK'
  <2>1. ~Writing(t)' /\ live' \subseteq live
    BY <1>0, <1>4 DEF Writing
  <2> QED
    BY <1>0, <1>1, <1>4, <2>1, TagsKept
<1>19. FreeListsSound'
  <2> SUFFICES ASSUME NEW c \in Ids
               PROVE  /\ IsInjective(free'[c])
                      /\ Range(free'[c]) \intersect Given' = {}
                      /\ Range(free'[c]) \subseteq {c} \X (1 .. made'[c])
    BY DEF FreeListsSound
  <2>1. /\ IsInjective(free[c]) /\ Range(free[c]) \intersect Given = {}
        /\ Range(free[c]) \subseteq {c} \X (1 .. made[c]) /\ made'[c] = made[c]
    BY <1>0, <1>1 DEF FreeListsSound
  <2>2. CASE c = a
    <3>1. b \in {a} \X (1 .. made[a])
      BY <1>3
    <3> QED
      BY <1>7, <1>11, <2>1, <2>2, <3>1
  <2>3. CASE c # a
    BY <1>7, <1>12, <2>1, <2>3
  <2> QED
    BY <2>2, <2>3
<1>20. CountsRight'
  <2>1. /\ Cardinality(GivenOf(a)) \in Nat /\ Cardinality(GivenOf(a)') \in Nat
        /\ Cardinality(GivenOf(a)') = Cardinality(GivenOf(a)) - 1
    BY <1>1, <1>8, GivenBlocks, OneFewer
  <2>2. Cardinality(NullHeld(a)) \in Nat
    BY <1>1, GivenBlocks, FS_CardinalityType
  <2>3. inUse'[a] = Cardinality(GivenOf(a)') + Cardinality(NullHeld(a)')
    <3>1. inUse[a] = Cardinality(GivenOf(a)) + Cardinality(NullHeld(a))
      BY <1>1, <1>3, Counts
    <3> QED
      BY <1>8, <1>12, <2>1, <2>2, <3>1
  <2>4. ASSUME a \in Listed' PROVE made'[a] = Len(free'[a]) + Cardinality(GivenOf(a)')
    <3>1. made[a] = Len(free[a]) + Cardinality(GivenOf(a)) /\ made'[a] = made[a]
      BY <1>0, <1>1, <1>3, <2>4, Counts DEF Listed
    <3>2. PICK g, h, k, j : /\ g = Cardinality(GivenOf(a)) /\ h = Cardinality(GivenOf(a)')
                            /\ k = Len(free[a]) /\ j = Len(free'[a])
      OBVIOUS
    <3>3. /\ g \in Nat /\ h \in Nat /\ k \in Nat /\ h = g - 1 /\ j = k + 1
          /\ made'[a] = k + g
      BY <1>11, <2>1, <3>1, <3>2
    <3>4. made'[a] = j + h
      BY <3>3
    <3> QED
      BY <3>2, <3>4
  <2>5. ASSUME NEW c \in Ids, c # a
        PROVE  /\ inUse'[c] = Cardinality(GivenOf(c)') + Cardinality(NullHeld(c)')
               /\ c \in Listed' => made'[c] = Len(free'[c]) + Cardinality(GivenOf(c)')
    <3>1. /\ inUse[c] = Cardinality(GivenOf(c)) + Cardinality(NullHeld(c))
          /\ c \in Listed => made[c] = Len(free[c]) + Cardinality(GivenOf(c))
      BY <1>1, Counts
    <3>2. Listed' = Listed /\ made'[c] = made[c]
      BY <1>0 DEF Listed
    <3> QED
      BY <1>8, <1>12, <2>5, <3>1, <3>2
  <2> QED
    BY <2>3, <2>4, <2>5, Counts
<1>21. CrashesOnlyAtPoolLimit'
  BY <1>0 DEF CrashesOnlyAtPoolLimit
<1> QED
  BY <1>13, <1>14, <1>15, <1>16, <1>17, <1>18, <1>19, <1>20, <1>21 DEF IInv

(***************************************************************************)
(* Destroy, with nobody inside a call and no block in a client's hands.    *)
(***************************************************************************)
LEMMA DestroyKeeps ==
    ASSUME IInv, Destroy
    PROVE  IInv'
<1>0. /\ ~crashed /\ (\A t \in Threads : pc[t] = "idle") /\ live = {}
      /\ calls < MaxCalls /\ calls' = calls + 1
      /\ free' = [c \in Ids |-> IF c \in Range(listed) THEN <<>> ELSE free[c]]
      /\ listed' = <<>>
      /\ UNCHANGED <<static, created, blockSize, made, inUse, word0, data, size, live, mutex,
                     pc, op, crashed>>
  BY DEF Destroy, client
<1>1. /\ Types /\ TablesOK /\ PairOK /\ BlocksOK /\ TagsOK
      /\ (\A u \in Threads : ThreadOK(u)) /\ FreeListsSound /\ CountsRight
  BY DEF IInv
<1>2. Listed' = {} /\ listed' \in Seq(Nat) /\ calls' \in Nat /\ calls \in Nat
  BY <1>0, <1>1, Bounds DEF Listed, Range, Types
<1>3. \A t \in Threads : ~Holding(t) /\ ~Holding(t)'
  BY <1>0 DEF Holding
<1>4. /\ Given' = Given
      /\ \A c : GivenOf(c)' = GivenOf(c) /\ NullHeld(c)' = NullHeld(c)
  <2>1. Given' = Given
    BY <1>0, <1>3, GivenIs
  <2> QED
    BY <1>0, <2>1 DEF GivenOf, NullHeld
<1>5. \A c \in Ids : free'[c] \in {free[c], <<>>}
  BY <1>0
<1>6. Types'
  <2>1. free' \in [Ids -> Seq(Blocks)]
    BY <1>0, <1>1 DEF Types
  <2>2. calls' \in 0 .. MaxCalls
    BY <1>0, <1>1, Bounds DEF Types
  <2> QED
    BY <1>0, <1>1, <1>2, <2>1, <2>2 DEF Types
<1>7. TablesOK'
  <2>1. Finding' = {} /\ Asking' = {} /\ Finding = {} /\ Asking = {}
    BY <1>0 DEF Finding, Asking
  <2>2. Cardinality({}) = 0
    BY FS_EmptySet
  <2>3. created' + Cardinality(Finding') <= Len(PoolSizes) + calls'
    BY <1>0, <1>1, <1>2, <2>1, <2>2, Bounds DEF TablesOK, Types
  <2>4. ASSUME NEW c \in Ids PROVE made'[c] + Cardinality(Asking') <= calls'
    <3>1. made[c] \in Nat /\ made[c] + Cardinality(Asking) <= calls
      BY <1>1 DEF TablesOK, Types
    <3> QED
      BY <1>0, <1>2, <2>1, <2>2, <3>1
  <2>5. \A c \in Ids : c > created' => made'[c] = 0 /\ free'[c] = <<>>
    BY <1>0, <1>1, <1>5 DEF TablesOK
  <2> QED
    BY <1>0, <1>1, <1>2, <2>3, <2>4, <2>5 DEF TablesOK
<1>8. (\A u \in Threads : ThreadOK(u)') /\ PairOK' /\ BlocksOK'
  <2>1. \A u \in Threads : ThreadOK(u)'
    BY <1>0, <1>1 DEF ThreadOK
  <2>2. PairOK'
    BY <1>0, <1>1, <1>3 DEF PairOK
  <2>3. BlocksOK'
    BY <1>0, <1>1, <1>3, <1>4 DEF BlocksOK, Placed
  <2> QED
    BY <2>1, <2>2, <2>3
<1>9. TagsOK'
  BY <1>0 DEF TagsOK, Writing
<1>10. FreeListsSound'
  <2>1. IsInjective(<<>>) /\ Range(<<>>) = {}
    BY DEF IsInjective, Range
  <2> QED
    BY <1>0, <1>1, <1>4, <1>5, <2>1 DEF FreeListsSound
<1>11. CountsRight'
  BY <1>0, <1>1, <1>2, <1>4, Counts
<1>12. CrashesOnlyAtPoolLimit'
  BY <1>0 DEF CrashesOnlyAtPoolLimit
<1> QED
  BY <1>6, <1>7, <1>8, <1>9, <1>10, <1>11, <1>12 DEF IInv

(***************************************************************************)
(* The invariant holds.                                                    *)
(***************************************************************************)
LEMMA InitIInv ==
    ASSUME Init
    PROVE  IInv
<1>1. /\ \A t \in Threads : pc[t] = "idle" /\ op[t] = NoOp
      /\ live = {} /\ crashed = FALSE /\ calls = 0 /\ calls \in 0 .. MaxCalls
      /\ Finding = {} /\ Asking = {} /\ Cardinality({}) = 0 /\ NoOp \in Ops
  BY Bounds, FS_EmptySet DEF Init, Finding, Asking, NoOp, Ops
<1>2. created \in Nat /\ created <= Len(PoolSizes)
  BY Bounds DEF Init
<1>3. /\ listed = [i \in 1 .. created |-> i]
      /\ listed \in Seq(Nat) /\ Listed = 1 .. created
  BY <1>2 DEF Init, Listed, Range
<1>4. blockSize \in [Ids -> Nat]
  <2> SUFFICES ASSUME NEW a \in Ids, a <= created PROVE PoolSizes[a] \in Nat
    BY DEF Init
  <2>1. a \in 1 .. Len(PoolSizes)
    BY <1>2, Bounds
  <2> QED
    BY <2>1, Bounds
<1>5. Types
  <2>1. /\ static \in BOOLEAN /\ free \in [Ids -> Seq(Blocks)]
        /\ made \in [Ids -> Nat] /\ inUse \in [Ids -> Int]
        /\ word0 \in [Blocks -> Nat] /\ size \in [Blocks -> Nat]
    BY DEF Init, Link
  <2>2. data \in [Blocks -> [tag : Nat, valid : Nat]]
    BY DEF Init
  <2>3. mutex \in Threads \union {NoOne} /\ pc \in [Threads -> Labels] /\ op \in [Threads -> Ops]
    BY <1>1 DEF Init, Labels
  <2> QED
    BY <1>1, <1>2, <1>3, <1>4, <2>1, <2>2, <2>3 DEF Types
<1>6. TablesOK
  BY <1>1, <1>2, <1>3, Bounds DEF Init, TablesOK
<1>7. (\A t \in Threads : ThreadOK(t)) /\ PairOK /\ TagsOK
  BY <1>1 DEF ThreadOK, PairOK, TagsOK, NoOp, Holding, Writing
<1>8. Given = {}
  BY <1>1, GivenIs DEF Holding
<1>9. BlocksOK
  BY <1>1, <1>8 DEF BlocksOK, Holding
<1>10. FreeListsSound
  BY <1>8 DEF Init, FreeListsSound, IsInjective, Range
<1>11. CountsRight
  <2>1. \A a : GivenOf(a) = {} /\ NullHeld(a) = {}
    BY <1>1, <1>8 DEF GivenOf, NullHeld
  <2>2. \A a \in Ids : inUse[a] = 0 /\ made[a] = 0 /\ free[a] = <<>>
    BY DEF Init
  <2>3. Cardinality({}) = 0 /\ Len(<<>>) = 0
    BY <1>1
  <2>4. \A a \in Ids : inUse[a] = Cardinality(GivenOf(a)) + Cardinality(NullHeld(a))
    <3> TAKE a \in Ids
    <3>1. Cardinality(GivenOf(a)) = 0 /\ Cardinality(NullHeld(a)) = 0
      BY <2>1, <2>3
    <3> QED
      BY <2>2, <3>1
  <2>5. \A a \in Ids : a \in Listed => made[a] = Len(free[a]) + Cardinality(GivenOf(a))
    <3> TAKE a \in Ids
    <3>1. Cardinality(GivenOf(a)) = 0 /\ Len(free[a]) = 0
      BY <2>1, <2>2, <2>3
    <3> QED
      BY <2>2, <3>1
  <2> QED
    BY <2>4, <2>5, Counts
<1>12. CrashesOnlyAtPoolLimit
  BY <1>1 DEF CrashesOnlyAtPoolLimit
<1> QED
  BY <1>5, <1>6, <1>7, <1>9, <1>10, <1>11, <1>12 DEF IInv

LEMMA StutterKeeps ==
    ASSUME IInv, UNCHANGED vars
    PROVE  IInv'
<1>1. Given' = Given /\ Listed' = Listed /\ Finding' = Finding /\ Asking' = Asking
  BY GivenIs DEF vars, Holding, Listed, Finding, Asking
<1>2. /\ Types' /\ TablesOK' /\ PairOK' /\ BlocksOK' /\ TagsOK'
      /\ \A t \in Threads : ThreadOK(t)'
  BY <1>1 DEF vars, IInv, Types, TablesOK, PairOK, BlocksOK, TagsOK, ThreadOK, Holding, Placed,
              Fits, Writing
<1>3. \A a : GivenOf(a)' = GivenOf(a) /\ NullHeld(a)' = NullHeld(a)
  BY <1>1 DEF vars, GivenOf, NullHeld
<1>4. FreeListsSound' /\ CountsRight'
  BY <1>1, <1>3, ListsAndCountsKept DEF vars
<1>5. CrashesOnlyAtPoolLimit'
  BY DEF vars, IInv, CrashesOnlyAtPoolLimit, Matching
<1> QED
  BY <1>2, <1>4, <1>5 DEF IInv

LEMMA NextKeepsIInv ==
    ASSUME IInv, [Next]_vars
    PROVE  IInv'
<1>1. CASE UNCHANGED vars
  BY <1>1, StutterKeeps
<1>2. CASE Next
  <2>1. ASSUME NEW t \in Threads, Step(t) PROVE IInv'
    BY <2>1, FindAllocatorKeeps, AllocateKeeps, HeaderCrashes, HeaderReturns, HeaderGoesOn,
       CopyOverKeeps, ReadHeaderKeeps, PushKeeps DEF Step
  <2>2. ASSUME NEW t \in Threads,
               \/ \E s \in Sizes : Malloc(t, s)
               \/ \E b \in live : Free(t, b)
               \/ \E b \in live, s \in Sizes : Realloc(t, b, s)
        PROVE  IInv'
    BY <2>2, CallsKeep
  <2> QED
    BY <1>2, <2>1, <2>2, DestroyKeeps DEF Next
<1> QED
  BY <1>1, <1>2

THEOREM InvariantHolds == Spec => []IInv
<1>1. Init => IInv
  BY InitIInv
<1>2. IInv /\ [Next]_vars => IInv'
  BY NextKeepsIInv
<1> QED
  BY <1>1, <1>2, PTL DEF Spec

\* No block is on a free list twice or while a client has it, and each is on
\* the list of the allocator that made it (Allocator::Push and Pop).
THEOREM FreeListsSoundHolds == Spec => []FreeListsSound
BY InvariantHolds, PTL DEF IInv

\* The counters of an allocator agree with what it gave out and has back
\* (m_blocksInUse, m_blockCnt, m_poolIndex).
THEOREM CountsRightHolds == Spec => []CountsRight
BY InvariantHolds, PTL DEF IInv

\* What xfree and xrealloc read in front of a block is its allocator, and the
\* block is as large as its owner asked for.
THEOREM HeaderNamesOwnerHolds == Spec => []HeaderNamesOwner
<1>1. IInv => HeaderNamesOwner
  BY DEF IInv, BlocksOK, Fits, HeaderNamesOwner
<1> QED
  BY <1>1, InvariantHolds, PTL

\* A null pointer is followed only in a static build, at a limit of its pools.
THEOREM CrashesOnlyAtPoolLimitHolds == Spec => []CrashesOnlyAtPoolLimit
BY InvariantHolds, PTL DEF IInv
-----------------------------------------------------------------------------
(***************************************************************************)
(* The allocator implements the heap its callers think it is.  An object   *)
(* appears when SetHeader or CopyOver hands a block over, goes when Push   *)
(* takes it back, and no other step changes one.                           *)
(***************************************************************************)
ObjectAt(b) == [block |-> b, size |-> size[b], tag |-> data[b].tag, valid |-> data[b].valid]

LEMMA ObjectsAre ==
    /\ Objects = {ObjectAt(b) : b \in live}
    /\ Objects' = {ObjectAt(b)' : b \in live'}
BY DEF Objects, ObjectAt

LEMMA SameObjects ==
    ASSUME live' = live, \A b \in live : size'[b] = size[b] /\ data'[b] = data[b]
    PROVE  Objects' = Objects
BY ObjectsAre DEF ObjectAt

\* One object more, in block b.
LEMMA NewObject ==
    ASSUME NEW b, b \notin live, live' = live \union {b},
           \A c \in live : size'[c] = size[c] /\ data'[c] = data[c]
    PROVE  /\ Objects' = Objects \union {ObjectAt(b)'}
           /\ b \notin Heap!Taken
<1>1. \A c \in live : ObjectAt(c)' = ObjectAt(c)
  BY DEF ObjectAt
<1>2. b \notin Heap!Taken
  BY DEF Heap!Taken, Objects
<1> QED
  BY <1>1, <1>2, ObjectsAre

LEMMA StepMaps ==
    ASSUME IInv, [Next]_vars
    PROVE  [Heap!Next]_Objects
<1>0. /\ Types /\ BlocksOK /\ TagsOK /\ (\A t \in Threads : ThreadOK(t))
      /\ live \subseteq Blocks
  BY DEF IInv, Types
<1>1. CASE UNCHANGED <<size, data, live>>
  <2>1. Objects' = Objects
    BY <1>1, SameObjects
  <2> QED
    BY <2>1
<1>2. ASSUME NEW t \in Threads, SetHeader(t), op[t].block # Null
      PROVE  [Heap!Next]_Objects
  <2> PICK b : b = op[t].block
    OBVIOUS
  <2>1. /\ pc[t] = "header" /\ size' = [size EXCEPT ![b] = op[t].size]
    BY <1>2 DEF SetHeader
  <2>2. b \in Blocks /\ b \notin live /\ op[t].size \in Sizes
    BY <1>2, <2>1, HeldBlock
  <2>3. size'[b] = op[t].size /\ \A c \in live : size'[c] = size[c]
    BY <1>0, <2>1, <2>2 DEF Types
  <2>4. CASE op[t].old # Null
    <3>1. UNCHANGED <<live, data>>
      BY <1>2, <2>4 DEF SetHeader
    <3>2. Objects' = Objects
      BY <2>3, <3>1, SameObjects
    <3> QED
      BY <3>2
  <2>5. CASE op[t].old = Null
    <3>1. /\ live' = live \union {b}
          /\ data' = [data EXCEPT ![b] = [tag |-> op[t].tag, valid |-> op[t].size]]
      BY <1>2, <2>5 DEF SetHeader
    <3>2. /\ data'[b] = [tag |-> op[t].tag, valid |-> op[t].size]
          /\ \A c \in live : data'[c] = data[c]
      BY <1>0, <2>2, <3>1 DEF Types
    <3>3. Objects' = Objects \union {ObjectAt(b)'} /\ b \notin Heap!Taken
      BY <2>2, <2>3, <3>1, <3>2, NewObject
    <3>4. ObjectAt(b)' = [block |-> b, size |-> op[t].size, tag |-> op[t].tag,
                          valid |-> op[t].size]
      BY <2>3, <3>2 DEF ObjectAt
    <3>5. op[t].tag \in Tags \ {o.tag : o \in Objects}
      <4>1. Writing(t)
        BY <2>1, <2>5 DEF Writing
      <4>2. op[t].tag \in Tags
        BY <1>0, <4>1, Bounds DEF TagsOK, Tags, Types
      <4> QED
        BY <1>0, <4>1, <4>2 DEF TagsOK, Objects
    <3>6. Heap!Alloc
      BY <2>2, <3>3, <3>4, <3>5 DEF Heap!Alloc
    <3> QED
      BY <3>6 DEF Heap!Next
  <2> QED
    BY <2>4, <2>5
<1>3. ASSUME NEW t \in Threads, CopyOver(t) PROVE [Heap!Next]_Objects
  <2> PICK b, old, s : b = op[t].block /\ old = op[t].old /\ s = op[t].size
    OBVIOUS
  <2>1. /\ pc[t] = "copy" /\ live' = live \union {b} /\ size' = size
        /\ data' = [data EXCEPT ![b] =
                      [tag |-> data[old].tag,
                       valid |-> Smaller(data[old].valid,
                                         Smaller(blockSize[word0[old]] - PointerSize, s))]]
    BY <1>3 DEF CopyOver
  <2>2. b # Null /\ size[b] = s /\ old \in live
    BY <1>0, <2>1 DEF ThreadOK
  <2>3. b \in Blocks /\ b \notin live /\ s \in Sizes /\ s \in Nat
    BY <2>1, <2>2, HeldBlock, Bounds
  <2>4. Smaller(data[old].valid, Smaller(blockSize[word0[old]] - PointerSize, s))
          = Smaller(data[old].valid, s)
    <3>1. /\ Fits(old) /\ data[old].valid <= size[old] /\ old \in Blocks
          /\ old[1] \in 1 .. created
      BY <1>0, <2>2, GivenIs DEF BlocksOK, Placed
    <3>2. /\ blockSize[old[1]] \in Nat /\ PointerSize \in Nat /\ size[old] \in Nat
          /\ data[old].valid \in Nat
      BY <1>0, <3>1, MadeAreIds, Bounds DEF Types
    <3>3. /\ blockSize[word0[old]] - PointerSize \in Nat
          /\ data[old].valid <= blockSize[word0[old]] - PointerSize
      BY <3>1, <3>2 DEF Fits
    <3> QED
      BY <2>3, <3>2, <3>3 DEF Smaller
  <2>5. /\ data'[b] = [tag |-> data[old].tag, valid |-> Smaller(data[old].valid, s)]
        /\ \A c \in live : data'[c] = data[c] /\ size'[c] = size[c]
    BY <1>0, <2>1, <2>3, <2>4 DEF Types
  <2>6. Objects' = Objects \union {ObjectAt(b)'} /\ b \notin Heap!Taken
    BY <2>1, <2>3, <2>5, NewObject
  <2>7. PICK o : o = ObjectAt(old)
    OBVIOUS
  <2>8. o \in Objects /\ o.tag = data[old].tag /\ o.valid = data[old].valid
    BY <2>2, <2>7, ObjectsAre DEF ObjectAt
  <2>9. ObjectAt(b)' = [block |-> b, size |-> s, tag |-> o.tag,
                        valid |-> Heap!Smaller(o.valid, s)]
    BY <2>1, <2>2, <2>5, <2>8 DEF ObjectAt, Smaller, Heap!Smaller
  <2>10. Heap!Copy
    BY <2>3, <2>6, <2>8, <2>9 DEF Heap!Copy
  <2> QED
    BY <2>10 DEF Heap!Next
<1>4. ASSUME NEW t \in Threads, Push(t) PROVE [Heap!Next]_Objects
  <2> PICK b : b = op[t].old
    OBVIOUS
  <2>1. pc[t] = "push" /\ live' = live \ {b} /\ UNCHANGED <<size, data>>
    BY <1>4 DEF Push
  <2>2. b \in live
    BY <1>0, <2>1 DEF ThreadOK
  <2>3. \A c : ObjectAt(c)' = ObjectAt(c) /\ ObjectAt(c).block = c
    BY <2>1 DEF ObjectAt
  <2>4. Objects' = Objects \ {ObjectAt(b)} /\ ObjectAt(b) \in Objects
    BY <2>1, <2>2, <2>3, ObjectsAre
  <2>5. Heap!Free
    BY <2>4 DEF Heap!Free
  <2> QED
    BY <2>5 DEF Heap!Next
<1>5. ASSUME NEW t \in Threads, SetHeader(t), op[t].block = Null
      PROVE  UNCHANGED <<size, data, live>>
  BY <1>5 DEF SetHeader, client
<1>6. ASSUME NEW t \in Threads, FindAllocator(t) \/ Allocate(t) \/ ReadHeader(t)
      PROVE  UNCHANGED <<size, data, live>>
  BY <1>6 DEF FindAllocator, Allocate, ReadHeader, client
<1>7. ASSUME NEW t \in Threads,
             \/ \E s \in Sizes : Malloc(t, s)
             \/ \E b \in live : Free(t, b)
             \/ \E b \in live, s \in Sizes : Realloc(t, b, s)
      PROVE  UNCHANGED <<size, data, live>>
  BY <1>7 DEF Malloc, Free, Realloc, Call, client
<1>8. Destroy \/ UNCHANGED vars => UNCHANGED <<size, data, live>>
  BY DEF Destroy, client, vars
<1>9. ASSUME NEW t \in Threads, Step(t) PROVE [Heap!Next]_Objects
  BY <1>1, <1>2, <1>3, <1>4, <1>5, <1>6, <1>9 DEF Step
<1> QED
  BY <1>1, <1>7, <1>8, <1>9 DEF Next

\* Every behaviour of the allocator is one of ClientHeap: objects have blocks
\* of their own, large enough, and keep what was written to them.
THEOREM ImplementsClientHeapHolds == Spec => ImplementsClientHeap
<1>1. Init => Heap!Init
  BY DEF Init, Heap!Init, Objects
<1>2. IInv /\ [Next]_vars => [Heap!Next]_Objects
  BY StepMaps
<1> QED
  BY <1>1, <1>2, InvariantHolds, PTL DEF Spec, ImplementsClientHeap, Heap!Spec
=============================================================================
