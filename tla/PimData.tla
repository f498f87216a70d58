------------------------------- MODULE PimData -------------------------------
(***************************************************************************)
(* Objects of class PimData (src/core/include/pim/PimData.h) over the      *)
(* manager, and what the MRAM of the DPUs holds.  An object has a size in  *)
(* elements, the vector that allocate returned (metadata) and a host copy  *)
(* of the data that may be stale.  Element k of the data numbered d is the *)
(* value <<d, k>>.  One thread uses the objects.                           *)
(***************************************************************************)
EXTENDS PimManager

CONSTANTS
    WORD,       \* bytes of an element: sizeof(uint64_t)
    Names,      \* the program's PimData variables
    Unwritten

ASSUME PimDataAssumption == WORD \in Nat \ {0} /\ BLOCK_SIZE % WORD = 0

VARIABLES
    objs,       \* variable in scope -> object
    mram,       \* DPU -> word -> contents
    crashed,    \* how undefined behaviour ended the process, or "no"
    copied,     \* ghost: an object has been copied or assigned
    overrun,    \* ghost: an object got fewer bytes than its data take
    uneven      \* ghost: an object got a region whose size the DPUs do not divide

pvars == <<vars, objs, mram, crashed, copied, overrun, uneven>>

Words == 0 .. CHUNK_SIZE \div WORD - 1

\* The data an object can have: its initial value and one more, so that
\* operations in place can be told from the value they replace.
Data == Names \X {0, 1}

PInit ==
    /\ Init
    /\ objs = [o \in {} |-> 0]
    /\ mram = [i \in Chunks |-> [w \in Words |-> Unwritten]]
    /\ crashed = "no"
    /\ copied = FALSE
    /\ overrun = FALSE /\ uneven = FALSE

\* Elements per DPU in a transfer: rounded down.
EachDpu(size) == DIV(size, NrDpus)

\* The word of each DPU at which a transfer for metadata v starts.
FirstWord(v) == v[0] \div WORD

\* Mutant: rounds up, as the allocation does, and reads past the data.
Written_rounded_up(v, size, d) ==
    LET each == DIVROUNDUP(size, NrDpus) + 1
    IN  [i \in Chunks |-> [w \in Words |->
            IF w \in FirstWord(v) .. FirstWord(v) + each - 1
            THEN <<d, i * each + w - FirstWord(v)>>
            ELSE mram[i][w]]]

\* The MRAM after data d of size elements is written at v, by copy_to_pim with
\* type 0 or by a kernel.  A transfer beyond the bank makes DPU_ASSERT exit.
Written(v, size, d) ==
    LET each == EachDpu(size)
    IN  [i \in Chunks |-> [w \in Words |->
            IF w \in FirstWord(v) .. FirstWord(v) + each - 1
            THEN <<d, i * each + w - FirstWord(v)>>
            ELSE mram[i][w]]]

\* The blocks allocate takes in each DPU: it reckons elements as bytes.
Share(size) == DIVROUNDUP(size_per_chunk(size), BLOCK_SIZE)

TooLarge(size) == EachDpu(size) * WORD > Share(size) * BLOCK_SIZE

InBank(v, size) == FirstWord(v) + EachDpu(size) - 1 \in Words \/ EachDpu(size) = 0

\* What copy_from_pim stores as element k.
ReadBack(v, size, k) ==
    mram[k \div EachDpu(size)][FirstWord(v) + (k % EachDpu(size))]

InScope(o) == o \in DOMAIN objs

Bind(o, obj) == [p \in DOMAIN objs \cup {o} |-> IF p = o THEN obj ELSE objs[p]]

HostCopy(size, d) == [k \in 0 .. size - 1 |-> <<d, k>>]

\* allocate(size), in one of its three outcomes; v is what it returns.
Allocate(size, v) ==
    \/ AllocateOK(size) /\ v = Granted(size, Wanted(size))
    \/ (AllocateRefused(size) \/ AllocateOvershot(size)) /\ v = EmptyVector

\* metadata[0] of an empty metadata, and a transfer past the end of host_data.
Crash(cause) == crashed' = cause /\ UNCHANGED <<objs, mram, overrun, uneven>>
-----------------------------------------------------------------------------
ConstructList(o, size) ==
    LET d == <<o, 0>>
    IN  /\ ~InScope(o)
        /\ \E v \in {Granted(size, Wanted(size)), EmptyVector} :
              /\ Allocate(size, v)
              /\ IF v = EmptyVector
                 THEN Crash("metadata")
                 ELSE /\ InBank(v, size)
                      /\ objs' = Bind(o, [size |-> size, metadata |-> v,
                                          data |-> d, host |-> HostCopy(size, d)])
                      /\ mram' = Written(v, size, d)
                      /\ overrun' = (overrun \/ TooLarge(size))
                      /\ uneven' = (uneven \/ size % NrDpus # 0)
                      /\ UNCHANGED crashed

\* r = p + q and the other operations that return a new object: PimData(size),
\* then the kernel writes its region.  The result has no host copy.
Operation(r, p, q) ==
    LET size == objs[p].size
        d    == <<r, 0>>
    IN  /\ ~InScope(r) /\ InScope(p) /\ InScope(q)
        /\ \E v \in {Granted(size, Wanted(size)), EmptyVector} :
              /\ Allocate(size, v)
              /\ IF v = EmptyVector
                 THEN Crash("metadata")
                 ELSE /\ InBank(v, size)
                      /\ objs' = Bind(r, [size |-> size, metadata |-> v,
                                          data |-> d, host |-> HostCopy(0, d)])
                      /\ mram' = Written(v, size, d)
                      /\ overrun' = (overrun \/ TooLarge(size))
                      /\ uneven' = (uneven \/ size % NrDpus # 0)
                      /\ UNCHANGED crashed

\* p += q and the other operations in place.
InPlace(p) ==
    /\ InScope(p)
    /\ LET d == <<objs[p].data[1], 1 - objs[p].data[2]>>
       IN  /\ objs' = [objs EXCEPT ![p].data = d]
           /\ mram' = Written(objs[p].metadata, objs[p].size, d)
    /\ UNCHANGED <<vars, crashed, overrun, uneven>>

\* How many elements copy_from_pim stores.
Transferred(size) == NrDpus * EachDpu(size)

\* The host copy is overwritten; only the elements that were copied change.
Sync(o) ==
    LET obj == objs[o]
    IN  /\ InScope(o)
        /\ 0 .. Transferred(obj.size) - 1 \subseteq DOMAIN obj.host
        /\ objs' = [objs EXCEPT ![o].host =
                      [k \in DOMAIN obj.host |->
                         IF k < Transferred(obj.size)
                         THEN ReadBack(obj.metadata, obj.size, k)
                         ELSE obj.host[k]]]
        /\ UNCHANGED <<vars, mram, crashed, overrun, uneven>>

\* copy_from_pim does not look at how large its buffer is.
SyncOverruns(o) ==
    /\ InScope(o)
    /\ ~(0 .. Transferred(objs[o].size) - 1 \subseteq DOMAIN objs[o].host)
    /\ Crash("buffer")
    /\ UNCHANGED vars

\* Mutant: there is no destructor.
Destroy_missing(o) ==
    /\ InScope(o)
    /\ objs' = [p \in DOMAIN objs \ {o} |-> objs[p]]
    /\ UNCHANGED <<vars, mram, crashed, overrun, uneven>>

Destroy(o) ==
    /\ InScope(o)
    /\ Return(objs[o].metadata)
    /\ objs' = [p \in DOMAIN objs \ {o} |-> objs[p]]
    /\ UNCHANGED <<mram, crashed, overrun, uneven>>

\* The implicit copy constructor copies every member.
CopyConstruct(o, p) ==
    /\ ~InScope(o) /\ InScope(p)
    /\ objs' = Bind(o, objs[p])
    /\ copied' = TRUE
    /\ UNCHANGED <<vars, mram, crashed, overrun, uneven>>

\* operator= copies size and metadata; the host copy stays, and the region that
\* the target had is not given back.
Assign(o, p) ==
    /\ InScope(o) /\ InScope(p) /\ o # p
    /\ objs' = [objs EXCEPT ![o].size = objs[p].size,
                            ![o].metadata = objs[p].metadata,
                            ![o].data = objs[p].data]
    /\ copied' = TRUE
    /\ UNCHANGED <<vars, mram, crashed, overrun, uneven>>
-----------------------------------------------------------------------------
\* What a program does that copies no PimData, like NativeVectorT: its
\* constructors each build a PimData of their own and its assignments leave it
\* alone.
UnaliasedNext ==
    /\ UNCHANGED copied
    /\ \/ \E o \in Names : Destroy(o) \/ Sync(o) \/ SyncOverruns(o) \/ InPlace(o)
       \/ \E o \in Names, size \in Sizes : ConstructList(o, size)
       \/ \E r, p, q \in Names : Operation(r, p, q)

\* Any program.
PNext ==
    /\ crashed = "no"
    /\ \/ UnaliasedNext
       \/ \E o, p \in Names : CopyConstruct(o, p) \/ Assign(o, p)

PSpec == PInit /\ [][PNext]_pvars
-----------------------------------------------------------------------------
(***************************************************************************)
(* PimManager.h:96-97, "we would like to keep the data in the MRAM when    *)
(* thea are initialized for as long as needed": as long as an object is in *)
(* scope, what sync would read back is the object's data, all of it when   *)
(* the DPUs divide the size.  Otherwise the last size % NrDpus elements    *)
(* never reach a DPU, also where the allocation is granted: a transfer     *)
(* takes as many elements to each DPU, rounded down (PimManager.cpp:17).   *)
(* This is promised to a program that copies no object, and as long as     *)
(* every object's data fit the blocks it was granted, which are counted    *)
(* for bytes, not elements.                                                *)
(***************************************************************************)
Carried(size) == size - (size % NrDpus)

UnaliasedResident ==
    ~copied /\ ~overrun =>
        \A o \in DOMAIN objs : \A k \in 0 .. Carried(objs[o].size) - 1 :
            /\ k < Transferred(objs[o].size)
            /\ ReadBack(objs[o].metadata, objs[o].size, k) = <<objs[o].data, k>>

(***************************************************************************)
(* PimManager.h:40-41, "since the data is divided equally we assume that   *)
(* the offset is the same for all DPUs".  It is, and the banks go through  *)
(* the same states, until the first region whose size the DPUs do not      *)
(* divide is granted: then the loop may stop short of the last DPUs, and   *)
(* what they grant later may lie elsewhere.  It stays so through refusals  *)
(* and also when copies give a region back twice.                          *)
(***************************************************************************)
OffsetsStayInStep == ~uneven => OffsetsInStep

(***************************************************************************)
(* As long as none was copied, the objects in scope and the manager agree  *)
(* on who holds what: each has a region of its own, and no region is left  *)
(* without an object (constructors, operations and the destructor against  *)
(* allocate and deallocate).                                               *)
(***************************************************************************)
EachHoldsItsOwn ==
    ~copied =>
        /\ held = {objs[o].metadata : o \in DOMAIN objs}
        /\ \A o, p \in DOMAIN objs : o # p => objs[o].metadata # objs[p].metadata

(***************************************************************************)
(* Unless objects were copied, and as long as the DPUs divide the sizes of *)
(* all regions granted, constructing an object of a size that they divide  *)
(* dies on an empty metadata only when the regions of the objects in scope *)
(* leave no gap for it: every block that an object once had, and has no    *)
(* more, can be used again, after any sequence of constructions,           *)
(* operations and destructions.                                            *)
(***************************************************************************)
RegionOf(o) == Run(DIV(objs[o].metadata[0], BLOCK_SIZE), Share(objs[o].size))

GapFor(size) ==
    \E s \in Blocks :
        /\ s + Share(size) <= TOTAL_BLOCKS
        /\ \A o \in DOMAIN objs : Run(s, Share(size)) \cap RegionOf(o) = {}

CrashesOnlyWhenFull ==
    [][ \A size \in Sizes \ {0} :
          ~copied /\ ~uneven /\ size % NrDpus = 0 /\ GapFor(size)
            => \A o \in Names : ConstructList(o, size) => crashed' = "no" ]_pvars
=============================================================================
