# A verification project for OpenFHE on UPMEM

This directory holds TLA+ models of the parts of this repository that carry
its own logic: the PIM back end, which keeps polynomials in the memory of
UPMEM's DPUs and computes on them there; the modular arithmetic, number theory
and transforms below every scheme; and those parts of OpenFHE whose state a
long program can bring out of step, the shared tables of roots, the pooled
allocator, levels and scales of ciphertexts, and contexts with their evaluation
keys. Every module is translated from the source (paths below are relative to
the library's directory, the repository's `src`); `PROJECT.json` says for each definition which lines
it stands for.

1. [The system](#1-the-system)
2. [The modules](#2-the-modules)
3. [The runs](#3-the-runs)
4. [What is proved](#4-what-is-proved)
5. [What disagrees](#5-what-disagrees)
6. [What is not modelled](#6-what-is-not-modelled)
7. [What could come next](#7-what-could-come-next)

How to run: `tlc -config X.cfg M` for the configuration `X.cfg` of module `M`
(the pairs are in the table of section 3) and `tlapm M.tla` for the modules
whose names end in `Proofs`.

## 1. The system

OpenFHE is a library for fully homomorphic encryption; this fork adds a back
end for processing in memory. A program (`NativeVectorT`, the vector of
residues under every polynomial) owns a `PimData`; a `PimData` owns a region in
the memory of the DPUs, which the one `PimManager` of the process hands out; an
operation on a `PimData` loads a program into all DPUs, broadcasts its arguments
(`meta`), launches it and waits; on each DPU some tasklets share the work.

```
 CryptoContextFactory --> CryptoContext --static tables--> evaluation keys <--> streams
                              |
                     leveled SHE: towers, level, degree, scale of ciphertexts
                              |
      automorphisms, transforms --static tables of roots (six maps, all threads)
                              |                     \
                              |                      number theory: primes, roots, indices
                              v
 NativeVectorT --owns--> PimData --allocate/deallocate--> PimManager --> DpuMemory (one per DPU)
      |                     | copy_to_pim / copy_from_pim / load, copy meta, launch
      | NativeIntegerT      v
      v                  MRAM, WRAM and tasklets of each DPU (kernels, DPU arithmetic)
 host arithmetic
                  (beside all of it: xmalloc / xfree, the fixed-block allocator)
```

### 1.1 Components that are modelled

**PIM memory manager** (`core/include/pim/DpuMemory.h`,
`core/include/pim/PimManager.h`, `core/pim/host/PimManager.cpp`).
State: for each DPU a bitmap of 4 KB blocks and a map from the address of each
allocation to its number of blocks; for the manager a table from the first
address of each live vector to the vector of pairs (DPU, address), and
`nr_dpus`. Operations: `allocate(size)` splits the size over the DPUs, rounding
up, and searches each bank for the first fit; `deallocate(vector)` gives every
part back. Hard: `size` is unsigned and counts down through the loop, so that
the rounded-up shares may overshoot it; the loop may stop before the last DPU;
any DPU may refuse after others have granted, and what they granted must be
taken back. Correct when: bitmap and map of a bank say the same, live regions
are disjoint, table and callers agree, a failure leaves no trace, nothing leaks,
and the address is the same in all DPUs (the transfers take that for granted).

**PIM manager under threads** (the same files, with
`core/include/math/hal/intnat/mubintvecnat.h` and
`core/include/lattice/hal/default/dcrtpoly-impl.h`). `getPim` takes
`mutex_`; nothing else does, although OpenMP loops of the lattice layer build a
`NativeVectorT`, and with it a `PimData`, in each iteration. Hard: the first
callers race to build the manager, with different numbers of DPUs (4 and 1 in
the two constructors of `PimData`); search and marking of a block are separate.
Correct when: one manager is built and nobody sees a partial one; no data of a
live object are overwritten; everybody finishes.

**PimData objects** (`core/include/pim/PimData.h`). State: size, metadata
(the vector from the manager) and a host copy. Operations: construction from a
list of values, construction of the result of an operation, operations in place,
`sync`, destruction, and the copies and assignments the language supplies or the
class writes. Hard: who owns a region after a copy; sizes in elements handed to
an allocator that reckons in bytes; host copies that are empty or stale;
construction when the banks are full. Correct when: as long as an object is in
scope, reading its region back gives its data, each object has a region of its
own and none is lost.

**DPU element-wise kernels** (`core/pim/dpu/element-wise/*.c`). State: MRAM,
a heap in WRAM, each tasklet's index and buffers. A launch: tasklet 0 resets the
heap, all wait at a barrier, each allocates one to three buffers and treats every
`NR_TASKLETS`-th chunk: read A, read B, compute, write. Hard: the reset against
the others' allocations; the last chunk, which is moved whole and ends past the
operand; operands that are one object; everyone waiting at the barrier. Correct
when: buffers are disjoint, the result is the operation on the original
elements, nothing outside the result's blocks changes, and the launch ends.

**Host arithmetic** (`core/include/math/hal/intnat/ubintnat.h`,
`core/lib/math/hal/intnat/mubintvecnat.cpp`) and **DPU arithmetic**
(`core/pim/dpu/include/operations.h`, `core/pim/dpu/include/element-wise-ops.h`),
the same operations rewritten in C without 128-bit integers. No state beyond the
values. Operations: modular addition, subtraction, multiplication after Barrett
and after Shoup, powers, inverse, change of modulus. Hard: sums, quotients and
signed coefficients in words of fixed width; estimates that one correction must
repair. Correct when: each equals exact arithmetic under the caller's
precondition, and the DPUs agree with the host.

**Number theory** (`core/include/math/nbtheory-impl.h`,
`core/lib/math/nbtheory2.cpp`, `core/include/utils/utilities-int.h`). No state;
random draws decide the course of several functions. Operations: bits and their
reversal, primality, factorisation, searches for primes, generators, roots of
unity, totients and totatives, automorphism indices, polynomial products,
remainders and quotients, cyclotomic polynomials. Hard: whatever was drawn must
lead to a right answer; searches step past the end of the words; indices are in
narrower integers. Correct when: a prime is the next or previous one in its
residue class, a root has its order, indices and polynomials are the
mathematical ones.

**Number theoretic transforms** (`core/include/math/hal/intnat/transformnat-impl.h`)
and the **automorphisms** of `core/include/lattice/hal/default/poly-impl.h`. What
they compute: butterflies in four forward and two inverse forms, the iterative
transform, Bluestein's for arbitrary orders over an NTT modulus, padding and
division by a cyclotomic polynomial, and the permutations of coefficients or
places. State: six static maps of tables keyed by modulus, filled on first use.
Hard: tables in bit-reversed places; 1/n applied in different rounds; signs and
index arithmetic; and for the maps, a test outside of `omp critical` with no test
inside, `operator[]` that inserts, and another dimension that replaces what
somebody reads. Correct when: a transform evaluates, its inverse undoes it,
products go to products, an automorphism is the same in both formats; and the
tables a transform reads are complete and those of its ring.

**Fixed-block allocator** (`core/lib/utils/blockAllocator/blockAllocator.cpp`,
`core/lib/utils/blockAllocator/xallocator.cpp`). State: a table of allocators by
block size, each with a free list threaded through its free blocks and three
counters. Operations: `xmalloc`, `xfree`, `xrealloc`, `xalloc_destroy`, by any
thread, over the heap or over static pools. Hard: the header is written and read
outside of the lock; the same word is the owner of a block in use and the link of
a free one; a pool runs out and the new-handler returns. Correct when: a client
has a block of its own that is large enough and keeps what was written there,
counters tell what is given out, and only a limit of the pools ends the program.

**Leveled SHE bookkeeping** (`pke/lib/scheme/ckksrns/ckksrns-leveledshe.cpp`,
`pke/lib/scheme/bgvrns/bgvrns-leveledshe.cpp`, `pke/lib/schemerns/rns-leveledshe.cpp`,
`pke/include/schemerns/rns-cryptoparameters.h`). State of a ciphertext: towers,
level, noise-scale degree, scaling factor. Operations: encryption at a level,
addition, multiplication, squaring, constants, rescaling, level reduction,
compression, and the adjustment of two operands. Hard: nothing recomputes the
fields; they are unsigned and subtracted from; the adjustment has a branch for
every combination of levels and degrees under four techniques and two schemes.
Correct when: the level counts the towers that are gone, the fields tell the scale
the polynomials have, and two adjusted operands have the same of everything.

**Crypto contexts and key tables** (`pke/lib/cryptocontextfactory.cpp`,
`pke/include/cryptocontext.h`, `pke/lib/cryptocontext.cpp`). State: the registry
of contexts; three static tables of evaluation keys, by the tag of a key pair and
then by index. Operations: making, loading and releasing contexts; key pairs; the
generation of multiplication, sum and rotation keys, also for bootstrapping and
scheme switching; insertion; clearing by context, by tag, of all; writing and
reading tables, in this or another process. Hard: equal parameters must give one
object since keys are compared by address; tags are all a key is found by; only
the first key of an entry is looked at; what replaces and what joins. Correct
when: a key found by a tag has the parameters of the tag's pair, clearing removes
what it says and only that, and keys are lost only where that is asked for.

### 1.2 Components that are not modelled

The list, with a reason for each, is in section 6 and in `PROJECT.json`.

### 1.3 Hazards

`PROJECT.json` lists them, each with its line and the properties that watch it.
In short: atomicity of allocation and launch under threads; partial failure of a
split request; drifting banks; shared regions after copies; boundaries of the
search, of the last chunk and of transfers; heap reset against allocation;
fixed-width arithmetic; root tables shared without a lock on the read side; pools
at their limit and headers outside of the lock; levels and degrees that are
subtracted from; the registry and key tables through clearing, replacing and
streams. Two are covered by no property and say why: a host copy overrun by
`sync`, which the model turns into the end of the program, and kernel launches by
several threads.

## 2. The modules

| Module | Models | Built on |
|---|---|---|
| `DpuMemory` | one bank, as operators on a record of bitmap and map | |
| `FindFreeBlocks` | the loop of `find_free_blocks`, iteration by iteration | `DpuMemory` |
| `RegionAllocator` | abstract: what the manager promises, cells lent and taken back | |
| `PimManager` | `allocate` and `deallocate` over all banks | `DpuMemory` |
| `PimThreads` | `getPim`, `allocate`, first copy and `deallocate` by several threads | `DpuMemory` |
| `PimData` | objects and the contents of the MRAM over the manager | `PimManager` |
| `DpuKernel` | one launch of an element-wise kernel | |
| `NativeInt` | arithmetic of the host on words of `W` bits | |
| `DpuArith` | arithmetic of the DPUs | `NativeInt` |
| `ArithCalls` | one call of each operation, compared | `DpuArith` |
| `ModInverse` | Euclid's loop in `ModInverse` | |
| `NumberTheory` | primes, roots, indices, polynomials | `NativeInt` |
| `Transforms` | power-of-two transforms and automorphisms | `NumberTheory` |
| `ArbTransforms` | transforms of any cyclotomic order | `Transforms` |
| `RingCalls` | one call on a ring or a number, compared | `ArbTransforms` |
| `NttTables` | the six shared maps of root tables, by several threads | |
| `ClientHeap` | abstract: what callers of the allocator may rely on | |
| `XAllocator` | the fixed-block allocator, by several threads | |
| `LeveledSHE` | ciphertexts of CKKS and BGV through every leveled operation | |
| `KeyTables` | contexts, key pairs, evaluation keys, streams | |
| `Algorithms` | composes the pure algorithms, one in each behaviour | `ModInverse`, `FindFreeBlocks`, `ArithCalls`, `RingCalls` |
| other `MC*` | instances for TLC | the module named |
| `PimManagerProofs` | theorems about a bank, the manager and the objects over it | `PimData` |
| `PimThreadsProofs` | theorems about `getPim` | `PimThreads` |
| `AlgorithmsProofs` | theorems about the scan, `ModInverse` and the arithmetic of host and DPUs | `Algorithms` |
| `DpuKernelProofs`, `NttTablesProofs`, `XAllocatorProofs`, `LeveledSHEProofs`, `KeyTablesProofs` | theorems | the module named |

Correspondence of state and actions, where it is not one to one:

* `DpuMemory`: `free` is the bitset (true = free), `allocations` the
  `unordered_map`. `allocate` of the class returns an address and changes the
  object; here `allocate_addr` and `allocate` are its two halves.
  `find_free_blocks` is the first fit by definition; that the code's loop finds
  it is what `FindFreeBlocks` checks and `LoopIsFirstFit` proves.
* `PimManager`: a `vector<pair<chunk, address>>` is a function from `0 .. k-1`
  to addresses. One action per outcome of `allocate`: `AllocateOK`,
  `AllocateRefused` (a chunk refuses; the earlier ones are rolled back) and
  `AllocateOvershot` (the counter wraps and never becomes zero; everything is
  rolled back). `held` is the callers' side: the vectors returned and not given
  back. `SIZE_T` is the range of `size_t`.
* `PimThreads`: a step is one access to one container (search of a bitmap,
  marking, entry in a map, entry in the table, and the same for `deallocate`).
  An entry of a `std::unordered_map` is one step although the code does it without
  a lock; that is a lower bound on what can go wrong, and it is enough for the
  run that shows an overwrite. `AllFinish` and `OneWholeManager` are therefore
  claims about the control of the code with atomic containers: the concurrent
  insertions into one map that the model serialises are undefined behaviour in
  C++.
* `PimData`: element `k` of data `d` is the value `<<d, k>>`, so that a wrong
  place and a wrong owner show. An object's `metadata` and its host copy are
  fields. A kernel's effect on the region is the single write `Written`;
  `DpuKernel` opens it up. `crashed` ends a behaviour where the code reads
  element 0 of an empty vector or lets a transfer overrun the host copy.
* `DpuKernel`: sizes in words of 8 bytes. A buffer is a slot, since all heap
  requests of one launch have the same size; `heap` is the next slot. Word `w`
  starts with the value `<<w>>` and the operation on `x` and `y` gives `<<x, y>>`.
  The four `Kernels` are the four shapes of the programs (with one or two
  operands, in place or not); what they compute on an element is in `DpuArith`.
* `NativeInt`, `DpuArith`: results are cut to `W` bits where the code's types
  cut them; `INT_BITS` is the width of C's `int`, which one expression of the
  DPUs shifts. `MultiplyAndRound` goes through `double`s in the code; on the
  words of the model these are exact, so it is modelled as exact.
* `NumberTheory`, `Transforms`, `ArbTransforms`: a vector is a function from
  `0 .. n-1`, and a loop over places is a definition of the place's value; rounds
  that depend on each other are a recursive function of the round. A random draw
  is a set of outcomes, and a function that loops until a draw suits returns the
  set of what it may return. `USINT` is the width of `usint`, the type of
  indices. `Vector(n, F)` adds the empty function (`@@ <<>>`) so that TLC keeps
  an entry's value instead of computing it again in every later round.
* `NttTables`: one action per access to one map. A vector of roots is abstracted
  to its dimension and its root. `asked`, `overlapped` and `misused` are ghosts:
  which dimensions and roots were asked for, whose call overlapped a filling of
  its modulus, and what was read that did not belong to the caller.
* `XAllocator`: a block is named by its allocator and its number there. Its
  first word, `word0`, is the allocator's name while a client has it and a link
  while nobody does, as in the code; the rest of it is a value that the client
  wrote. Both builds (`STATIC_POOLS` or the heap) are initial states. `live` and
  `size` are ghosts for the refinement. Assertions are compiled out.
* `LeveledSHE`: a scale is a vector of exponents of the moduli, once as the
  ciphertext declares it and once (the ghost `true`) as its polynomials have it.
  `thrown` says that an operation ended in an exception; the ghosts `torn` (a rescaling
  threw half-way) and `off` (the scale is not the one of its level) are the
  exceptions that properties name. `spoilt` is a third: `MultMutable` takes two
  different objects, `MultMutableSelf` one for both operands, which the code then
  rescales as the first and again as the second (section 5); every register whose
  ciphertext is computed from such an object is in `spoilt` until it is encoded
  anew or computed from others.
* `KeyTables`: a context object is its position in `params`, so that identity
  and equality differ as in the code. `tables[n][t][i]` is the context the key at
  index `i` under tag `t` points to. A stream remembers parameters, not objects;
  a new process has nothing but the stream. `pairOf` and `released` are ghosts.

## 3. The runs

All runs are exhaustive. `CHECK_DEADLOCK FALSE` is said where the system really
stops: a loop that has ended, threads that have finished, a program that has
crashed, a call that has been made, calls used up.

| Run (= configuration) | Module | Distinct states | Properties |
|---|---|---|---|
| `PimManagerAll` | `MCPimManager` | 857 | `RecordsAgree`, `FailureLeavesNoTrace`, `ImplementsRegionAllocator` |
| `PimThreads` | `MCPimThreads` | 2,882 | `OneWholeManager`, `AllFinish` |
| `PimThreadsData` | `MCPimThreads` | | `InitialisedDataStays` fails (section 5) |
| `PimData` | `MCPimData` | 209,359 | `UnaliasedResident`, `EachHoldsItsOwn`, `OffsetsStayInStep`, `CrashesOnlyWhenFull` |
| `DpuKernel` | `DpuKernel` | 67,596 | `BuffersDisjoint`, `ResultCorrect`, `OthersUntouched`, `Terminates` |
| `Algorithms` | `MCAlgorithms` | 73,662 | `NoOverflow`, `ReturnsInverse`, `ReturnsFirstFit`, `ModularExact`, `DpuAgreesWhere`, `TransformsExact`, `AutomorphismsAgree`, `PrimesAndRoots`, `LoopsEnd` |
| `NttTables` | `MCNttTables` | 550,271 | `TablesAgree`, `MisuseExplained`, `RefillKeepsTables`, `EveryCallReturns` |
| `XAllocator` | `MCXAllocator` | 232,894 | `FreeListsSound`, `CountsRight`, `HeaderNamesOwner`, `CrashesOnlyAtPoolLimit`, `EveryCallReturns`, `ImplementsClientHeap` |
| `LeveledSHE` | `MCLeveledSHE` | 7,976 | `TowersMatchLevel`, `DegreeTellsScale`, `OperandsAlignByTable`, `ConstantsMatch` |
| `LeveledFixedAuto` | `MCLeveledSHE` | | `OperandsAlign` fails (section 5) |
| `KeyTables` | `MCKeyTables` | 336,523 | `OneContextPerParams`, `KeysServeTheirTag`, `ClearRemovesContext`, `KeysKept` |
| `KeyTablesLoad` | `MCKeyTables` | | `DeserializationKeeps` fails (section 5) |

What each shows:

* `PimManagerAll`: bitmaps, maps, table and callers agree after every mixture of
  requests, refusals, overshoots and frees; a failed request changes nothing; and
  the manager implements `RegionAllocator`, whose cells are bytes of banks.
* `PimThreads`: whatever the race in `getPim`, one manager with all its DPUs is
  what everybody uses, and all threads come to their end.
* `PimData`: as long as no object was copied and none outgrew its blocks, every
  object has its data in the banks, all but the last `size % NrDpus` elements:
  those never reach a DPU (`PimManager.cpp:17`), also when the allocation is
  granted. No two uncopied objects share a region. Until a region is granted whose
  size the DPUs do not divide (`uneven`), every vector has one offset in all DPUs
  and spans them, copies and double frees notwithstanding, and a crash means that
  no gap is left. Copies, double frees, leaks and drifting banks are in the same run.
* `DpuKernel`: the claims of 1.1, and that operands that are one object are
  treated alike.
* `Algorithms`: one algorithm in each behaviour. Euclid's loop keeps to its words
  and returns inverses; the search returns the first fit; the modular operations
  are exact; `DpuAgreesWhere` says exactly for which arguments the DPUs agree with
  the host; transforms are evaluations in the order promised, are undone, and turn
  products into products, in all their forms; automorphisms are one permutation in
  both formats; primes, factors, generators, roots, totatives and polynomials are
  right for every draw.
* `NttTables`: between fillings, all six maps tell of one ring; a transform reads
  another ring's tables only if somebody filled that modulus meanwhile or asked
  for another root in the same dimension; refilling is invisible; every call returns.
* `XAllocator`: lists, counters and headers are right at every step of every
  thread; the program ends only at a limit of the pools; and clients see
  `ClientHeap`: blocks of their own, large enough, with what they wrote in them,
  also through `xrealloc`.
* `LeveledSHE`: `TowersMatchLevel` and `DegreeTellsScale` through every operation;
  `OperandsAlignByTable`, that two adjusted operands agree in towers, level,
  degree and scale wherever the table of factors of products is consulted rightly;
  `ConstantsMatch`, that a real constant is added at the scale of the ciphertext.
  Of a spoilt ciphertext only `TowersMatchLevel` is claimed: without that exception
  TLC finds the other three violated.
* `KeyTables`: the claims of 1.1 about contexts and keys, in one or several
  processes. `KeysKept` has two parts: keys are lost only by an operation that is
  asked to clear, replace or read, and making rotation keys loses and replaces
  none, which an insertion of the same keys may.

### Bounds, and why they are enough

* `PimManagerAll`: 3 banks of 3 blocks of 2 bytes and every size from 0 to three
  more than all banks hold (`AllSizes`): zero, sizes that stop at the first or
  second bank, sizes whose shares overshoot, sizes refused by the first bank and
  sizes refused only by a later one because an earlier vector stopped short. The
  banks drift apart, so all three failure paths happen.
* `PimThreads`: two threads that ask for different numbers of DPUs, 2 and 1,
  banks of two blocks. Every request is one block, so that a region's contents
  are one value; `RequestAssumption` says so.
* `PimData`: three names (one for each place in `r = p + q`), three DPUs, banks of
  four blocks of one element; 3 elements fill a block in each bank, 9 do not fit
  what is granted for 9 bytes, and 4, which the DPUs do not divide, are granted on
  two of them, so that the banks drift apart and the fourth element is never
  transferred. Contents that were copied or overrun influence nothing any more, and
  the view (`Bookkeeping`) leaves them out of the comparison of states, and
  everything once a copy and an uneven region are both there, when no property
  asks for anything.
* `DpuKernel`: two tasklets, a cache of two words in blocks of four, three
  regions; operands of 1, 3, 4 and 7 words are smaller than the cache, not a
  multiple of it, exactly one block, and spread over two blocks with a partial
  last chunk, so tasklets take two rounds. `StaleHeap` is what an earlier launch
  left on the heap.
* `Algorithms`: every modulus of a signed word of 7 bits and every argument up to
  twice the modulus; every bitmap of 5 blocks (a run can touch the first block, the
  last block and a gap) and every request from zero to the whole bank. The calls
  have words of 14 bits for 64, `INT_BITS` of 10 for 32; the library's moduli have
  at most 60 of 64 bits, the model's at most 10 of 14: four bits to spare in both.
  Operands and moduli sit at and around powers of two, at zero and at the end of
  the range; smaller widths have no room for the shifts by `n + 7`, nor for a
  dividend just above what Barrett's estimate bears (5559 for the modulus 17).
  `BarrettExact` leaves out the one modulus of the largest width whose `mu` does
  not fit a word, the power of two (`MuFits`); 512 is that modulus here. Rings have 2 to 16 places over several primes, and
  orders 3, 5, 7 (primes), 6, 14 (twice primes), 8, 15, 20 (divided by with
  transforms); elements have one coefficient that differs, which fixes a linear
  map, at the ends and the middle of the residues. Indices are words of 9 bits, so
  that the products in `FindAutomorphismIndex2n` wrap in the ring of 16 places.
  Numbers are 1 to 64 and 91, 97, 113, 341, 561: primes, powers, pseudoprimes to
  a base, a Carmichael number.
* `NttTables`: two threads, two moduli, dimensions 2 and 4, and, in the smaller
  one, two roots; three calls in a behaviour, since the third can meet what two
  fillings left. `MCJobs` leaves out calls that differ from others by names only.
* `XAllocator`: two threads, requests of 120, 388 and 500 bytes, whose blocks of
  128, 396 and 512 are two sizes with no byte to spare and a size without a pool;
  two allocators at most, so that the table can be full; two blocks to a pool, four
  calls: enough to use a pool up and return to it, both with a new-handler that
  returns and one that throws.
* `LeveledSHE`: five moduli, degrees up to 3 in a multiplication, words that wrap
  at 16, two ciphertexts (symmetric); a chain of adjustments needs a gap of up to
  three levels. The view merges ciphertexts that are known to be torn, off or
  spoilt, whatever their scales.
  `LeveledFixedAuto` needs CKKS and four moduli only.
* `KeyTables`: two parameter sets, of which one packs a single slot, so that its
  sum keys are an empty entry; two tags (symmetric), lists of one index and of two;
  two context objects and two entries, so that an entry can join, replace, stay or
  be of the other context.

Symmetry is used only with safety properties of runs whose formulas name no
member of the symmetric set.

### Fairness

* `PimThreads`: weak fairness of each thread's step. The operating system keeps
  scheduling the threads of an OpenMP team, and `std::mutex` is free for good
  from some point on here: each thread locks it once.
* `DpuKernel`: weak fairness of each tasklet's step. The pipeline of a DPU
  issues from its tasklets in turn, and a tasklet at the barrier resumes.
* `NttTables`, `XAllocator`: weak fairness of each thread's step. Neither
  `omp critical` nor the mutex promises to be fair among those who wait; with the
  bounded number of calls contention ends, so weak fairness is all that is used.
* `Algorithms`: weak fairness of the loops, because a thread that is in a loop
  keeps executing it.

The other modules have no liveness property and state no fairness.

## 4. What is proved

The theorems hold for every value of the constants that the named assumptions
admit. `PROJECT.json` lists them; here is the argument of each.

**`PimManagerProofs`**, first part: a bank (blocks have a positive size and a
bank has at least one). First fit lies inside the bank and is free; an allocation keeps
the bank's invariant `ChunkOK` (runs in range, disjoint, covering exactly the
busy blocks); so does `deallocate`; and giving back at once what was granted
restores the very record (`DeallocateUndoesAllocate`). The last fact is what a
rollback rests on.

Second part: the manager (any number of DPUs, any bank, any set of sizes, any
width of `size_t`). The inductive invariant is
`TypeOK /\ BookkeepingOK /\ HeldRecorded`; none of the three is inductive alone,
since a free is harmless only when the vector is recorded in all its chunks, and
a grant keeps regions apart only when the bitmaps are right. From it:
`TypeCorrect`, `BookkeepingCorrect`, `HeldRecordedCorrect` and their conjunction
`RecordsAgreeAlways`, `NothingLeaks` (when nothing is held all blocks are free),
`FailureLeavesNoTraceHolds`, and `Implementation`: every step of the manager is a
step or a stutter of `RegionAllocator`. `SameOffsetHolds`, `LockStepHolds` and
`OffsetsInStepHolds` add the assumption that every size which can be granted at
all divides equally (`DividedEqually`), for any callers of the manager, and
strengthen the invariant with it: banks in the same state
answer alike, so that every vector has one offset and spans all banks.

Third part: the objects (`PimData`, any sizes, any data, any number of objects).
`EachHoldsItsOwnHolds` is inductive together with the manager's invariant
(`Ownership`), because a grant returns a vector that nobody holds and a destructor
gives back one that no other object has. `UnaliasedResidentHolds` adds what the
memory holds (`Resides`): each object's region takes its data, and every word of
it has the element that belongs there. That survives the operations on other
objects because the blocks of two held vectors are disjoint, and the words of a
transfer lie in its own blocks as long as nothing was `overrun`. It makes no
assumption on the sizes: the transfers carry `NrDpus` times the rounded-down share,
which is all of the data but the remainder of the division.
`OffsetsStayInStepHolds` has an invariant of its own (`InStep`): until an uneven
region is granted the banks are alike and every vector, held or kept by an object,
spans them at one offset. It says nothing of ownership, so that copies and double
frees keep it: like banks refuse, grant, roll back and take back alike.
`CrashesOnlyWhenFullHolds` takes both invariants together: the busy blocks of one
bank are the regions of the objects in scope, so a gap between them is a free run,
which first fit finds in every bank.

**`DpuKernelProofs`** (any number of tasklets, any cache that divides the block,
any disjoint regions of whole blocks, any left-over heap). `BuffersDisjoint` is
not inductive: a reset after an allocation would break it one step later. The
invariant adds that while a tasklet is before its reset or barrier call nobody
has passed the barrier (`AllWaitForLast`), that nobody before the barrier has
buffers (`NoneBeforeBarrier`), that buffers lie below the top of the heap
(`BelowHeap`), and that a tasklet moves data only for a chunk that starts inside
the operand (`IndexInOperand`). `OthersUntouchedHolds` follows with
`ChunkInGranted`: a chunk that starts inside the operand ends inside its blocks,
because the cache divides both the index and the block, or the operand is
shorter than the cache and the index is zero.
`ResultCorrectHolds` says what the kernel computes. Its invariant (`DataInvariant`)
adds that a tasklet's index is one of its own chunks (`IndexOwn`), that a tasklet
has exactly the buffers it asked for and the heap holds nothing else (`BufferCount`,
`HeapCovered`: so a slot is one of a finite number, and `wram` is defined there),
that the buffers hold the operands' original words and then their result
(`Loaded`), and that the chunks behind the index are done and those ahead
untouched (`Chunks`), which in place is what the next read relies on.

**`AlgorithmsProofs`** (any width `W` of the word, any moduli the width allows,
any operands, any bank). Four parts.

*Induction over numbers.* `TwoTo`, `ModExp`'s loop and `Power` are recursive
functions. The library's induction theorems take an operator; `LeastNatural`
(from well-foundedness) and `UpTo` state induction over a set instead, and
`StepsExist` builds from them the function that a recursive definition up to a
bound chooses, so that `TwoToArePowers`, `ModExpSteps` and `PowerUnfolds` can say
what these functions compute for every argument.

*`ModInverse`* (any moduli in `1 .. 2^(W-1) - 1`). The invariant says that the
coefficients have opposite signs and weigh out the modulus (`Balanced`:
`modulus * |x| + a * |y| = mod`), which bounds them and the products of a round;
that `x` is strictly within the modulus (`WithinModulus`; `Balanced` alone does not
say so when the loop ends with `modulus = 0`); that they are Bezout's (`Congruent`);
and that what divides both remainders divides both arguments (`CommonDivisors`).
Hence `BezoutHolds`, `NoOverflowHolds` and `ReturnsInverseHolds`: with 64-bit words
no intermediate value overflows, every coprime argument gets its reduced inverse,
and only arguments without an inverse are refused or divided by zero for.

*The arithmetic* (words of more than 7 bits, `INT_BITS` of 2 to `W - 1`, moduli
from 2 to `2^(W-4) - 1`). `HostArithmeticIsExact` and `DpuAgreement` are
invariants that a call's types imply (`CallInvariantHolds`: there is no induction
over the behaviour in them), so the work is in the operators:

* `BarrettEstimate` is the heart. With `x = 2^s h + r1`, `2^(2n+3) = m mu + r2` and
  `h mu = 2^t q + r3` the estimate `q` is never too large, and each of the three
  remainders costs less than its share of the modulus as long as `x < 2^(2n+2)`, so
  one conditional subtraction is enough. `RShiftExact` says that the two shifted
  words are the quotient by the power of two. `BarrettHolds` follows for products
  and for `Mod`, and so do `DpuReduces` and `DpuBarrettHolds`.
* `OneBitTooMany` is the counterexample one bit higher, at any width.
* `ShoupQuotient`: the estimate is the quotient or one less, which the sign of the
  wrapped word tells. `SwitchHolds`: one case for a larger, a smaller and the new
  modulus 2. `ExpHolds`: the loop's invariant over the bits of the exponent.
* `MultDExact`: Karatsuba's middle term fits a word for operands of half the range.
* `SubtractionsAgree`, `RoundingAgrees`, `ModulusAgrees` and `MuAgreement` prove
  both directions of the equivalences in `DpuAgreesWhere`: for every argument that
  is excluded the DPUs' result does differ. `MuAgreement` is the long one: a shift of
  an `int` that is too long shifts by less, so `mu` is that of another power.

*The search.* `LoopIsFirstFit`: the result of the loop of `find_free_blocks` is the
operator that `DpuMemory` and `PimThreads` take as one step. The invariant says that
the counter is the length of the free run which ends before the current block, and
that no long enough run ended earlier. `ScanIsFirstFit` says it of the composition.

These proofs corrected what the small instances had let pass:

* `BarrettExact` was first stated for dividends below `2^(2n+3)`, as the comment at
  `ubintnat.h:1354-1355` has it. The proof does not close, and the bound is one bit
  too generous (section 5).
* `DpuAgreesWhere` said when the DPUs' `mu` is the host's for every modulus. Where
  the host's own `mu` is cut to a word (`MuFits` is false) the two can meet by
  accident, for instance with 64-bit words, 32-bit `int` and the modulus `2^59`.
* `INT_BITS < W` is assumed: the DPUs' `int` is shorter than their `uint64_t`.

**`NttTablesProofs`** (any threads, moduli, dimensions, roots, chains and calls).
`TablesAgree` says nothing of a modulus while it is being filled, so the invariant
adds who is inside the section (`Section`), which maps it has assigned by then
(`Assigned`: the first `written` of them hold its parameters), and that a
transform which found the map it tests still finds a vector there (`FoundOne`).
`TablesAgreeHolds` and `RefillKeepsTablesHolds` follow. `MisuseExplainedHolds` needs
the history: whoever is in a call, and whatever a table holds, was asked for
(`CallsAsked`, `TablesAsked`); a transform whose call overlapped no filling of its
modulus is alone with its tables (`Undisturbed`), so the vector it found long
enough is still as long when it looks (`LongEnough`). If the root is not its own,
somebody asked for that one.

**`XAllocatorProofs`** (any finite set of threads, any sizes, pools and table, any
number of calls, both builds). The inductive invariant holds the four properties
and what they need of each other: the table never outgrows its entries
(`TablesOK`), what a thread inside a call takes on trust (`ThreadOK`: its
allocator has the size asked for, the block it is about to give back is a
client's), no two threads hand over or give back one block (`PairOK`), every block
given out was made, is no client's yet while a thread holds it, and is large
enough with its header (`BlocksOK`), and no two objects have one tag (`TagsOK`).
`CountsRightHolds` counts sets: a push or a pop moves one block between two of
them. `HeaderNamesOwnerHolds` rests on `NextHigherReaches`: a power of two
that is not below a request and less than twice it exists for every request, by
the least number whose power reaches it. `ImplementsClientHeapHolds`: each step is
a step of `ClientHeap` or a stutter, where a block enters the abstract heap
when `xmalloc` has written its header, and a copy of `xrealloc` writes to a block
nobody else has.

**`PimThreadsProofs`** (any threads, any banks). `OneWholeManagerHolds`: a thread
between lock and unlock has the mutex (`OnlyOneInside`), no manager exists before
the one thread that builds it (`ManagerOK`), and whoever is past the unlock came
after it.

**`LeveledSHEProofs`** (any number of moduli from 3 on, any ciphertexts, any
levels to encode at; `BGVAssumption`: BGV encodes at level 0 only, see section 5).
The invariant says of every ciphertext that towers and level add up (`Counted`,
unless torn, which only CKKS under `FIXEDMANUAL` allows) and that a tower is left,
and of one that is not spoilt that under the automatic techniques its degree is 1
or 2. One lemma per primitive says what it does to both numbers, one per branch of
the adjustment that they meet, and, for spoilt operands of any degree, that they
still add up. `TowersMatchLevelHolds` follows for all ciphertexts, and
`OperandsMeetHolds`: any two that are not spoilt are brought to equal towers, level
and degree under an automatic technique, and the adjustment never runs out of
towers.
The scales are a second invariant on top (`AllHonest`): a ciphertext that is
neither torn nor off nor spoilt declares the scale its polynomials have, and that
is the one its level and degree should have (`Nominal`). It is stronger than
`DegreeTellsScale` in two places. Under the extended technique level 0 goes with
degree 2 only; otherwise a constant or a degree would be raised at a factor that is
not the level's. Under `FIXEDMANUAL`, where a program may rescale more often than
it multiplies, the scale is a power of the one factor with an exponent that may be
negative but not below minus the level, and the degree is what it wraps to; a
degree that can still be multiplied is therefore the exponent itself
(`DegreeIsExponent`). What a rescaling leaves of a product of a level is the next
level's factor (`RescaledProduct`) because that is how the table is computed;
`TableUnfolds` shows that the recursive table is what its definition says.
`RaiseValue` gives the scales of each branch of the adjustment and `RaisedScale`
shows that each is the other operand's. `DegreeTellsScaleHolds`,
`ConstantsMatchHolds` and `OperandsAlignByTableHolds` follow, with the exception
that the run `LeveledFixedAuto` shows: the factor of a product under `FIXEDAUTO`.

**`KeyTablesProofs`** (any finite set of parameters, any tags, index sets and
number of contexts). What is under a tag is right only if what was read from a
stream was, and that only if what was written there was: the invariant follows a
key from its pair (`SecretsServe`) to the table (`KeysServe`) to the stream
(`StreamServes`) and back, with a registry of distinct parameters (`Unique`) that,
until contexts are released, is all of the contexts in order (`Ordered`).
`OneContextPerParamsHolds` and `KeysServeTheirTagHolds` follow; the action
property `ClearRemovesContextHolds` uses that, until then, an entry's keys all
belong to one context, since the code looks at the first. `KeysKeptHolds` goes
through the operations one by one for its first part; the second is the lemma
`RotationsJoin`, for both generators of rotation keys.

Only model-checked: liveness (`Terminates`, `AllFinish`, `EveryCallReturns`,
`LoopsEnd`), which needs fairness and is outside the prover's reach; and what
`Algorithms` says of number theory and transforms (`TransformsExact`,
`AutomorphismsAgree`, `PrimesAndRoots`). Those are sums over roots of unity and
loops over polynomials: their proofs would need a theory of finite fields (orders of
elements, geometric sums, unique factorisation) that the prover's library lacks.

## 5. What disagrees

Three runs end in a violation, each of something the repository says:

1. `PimThreadsData`. `allocate` takes no lock. Two threads find the same block
   free, both mark it, and the second `copy_to_pim` overwrites the first
   object's data, which `PimManager.h:96-97` would like to keep.
2. `LeveledFixedAuto`. The example `advanced-real-numbers.cpp:281-282` says that
   under an automatic technique operands are "automatically brought to the correct
   depth and level before the operation". Under `FIXEDAUTO` the CKKS adjustment
   multiplies by `GetScalingFactorRealBig` (`ckksrns-leveledshe.cpp:508` and
   `:532`), which returns the one factor `2^p` and not that of a product
   (`rns-cryptoparameters.h:606`): the rescaling that follows divides the message's
   own scale away. The run shows it for two operands of degree 1, one level apart.
   Their declared scales come out equal, because the code overwrites one with the
   other (`:539`, `:594`), and their true scales do not. It concerns every pair of
   which the operand at the higher level has degree 1 and the other has degree 1 or
   is two or more levels below (`NeedsProductFactor`); `OperandsAlignByTable` says
   that there is no other case, spoilt operands apart.
3. `KeyTablesLoad`. The comment at `cryptocontext.h:617-618` says that
   deserialized keys "silently replace any existing matching keys"; the code reads
   into the map itself (`:629`), and keys that match nothing are gone as well.

Observed while modelling, and stated in the models, the hazards or here instead of
in a run of their own. In the PIM back end:

* `PimManager.h:40-41` assumes that "the offset is the same for all DPUs", and
  both transfers use the address in chunk 0. `allocate` stops when the chunks
  visited hold the size, so a size of 1 occupies a block of the first bank only,
  and the next vector has different offsets. Until such a size is granted the
  assumption is a theorem (`OffsetsStayInStepHolds`).
* Both transfers round the elements per DPU down (`PimManager.cpp:17`), so the last
  `size % NrDpus` elements of an object are neither written nor read back, without
  an error where the allocation is granted. `UnaliasedResident` names them.
* `operator=` and the implicit copy constructor of `PimData` copy the metadata.
  The first destructor frees the region, a later object gets it, and data in scope
  are overwritten. `UnaliasedResident` is about programs that copy no object.
* The result of an operation has an empty host copy, and `sync` copies the full
  size into it (`PimData.h:33`). `SyncOverruns` ends the program there.
* `PimData` passes a number of elements to `allocate`, which reckons in bytes
  (`PimData.h:19`), while transfers move eight bytes an element
  (`PimManager.cpp:17`). `UnaliasedResident` asks that data fit the blocks granted;
  the library's own objects have four elements and 4 KB blocks.

In the leveled schemes:

* `EvalMultMutable(ct, ct)`. `AdjustLevelsAndDepthToOneInPlace` rescales both
  operands of degree 2 (`ckksrns-leveledshe.cpp:612-615`, the same in BGV), and
  nothing from `cryptocontext.h:1714` down asks whether they are one object. A
  ciphertext of degree 2 under an automatic technique is left at degree 0, two
  levels up, and the result is the square of that and not the "new ciphertext for
  ciphertext1 * ciphertext2" of `cryptocontext.h:1712`. Towers and level stay in
  step (`TowersMatchLevel`); of scales and degrees nothing is promised any more.
  `EvalMult` works on clones and `EvalSquareMutable` on one operand.

In the arithmetic:

* `ModSubFast` of the DPUs compares a modulus with an operand where the host
  compares the operands (`operations.h:215`, `ubintnat.h:914-938`), so that a
  difference which should wrap around the modulus wraps around the word.
  `ModSubEq` (line 208), `ModSubFastEq` (223), `ComputeMu` (72) and
  `MultiplyAndRound` (418) of `operations.h`, and `modulus`
  (`element-wise-ops.h:76`), agree with the host only for some arguments too;
  `DpuAgreesWhere` characterises all of them exactly. `ModMulEq` (287) corrects
  its pointer and not the value; no kernel calls it.
* The comment on Barrett's reduction assumes that "none of the dividends will be
  larger than 2^(2*n + 3)" (`ubintnat.h:1354-1355`) and asks for alpha of at least gamma + 1,
  which alpha = n + 3 meets only up to `2^(2n+2)`. Above that one subtraction may
  not be enough: `Mod` of 5559 < 2^13 for the modulus 17 returns 17. Products of
  residues are below `2^(2n)`; only a direct `Mod` or `ModEq` with a `mu` comes near.
  `BarrettExact` has the right bound and the example.
* `VectorModExp` reduces the exponent modulo the modulus
  (`mubintvecnat.cpp:391`), so powers are right only below it; `ModularExact` says so.
* `ModInverse` divides by zero for an argument that is neither zero nor coprime
  to the modulus (`ubintnat.h:1581`); `ReturnsInverse` and action `Trap` say
  which arguments those are.

In number theory and transforms:

* `FindGeneratorCyclic` is said to be for "any composite q (cyclic group)"
  (`nbtheory-impl.h:127-130`), but draws only up to the totient, and for 4 and 6
  the generators lie above it, so that the call never ends; `CyclicExact` names
  these two. It does not end either for moduli whose group is not cyclic (8, 12,
  15), nor do `FindGenerator(3)` and `RootOfUnity(1, q)`.
* `FirstPrime(nBits, m)` returns a prime of `nBits + 1` bits. `NextPrime` and
  `PreviousPrime` do not test whether their first step wrapped around.
* `PolyMod` and `PolynomialMultiplication` multiply words without reducing, so
  moduli above half a word are wrong. `FindAutomorphismIndex2nComplex` overflows
  an `int32_t` for orders above 2^15 and negative indices, harmless as long as it
  wraps. Bluestein's `i * i` wraps in `usint` for orders above 65536
  (`transformnat-impl.h:842`, `:866`), where orders that are no power of two come
  out wrong. `ReverseBits(x, 0)` is all ones (ring dimension 1). The unused
  `ModInverse` of `nbtheory2.cpp:78-93` and `FindAutomorphismIndexCyclic` (one
  index for 1 and 2) are not modelled.
* The automorphism of coefficients writes `q - 0 = q` (`poly-impl.h:363`).
* Division by a cyclotomic polynomial takes `2 * 2^ceil(log2(m - phi(m)))` places,
  fewer than `m` for 9, 25, 33, 35 and others, whose polynomials do not fit; its
  tables are keyed by the modulus only.
* Tables of another root with the same length cannot be told apart
  (`MisuseExplained`); `PreCompute` does not test again inside `omp critical`
  (`RefillKeepsTables` says why that does no harm). `SwitchFormat` turns the format
  even when the transform returned at once for root 0 or 1.

In ciphertexts, contexts and keys:

* BGV encodes a plaintext for level `l` over the towers of level 0
  (`cryptocontext.h:239-242`); fixed techniques of BGV ignore level and degree
  altogether; the extended table leaves the last entry of `scalingFactorsInt` unset.
* Under `FIXEDMANUAL` more rescalings than products wrap the degree around, and a
  CKKS rescaling of several levels may throw half-way (the mark `torn`). `Compress`
  leaves a scale that is not its level's (the mark `off`). `DropLastElementAndScale`
  indexes past its table before it throws.
* An empty entry of a key table is dereferenced by clearing and by writing for a
  context, and by `InsertEvalAutomorphismKey`. Key tables outlive
  `ReleaseAllContexts`; contexts made again afterwards are twins of those the keys
  point to. Key generation for scheme switching replaces the keys of
  `EvalMultKeysGen` by the one of `EvalMultKeyGen`.

## 6. What is not modelled

Components without a module:

* **DPU boot program and the empty NTT program**: no logic.
* **Multiprecision back ends**: word-by-word long arithmetic; at widths TLC can
  enumerate it says no more than `NativeInt`.
* **Random numbers**: an engine per thread, no shared state; what is drawn is
  chosen in the models that draw.
* **Key switching, multiparty, bootstrapping and scheme switching, encodings,
  binfhe, trapdoors**: correctness is a noise bound over large integers, or the
  code has no state. What they do to levels goes through the operations of
  `LeveledSHE`, and to the key tables through those of `KeyTables`.
* **Serialization**: delegated to the vendored cereal.
* **Parallel controls, benchmarks, examples, tests, build**: no behaviour of
  their own beyond a setter; docs and tests are read for what they claim.

Within the modelled parts:

* PIM: kernel launches by several threads, the default constructor of `PimData`
  (its `pim` is uninitialised), the library calls below `dpu_launch` and
  `dpu_copy_*` (assumed to do what their names say or to exit).
* Arithmetic: text, conversions and checked plain operations of
  `NativeIntegerT`; the build with 128-bit words.
* Transforms: the maps in which the Bluestein and arbitrary-order transforms keep
  their tables (each is filled inside of one `omp critical`; what the tables hold
  is modelled). NTT moduli are given, as with `SetPreComputedNTTModulus`, since the
  default ones are too large for TLC's integers; residues modulo them are exact.
  The variants over NTL.
* Lattice layer: the RNS operations of `DCRTPoly`. Its parallel construction of
  vectors is the environment of `PimThreads`.
* Allocator: the printing of statistics.
* Leveled SHE: `NORESCALE` and BFV, which keep no scale in step; noise.
* Contexts: operations that only read keys; keys that schemes keep for themselves.

## 7. What could come next

1. Launches by several threads over `PimThreads`: load, copy of `meta`, launch and
   reading the result act on one set of DPUs.
2. The caches of the Bluestein and arbitrary-order transforms' tables, in the
   manner of `NttTables`: they are keyed by modulus or by dimension only.
3. `DCRTPoly`'s RNS operations on small moduli, beside `LeveledSHE`.
