# TLA+ specification of reuse

`reuse` is a set of tools around *stack reuse distance*: the number of different
memory blocks a program touches between two accesses to the same block.
`pindist` is a Pin tool that computes histograms of it online, per data
structure and per code region; the other tools record a trace (`pintrace`),
predict strides (`pinpredict`) and generate load with known distances
(`bench/distgen`). This directory holds their specification: of `pindist` the
simulation at its core, the registry and the regions around it and the locking, and the
trace recorder, the predictor and the generator, with model checking configurations and proofs.

## Inventory

| Component | State | Operations | Correct when |
|---|---|---|---|
| **CacheSim** (`cachesim.*`, `bucket.h`, `memoryblock.h`): an LRU stack of blocks with a marker per distance bucket | list `stack_`, `buckets_` (marker, two counters), `next_bucket_`, `ds_nums_`, `complement_`; a `bucket` in each block | `on_block_new`, `on_block_seen`, `add_datastruct`, counters | a marker is at the minimum depth of its bucket; the bucket of a block is that of its depth; every access is counted in the bucket of its reuse distance |
| **Access path** (`dist.cpp`) | `g_addrMap`: block to one iterator per stack that holds it; `addr_last_arr` per thread; `abefore_cnt` | `RD_init`, `RD_accessBlock` | an iterator is only used on its own list; a block is on exactly the stacks it has iterators for; a skipped access has distance zero |
| **Registry** (`datastructs.*`) | `datastructs`, `indices_of` (data structure to simulations), `g_cachesims` | `register_datastruct`, `combine`, `datastruct_num` | the two views of membership agree; a complement is the rest of its partner; together they count each access once; a block belongs to the structure that is there |
| **Regions** (`region.*`) | `g_regions`: `count_`, accumulated and snapshot counters per simulation | constructor, `on_region_entry`, `on_region_exit`, `register_datastruct` | the vectors have an element per simulation; a region accumulates what was counted while there were more starts than stops, whoever made them |
| **Probe handlers** (`imgload.cpp`) | none of their own; take `g_rwlock` for writing | `handle_datastruct`, start and stop of a region, main's exit | they exclude accesses and each other |
| **Access callback and threads** (`pindist.cpp`) | `mtx`, `g_rwlock`, `rr_mutex`, a second `addr_last_arr`, `num_threads`, `g_main_exit` | `memAccess`, `ThreadStart`, `ThreadFini`, `Exit` | one thread at a time in the simulation; the filter drops only what the thread accessed last; no deadlock |
| **RRlock** (`rrlock.*`) | a ring of nodes with a turn flag, `head_`, `tail_` | `add_thread`, `lock`, `unlock`, `tick`, `remove_thread` | one turn at any time, every thread in turn |
| **Bounds and blocks** (`pindist.cpp` main, `dist.h`) | `Bucket::mins` | building the list, masking addresses | strictly growing, infinity at the end; first and last block are all an access touches |
| **Trace** (`pintrace.cpp`, `distcalc.cpp`) | chunk buffer and index, both static and without a lock, counters, file | `memAccess`, `accessBlock`, `writeChunk`, `Exit` | the index stays within the buffer; blocks reach the file in order, and how many do not |
| **Predictor** (`pinpredict.cpp`) | predictor and exit tables, per thread data | `check`, allocation, traces | hits and misses add up; a stride is followed |
| **Generator** (`bench/distgen.c`) | sorted distances, buffer, chain | `addDist`, `adjustSize`, `runBench`, main's loop | the chain visits every block of a buffer whose size is an int; the counts are those of the accesses made |

How they interact: Pin calls `memAccess` on the thread that makes an access; it
filters, takes `mtx` and `g_rwlock` for reading and calls `RD_accessBlock`, which
updates the global simulation `g_cachesims[0]` and every simulation of the
block's data structure. The probes on the allocators and on the region markers
take `g_rwlock` for writing and change the registry and the regions. So in the
build as configured (`RD_PARALLEL`, no `RD_ROUND_ROBIN`) the calls are atomic with
respect to each other (which PinDist checks), and what is hard is their *order*: structures registered
between two accesses of a block, inside a region, after memory was freed; blocks
that become known to a simulation late; a filter that is per thread over a stack
that is shared; and, in one simulation, markers and buckets that are never
recomputed. The hazards, each at its line, are in `PROJECT.json`.

## Modules

    ReuseDistance   <--refined by--   GlobalStack      Dist
                                          |          /    |
                                          CacheSim <---- Region

    RoundRobin      <--refined by--   RRlock

    MemBlocks <---- Dist, PinDist, PinTrace, BucketBounds

    Predictor <---- PinPredict                Traversal <---- Distgen

An arrow `<----` is EXTENDS or the use of operators; each `MC` module only gives values to
the constants of the module it is named after, and each `Proofs` module holds what is proved about it.

* **MemBlocks** is what `dist.h` and `memAccess` do with addresses: bytes are numbers, blocks of `MEMBLOCKLEN`
  bytes are numbered, block 0 is the `NULL` that filters and buffers start with. `Ends` are the blocks of an
  access the code goes on with, its first and its last; `Touched` are all of them.
* **CacheSim** has no variables. An object is a record, a method is an operator
  from the record before to the record after, so the same definitions serve
  GlobalStack (one object), Dist (a vector of them) and the proofs. A block is on
  a list at most once, hence a block stands for its node and for the iterators to
  that node; `Singular` is an iterator nobody assigned. `std::list::splice`
  is `SpliceToFront`; `move_markers` moves all markers at once, which is the loop's
  result since the markers are distinct nodes. `WellFormed` collects what an
  object promises.
* **ReuseDistance** is the abstract specification: sets of blocks used since, no
  stack, no markers, no buckets in blocks.
* **GlobalStack** is `g_cachesims[0]` with the keys of `g_addrMap`. Its
  refinement mapping sends a block to the set of blocks above it.
* **Region** are the methods of class Region, as operators on records.
* **Dist** composes everything: registry, all simulations, address map, per
  thread filter of `RD_accessBlock`, regions. The registration of a data structure
  is one action made of the steps of `register_datastruct` in their order:
  own simulation, all complements, own complement, pairs with their complements.
  A data structure has an address and a size in bytes, and may begin within a block or overlap an older
  one, since nothing is ever unregistered; `DatastructNum` compares the addresses as the code does.
  `SimsOf(d)` is `indices_of[d]` without the global simulation, which
  `on_block_new` and `on_block_seen` skip, so the j-th element goes with iterator
  j (0 being the global one). `count_` of a region has the width `UnsignedRange`, and any thread may start or
  stop any region, also without the other call. `open` and `during` are history variables: the starts of a region
  minus its stops, and what was counted while that was positive.

* **PinDist** is the other half of `pindist.cpp` and `imgload.cpp`: not what a call
  does but which calls can overlap. A thread goes through `memAccess`, a handler,
  or the instrumentation of new code, one lock operation per step; the three locks
  are variables that say who holds them. What matters of the simulation there
  is the order of the blocks on the global stack, kept as the set `stack` and, for every block, the
  blocks `above` it, and, in the history variable `by`, which
  thread moved each block to the top last. `pc` names the place in the code: `lock_mtx` before
  `PIN_MutexLock`, `enter` before `threads++`, and so on.
* **RRlock** has an action per atomic load, store or exchange of `add_thread`, `lock` and
  `unlock`, and those callbacks that add and end threads. `head_`, `tail_`, `next_` and
  `turn_` are the code's; a thread stands for its node. `PIN_ExitThread` runs
  `ThreadFini`, as the end of a thread's function does.
* **RoundRobin** is what it promises, a cyclic order and a turn. The refinement
  mapping reads the order off the links and takes the turn to be with a node while
  `unlock` is between its load and its store.

* **PinTrace** is the recorder. Nothing in it is locked, so each action is a load or a store of a shared variable:
  of the counters, of `ptr` (loaded once per call of `accessBlock`, as the build with `-O3` has it), of an element
  of `mergeBuffer`; `fwrite`, which locks its file, is one step. `memWrite` is given the size of a read
  (`pintrace.cpp:134`), which the model takes as it comes, but positive.
* **BucketBounds** is the list of bounds that `main()` of `pindist` builds. It is a constant, so it has no runs, only proofs (in PinDistProofs).

* **Predictor** is `struct AddrPredict` as a record and `check()` as an operator on it;
  **PinPredict** the tool around it. Code is instrumented by `Instrument` (the whole
  `Trace()` callback: a predictor per access, a counter per exit, and which
  exit has which range), then threads run through it, an access, a block or an exit
  per step. The analysis calls inserted before an access (set `predReg`, move
  it on, store the address) are one action, as Pin executes them together with the
  instruction of one thread; the checks at an exit and the exit counter are two. The sums of `Fini()` are operators,
  so that they can be compared with what was executed (history variables) at any time.
* **Traversal** holds the arithmetic of `distgen.c`: `gcd` and `adjustSize` with the `int` they return (`ToInt`), the chain, and
  the blocks each kind of traversal visits in order. **Distgen** is `main()` with its
  threads and signals: `addDist` per distance, `Setup`, chunks between `Fork` and `Join`, an
  iteration of `runBench` per step, and a signal handler in two steps, since `sigCounter++` on
  a `volatile int` is a read and a write that another thread's handler can get between.

A definition whose comment calls it a *mutant* of another is a plausible bug of
that code; it is in no behaviour of the specification and serves to show that
a property would notice it (`PROJECT.json`, "mutants").

Abstractions: what a block's bytes hold, file
names and lines of allocations, output and statistics printing are left out;
64-bit counters are unbounded; an allocation without source location is not
registered by `handle_datastruct` and changes nothing. Memory is sequentially consistent:
`pintrace.cpp` races on plain variables, whose
loads and stores are taken to be whole; `rrlock.cpp` uses `atomic_load` and `atomic_store` with their default order, and
`g_main_exit`, a plain `bool` read in a loop around atomic loads, is seen
sooner or later. The OpenMP pragmas and signals of the observed program and Pin's own threads do not enter.
In PinPredict addresses are integers without width and strides that do not fit into an
`INT32` are not learned anyway; `UINT32` counters wrap at `CounterSize`, 64-bit ones do not. In
Distgen `aCount` counts in units of an iteration, whose accesses are the
same for all threads; the extra reads of `buffer[0]` outside the traversals are left out. The `u64` in which `main` computes `blocks * 987`
would wrap from 2^54 blocks on, and `distIter`, how often a distance is traversed per iteration and an `int` too, only scales what `aCount` counts: both
are taken as numbers.

## Runs

| Run | Bounds | Shows |
|---|---|---|
| `MCGlobalStack` | 6 blocks, buckets 0, 1, 2-3, 4+, each finite counter up to 2 | markers and block buckets are right in every reachable state, and each step is a step of ReuseDistance. Six blocks fill the last bucket beyond its marker, so all markers move, and a bucket two blocks wide has a block that is no marker. |
| `MCDist` | 3 blocks of 2 bytes, one thread; a structure of two blocks, one that begins in the middle of the first of them and ends with the second, one in the middle of the third; 2 registrations, each of any of these, 6 accesses, combining on | alignment of iterators, isolated stacks, the registry's invariants, what a block is attributed to, conservation between complements, exclusive against global distances |
| `MCRegions` | 2 blocks, 2 threads, one region with up to 2 starts more than stops or stops more than starts, `count_` of 3 bits, 2 registrations, combining off | region vectors cover all simulations and the accounting is exact |
| `MCPairsRegions` | 2 blocks, one region, combining on | **violated**: a region lacks the buckets of a pair's complement |
| `MCPinDist` | 2 threads, accesses to one block, to another, across both, and over three of which only the ends are simulated, one within block 0 and one from there to the next, 2 calls of handlers that take effect | one thread simulates at a time, handlers exclude accesses, no circular wait (deadlock is checked as well), and a dropped access is to a block its own thread accessed last: above it are only blocks of other threads, or the second block of that access; or to block 0 before the thread has accessed any other |
| `MCCrossFilter` | 1 thread, 2 blocks and a crossing access | **violated**: an access at distance one is filtered |
| `MCRRlock` | 3 threads, main and another that may finish at any time | mutual exclusion, turns in the order of the ring, a turn for everyone who waits until a thread has finished, and everyone ends after main has returned |
| `MCPinPredict` | one thread, traces of three shapes (a loop; an exit in the middle and a fall through; an exit without accesses), 2 addresses, 5 predictors, 4 exits, `predReg` moved on after 2 accesses, 3 runs of traces, counters wrap at 3 | what is checked is what was accessed; executions and hits add up; strides are learned |
| `MCAllAccesses` | as above | **violated**: accesses count twice in "all accesses" |
| `MCDistgen` | 5 sizes of which 3 fit, the largest beyond an int (`INT_MAX` 9), 3 kinds of traversal, 2 threads, 3 iterations in chunks of 2 or 3, 2 signals | sorted distances, one cycle, traversals of the right blocks, all accesses and iterations accounted, termination |
| `MCPinTrace` | 2 threads, a buffer of 2 blocks, 4 accesses, also across two blocks and at address 0, and 1 stack access | the index stays in the buffer whatever the threads overwrite, counters never exceed what happened, and a thread on its own gets its stream into the file but for one block after each chunk and the rest at the end |
| `MCTraceStream` | 1 thread, 4 accesses | **violated**: the file does not hold the stream of blocks |

Why the bounds are enough: a second registration is the first one that finds
older structures, complements to join and, with combining, a pair; three blocks
are the fewest with both a shared and a foreign block; blocks of two bytes are the shortest a structure can begin within.
Regions that are started and stopped by two threads reach every order of two nested pairs, and two stops too many
wrap `count_` and let it come back. `MaxCount`, `MaxDatastructs`,
`MaxAccesses`, `MaxRepeats` and `MaxNesting` bound counters that the program does
not; the runs end there, so deadlock is not checked. Every initial state is
that of `RD_init()`. In the ring, the third thread is the first that is linked between
two others. PinDist's two threads can hold and want any two of its three locks; the
proof is for any number. PinTrace's two threads, with a buffer of two, can both find it full, write it both, and
reset it under each other; four accesses fill it, write it and begin again. The runs of RRlock stop when all threads have
ended, or before a thread is started that the program never starts.

The limits in PinPredict (`MAX_ADDROFFSET` 30, `MAX_AFTEREXIT` 9, the sizes of the tables, `CounterSize`
2^32, `MAXDIFF`) are constants, small enough in the run that each is exceeded: the tables are full after two
or three traces, a trace of three or four accesses moves `predReg` on, and a counter of three values wraps
when a trace has run three times. `HitsAddUp` says something up to there, and the second run is the first that can be predicted right
(the first only of address 0, which `predictedAddr` starts with and no access has). With 30 and 9 the code that sets `predReg` again before `afterExitN` never runs;
the run covers it too. Threads share only the tables, which `Instrument` changes while a thread
is anywhere, so that one thread shows what more would show; three runs are needed for a stride to be
seen twice. `MaxRuns` bounds them. In Distgen the sizes give 1, 3, 6, 8 and 10 blocks; of these 6 and 8 are
adjusted when the increment is the golden ratio, and the unrolled loop, of 2 accesses there, is used; ten blocks are more than `INT_MAX`.
Two signals are the fewest whose handlers can overlap and count as one. `MaxCount` is where history counters saturate, so that
a run without end would be a cycle; it is beyond what the run reaches.

Fairness: none for the simulation, for PinPredict and for PinDist, where every call returns when it
gets its locks, Pin's locks promise no order, and what happens next is up to the program that is
observed. RRlock is a spin lock, and there liveness matters. `Fairness` is weak
fairness of everything a started thread does: the operating system runs it, and it
goes on to access memory, without which no round robin makes progress (an
OpenMP thread that waits does so busily, by memory accesses of its own). It is not assumed that
threads are started, that main returns or that a thread finishes: `Step` includes
`Finish`, but a thread that goes on accessing memory satisfies it as well. Distgen is a program of
its own: `Fairness` says that the operating system runs its threads and that main goes on when
all have arrived. Signals are finitely many (`MaxSignals`): one in every iteration could keep
the run going for ever.

## The disagreements found

1. `combine()` grows the regions once for two new simulations
   (`datastructs.cpp:35-46`), so a region created before pays with an access past the
   end of its vectors. This happens with allocations over `RD_COMBINE_THRESHOLD`
   inside or after a region. Everything else about regions holds (`MCRegions`).
2. The filter of `memAccess` remembers the first block of an access that
   crosses into the next one (`pindist.cpp:105`), so that it drops an access at distance
   one, with a single thread (`MCCrossFilter`). `FilterDropsOwnRepeats` says what is true in general.
3. pinpredict's "all accesses" counts every access that is not to the stack twice
   (`pinpredict.cpp:457` and `:462`); the other sums are right (`MCPinPredict`).
4. `accessBlock` of `pintrace` drops the block that finds the buffer full (`pintrace.cpp:64`), and `Exit` does not
   write what is still in the buffer (`MCTraceStream`). `DropsOneOfEach` says that nothing else is lost.

Things a reader should know of:

* The assertion in `on_block_seen` that a late join is to a complement (`dist.cpp:165`) is wrong for pairs. What the
  code goes on to do, in a build without assertions, is right: `IsolatedStacks` and `PairConservation` include those joins.
* A region records exactly while its starts exceed its stops. After a stop without a start, the next start and
  stop only make up for it and record nothing (`region.cpp:35`, `:48`).
* Data structures are never removed, so that memory that was freed stays attributed to the structure that was there first
  (`datastructs.cpp:134-143`). A structure that begins within a block is not attributed that block, since it is
  the aligned address that is looked up; one that ends within a block is (`Attribution`).
* The filters are per thread over a stack that is shared, so that with several threads accesses are dropped
  that are not at distance zero.
* `remove_thread` does nothing (`rrlock.cpp:46`, with a TODO), so that in builds with `RD_ROUND_ROBIN` a finished thread
  gets the turn and keeps it: `TurnComes` holds only until a thread has finished, and `GracefulExit` once main has returned.
* `runBench` returns one iteration less than it did when it saw a signal (`distgen.c:225`), so that each signal may make the
  run longer by one (`IterationsDone`). Threads other than the last one may do any number of
  iterations when signals arrive (`distgen.c:564`), and a signal that is counted between two chunks does not stop a run with `-b`.
* The filters of `memAccess` and `RD_accessBlock` start at address 0 (`pindist.cpp:103`, `dist.cpp:192`), which is a block as
  well. The first access of a thread to it, which a prefetch or a fault that is caught can make, is dropped
  although the block may be on no stack; `FilterDropsOwnRepeats` has it as its second case. In Dist all accesses are to
  positive blocks.
* `handle_datastruct` registers the result of an allocator without looking at it (`imgload.cpp:47-53`), after a failed one a structure at
  address 0 of the size asked for. Dist's allocations are at positive addresses, so this structure and blocks attributed to it are not in the model.
* An access longer than `MEMBLOCKLEN + 1` bytes, as `fxsave` makes one of 512, leaves out the blocks between its ends (`pindist.cpp:144`).
* `adjustSize` says that it returns the size (`distgen.c:115`), a `u64`, and returns an `int`: from 2^31 blocks on (a
  distance of 128 GiB) `main` gets a negative number, near 2^64 in `blocks`, or what is left modulo 2^32.
  The model has the conversion and ends where it loses something, with `phase` "overrun"; `ChainVisitsAll` and `TraversesItsBlocks` are
  claims about buffers below.
* The read traversal of distgen may touch one block more than it accounts for (`TraversesItsBlocks`).
* Two threads of a traced program may lose each other's blocks and write chunks twice; the index still stays in the buffer.

## Proofs

`CacheSimProofs` and `GlobalStackProofs` are checked by TLAPS for every set of
blocks and every list of bucket bounds that satisfies the assumptions
`MinsAssumption` (0, strictly growing, infinity last: what `main()` builds, see `MainBuildsBounds`),
`SingularAssumption` and `MaxCountAssumption`.

* `OnBlockNewCorrect`, `OnBlockSeenCorrect`: from any well-formed object not holding
  (holding) the block, the method yields a well-formed object whose stack is the
  old one with the block on top. The argument goes through `MoveMarkersEffect`: the
  markers point at different nodes, so decrementing each moves every block that
  crosses a bucket's minimum, and only those, by one bucket; `InBucketStep` and
  `InBucketZero` say that this is the change of its depth's bucket.
* `Invariant`: `IInv` of GlobalStackProofs is inductive. It strengthens the type invariant with
  `WellFormed(sim)` and `ColdMisses`. Neither markers nor
  buckets are inductive alone: a marker is right after a push because it was right
  and moved, a bucket because the markers that pass are right.
  `TypeCorrect`, `MarkersCorrect`, `BlockBucketsCorrect`, `ColdMissesCorrect` follow.
* `Refinement`: `Spec => CountsReuseDistances`. `DepthIsDistance` (the number of blocks
  above is the depth, as there are no duplicates) and `BucketOfIsInBucket` identify
  the bucket the code returns with that of the definition; `AbovePushed` and `AboveRaised`
  give the effect of an access on the sets of the abstract state.

`DistProofs`, for any sets of blocks, threads and allocations, any list of bounds and any threshold of `combine()`
(`BlocksAssumption`, `BoundsAssumption`, and those of CacheSim and Region):

* `ConsistentAlways`: `Consistent` is inductive. It is one statement of three layers, since none of them is kept without
  those below it. `Registry`: the sizes of the vectors, `indices_of` and `ds_nums_` as one relation (`Linked`), the first simulation of
  a data structure its own (`Owned`), complements as complements (`Paired`). `Aligned`: the iterators of a block are those into the first
  so many simulations of its structure, and every stack it is on has one; that registrations only *append* to `indices_of` is what
  keeps this. `Isolated`: each stack is in the order of the global one and `WellFormed`. An access preserves it
  because a block that is not among the iterators is not on the stack, and one that is, is: exactly the conditions
  of `OnBlockNewCorrect` and `OnBlockSeenCorrect`.
  `JoinComplements`, `CombinePair` and `Combine` each have a lemma that they take a registry to a registry that extends it; `Combine`
  is an induction over its rounds.
* `IndicesCorrect`, `ComplementsCorrect`, `IteratorsCorrect`, `StacksCorrect` and `TypeCorrect` (with `Others`, the types of what the
  simulation does not touch) follow. So the assertions `contains(ds_num)` of `dist.cpp` hold for any program, and an
  iterator is never used on another list than its own, pairs included.
* `AttributionCorrect`: `Placed` is inductive on top: the structure of a known block is the first that holds it. A structure registered
  later does not come before it.
* `DominatesCorrect`: the bucket that a simulation returns for a block is never beyond that of the global stack, since the blocks above it there
  are among those above it globally (`IsolatedStacks`), and bounds grow. The rest is what one increment does to the sums over buckets.
* `PairsConserve`: a block's structure is in a simulation or in its complement and never in both (`Paired`), and
  `SimsOf` lists the one that has it once (`Linked`).
* `RegionsCoverCorrect`, `RegionAccountingCorrect`: under `NoPairs`, that no allocation is as large as `CombineThreshold`. The hypothesis is
  the program's restriction and not the proof's: with pairs `MCPairsRegions` refutes the first of them, and the code has undefined behaviour from there.
  `Regional` is inductive: the accumulated counters plus, while the region is open, the difference between the
  simulation's counters and the snapshot are what was counted while it was open, per simulation, method and bucket; and `count_` is the
  number of open starts modulo `UnsignedRange`, negative numbers included.

`PinDistProofs`, for any set of threads and any set of accesses:

* `Invariant`: who holds a lock is exactly at the places between taking and returning
  it, there is no reader next to a writer, and the counter `threads` is the number of
  threads between the assertions. `OneThreadSimulates` follows since those
  places are within `mtx`, `HandlersAreExclusive` since the change of a handler is
  within the write lock.
* `NoDeadlock`: a set of waiting threads with no lock from outside the set would need a
  first lock among `mtx`, `g_rwlock`, client lock; the threads of the code take them in this
  order, so the holder of the last one of them does not wait.
* `FilterIsSafe`: that a filter drops only what its thread accessed last needs to be known not of the filters but of
  what lies above the block they remember. `FiltersRemember` proves `RInv`: once a thread is out of an access,
  everything above the block it remembers was put there by another thread or is the second block of that same access; within the
  access, what is still to come is named by `pc`. Of block 0, which a thread remembers from the start, the same is true or the
  thread has put nothing on the stack but a second block (`Last`). `TypeCorrect` includes that `above` is an order.

`RRlockProofs`, for any finite set of threads (`ThreadsAssumption`):

* `Invariant`: there is at most one *token* (`OneToken`): a thread that has the turn, is
  handing it on, or is about to take the first one. Mutual exclusion alone is not
  inductive: it has to be known that no second turn exists anywhere, also
  during `add_thread` of the first thread and between the stores of `unlock`. The links do not matter
  for it: wherever `next_` points, one token goes there.
* `Counted`: `num_threads` is the number of threads between their two callbacks, hence
  the bounds in `TypeOK`. `TypeCorrect` and `Exclusion` follow.
* `TurnsInOrder`: `Spec => TakesTurns`, the refinement of `RoundRobin`, whose `order` is the sequence read off the links from `tail_` on
  (`RingFrom`). `LinkInv` is the invariant it needs. `RingInv` says that only one thread is within the mutex of `add_thread`, and that
  the ring is empty, holds a first thread that is being set up (`Starting`), or is `Linked`: the members can be numbered so that `next_`
  leads from each to the next one and from the last to `tail_` (`IsRing`), and whoever is
  linking itself in, or has read `next_` to hand on the turn, has read what is still true (`Aware`). `RingIsOrder` identifies that numbering with
  `Order`, by induction. The one step that changes the ring, the store to `tail_->next_`, is `RingGrows`: the new thread comes after `tail_`, so the
  order becomes that of `RoundRobin`'s join (`JoinedSequence`); no thread that has read its `next_` is misled, since only `tail_`'s
  changes, and a turn passed to the old neighbour is the abstract turn already. `RingSuccessor` shows that `unlock` goes to the successor.

`PinTraceProofs`, for any threads, accesses and `CHUNKSIZE`:

* `TypeCorrect`: although two threads may store any `ptr` they have loaded and reset it under each other, a value
  loaded is one that some thread stored, and only values that passed the comparison are counted up; so no index leaves
  the buffer. `CountersBounded`: a thread that adds to a counter has loaded a value that was right or too small.
* `StreamWithGaps`: with one thread, file and buffer together are the stream less each `CHUNKSIZE + 1`-st block. `ChunkIndex` is the
  arithmetic; the invariant follows the block through loading `ptr`, storing the element and writing the chunk.

`PinDistProofs` also has what is proved of the bounds `main()` builds and of blocks, for any `MEMBLOCKLEN`:

* `EndsCoverAccess`: an access of at most `MEMBLOCKLEN + 1` bytes touches no block but its ends.
* `MainBuildsBounds`: the bounds of `main()` are 0, growing strictly, infinity, as long as a block is not longer than a KiB (beyond, two
  of them coincide); and so they are with the largest number in the last place, as `Exit` prints them.

`DistgenProofs`, for any distances, options, number of threads and of signals (`DistgenAssumption`: `MaxCount` is out of reach; `TraversalAssumption`);
the last two, which are about the buffer, as long as its number of blocks is at most `INT_MAX`:

* `SortedDistances`: `Place` is where the sorted order is kept (`PlaceEffect`), and `InsertAt` moves what is behind by one
  (`InsertAtEffect`), so that `addDist` leaves a descending list of the distances given.
* `IterationsAccounted`: what the last thread has done beyond what was counted never exceeds the signals sent. That is not inductive;
  `Budget` adds the iteration that is running and will not be counted, and every handler that has yet to write `sigCounter`, since
  each may still cause such an iteration. A handler that overwrites another's count only lowers it. The bounds of
  chunks (`InChunk`) make the end exact. `TypeCorrect` follows from the same invariant.
* `AllAccounted`: `Accounted` relates `aCount` and what the threads have counted in this chunk to `done`, from the fork to the join.
  `SumOf` is a recursive function, and `SumOfSums`, `SumOfZero`, `SumOfNat` and `SumOfOneMore` are proved of it by induction. The
  model's counts saturate at `MaxCount` on both sides of the equation; the instance never gets there.
* `ChainComplete`: `GcdStep` shows that the recursive `gcd` exists and satisfies its equation, by induction over its second argument;
  `GcdCoprime`, that a result of at most 1 means there is no common factor (`Coprime`, kept by each step of
  Euclid's algorithm); `AdjustedSize`, that among `diff` sizes in a row there is one, so that the loop of `adjustSize` ends. Both functions return an `int`; `ToIntIs` and
  `GcdBelow` say that up to `INT_MAX` blocks nothing is lost by it, and only such buffers get a chain (`ChainSetup`). The k-th block
  on the way is `k * d % m` (`Position`, `WalkIs`); without a common factor no two of a round coincide (`PositionsDiffer`),
  so they are all (`PositionsCover`). `BlockDiffIs`: the golden ratio of one block is 0, and of more is not.
* `TraversalsCorrect`: the loops of `benchType` 0 are one recursive function of the places in the loops. `GoesOnFrom` constructs it, from the last access to the
  first; `UnrolledIsWay` shows by induction that from every place it goes on with the next blocks of the chain, to the end or one beyond.
  The one beyond is the access of the `for` after an inner loop that ran to `max`.

`PinPredictProofs`, for any traces, tables and addresses (`PredictorAssumption`, `PinPredictAssumption`: the
addresses are integers, and `NULL` is neither the data of a thread nor a place in a trace; `TracesAssumption`: a trace has at
least one block, the limits are natural numbers, and there are store functions):

* `StrideLearned`: after any miss the predictor's `lastAddr` is the address missed (`MissesOnce`). From there the
  next two accesses either are predicted already, or are misses with the same stride, the second of which makes it
  the predicted one (`Catches`). One access more is lost if the first was predicted by accident of another stride.
* `Typed`: threads in a trace have data, and their predictors are well typed whatever the
  tables hold; `PredictorsLearn` follows.
* `Following` ties the tables to the threads. Each trace in the cache has its predictors in a row and, for every way out,
  an entry of `exits` over those before it (`Cached`); `Trace()` only appends, so that this stays true
  (`InstrumentTables`, with `ExitOrderFacts`: every way out is in the order of the `getExit` calls, so `CHOOSE` finds it). A thread has done no more
  accesses than its block has, and exactly as many at an exit (`Within`); until the checks, access `k` has stored its address in predictor `first + k - 1`,
  and `predReg` is `first` plus the base of the last group of `MAX_ADDROFFSET` (`Loaded`, with
  `AccBaseFacts` for the arithmetic). So `afterExitN` checks the right ones whether `predReg` is set again or never moved: `TypeCorrect` and `ChecksOwn`.
* `Accounted` is the bookkeeping: counters of exits not yet in the table are 0, those over a predictor sum to its
  executions (`CountedBy`), and hits are checks less misses, summed over the predictors, as long as no `UINT32` has wrapped
  (`HitBy`). Between the checks and `incExitCounter` the misses are ahead of the counts: `PendingOf` is the set
  of predictors checked once more than counted. `CountsCorrect` and `HitsCorrect` are what it says of a thread outside of
  traces. Sums are a recursive function (`SumTo`), and of these `SumToAdds`, `SumToGrows`, `SumToExtended` and `SumToCounts` are proved by induction.

Only model-checked is what is out of the prover's reach: liveness (`TurnComes`, `GracefulExit`, `Terminates`) and ENABLED. Every
invariant and action property of the passing runs, and both refinements, are theorems, `RegionsCoverCachesims` and `RegionAccounting` under `NoPairs`. Where a proof about Dist or PinPredict
needs an induction (the rounds of `Combine`, loops that skip, sums over buckets and tables), the definitions are
functions over `0 .. n`, and the lemma is one step of the function and an induction over a set of numbers.

## Not modelled

* `distcalc.cpp` would replay a trace, but does not compile against the `dist.h` beside it: `RD_init` takes no argument any more, and
  `RD_addBucket` is declared but defined nowhere. It also ignores the name of the trace it is given (`distcalc.cpp:76`).
* Output: histograms, CSV files, statistics, reports per routine, `demangle_name`; `free_memory`, which follows it;
  `Exit` of `pindist` but for the bound it replaces; the counters of ignored accesses.
* The Pin API: installing probes and analysis calls (`ImageLoad`, parts of `Instruction`), and the wrappers that
  replace the allocators. These narrow sizes (`NewMalloc` takes a `UINT32`), and functions that are regions get their names from
  strings that are gone; the model takes sizes and names as the handlers receive them.
* Parsing of numbers and options; code under `#if` switches that are off (`COMBINE_THREE_DATASTRUCTS`, `RD_checkConsistency`,
  `DEBUG_STATS`); the limit of 50 threads of pinpredict and of `MAX_THREADS` of `dist.cpp`.

What could be added: `demangle_name` and the sums of the printed histograms, if output is to be covered; a Pin thread id beyond `MAX_THREADS`.
