-------------------------------- MODULE Dist --------------------------------
(***************************************************************************)
(* The simulation of pindist: the map from blocks to list nodes and the    *)
(* access path (dist.cpp), the registry of data structures with their      *)
(* CacheSims, complements and pairs (datastructs.cpp), and the regions     *)
(* (region.cpp, imgload.cpp).  Each action is one call the tool makes with *)
(* the locks held, so the calls are atomic.                                *)
(*                                                                         *)
(* The list node of block a in simulation k is the pair (k, a);            *)
(* g_addrMap[a] keeps, in order, the k of every iterator stored for a.     *)
(***************************************************************************)
EXTENDS Region, MemBlocks, SequencesExt

CONSTANTS
  Threads,            \* Pin thread ids
  Allocations,        \* data structures the program may allocate
  CombineThreshold,   \* RD_COMBINE_THRESHOLD, in bytes
  RegionNames,        \* addresses of names the program may pass: g_regions compares pointers
  MaxDatastructs,     \* bound on the number of registered data structures
  MaxAccesses,        \* bound on the number of counted accesses
  MaxRepeats,         \* bound on abefore_cnt
  MaxNesting          \* bound on the starts without a stop, or stops without a start

VARIABLES
  datastructs,   \* Datastruct::datastructs, index |-> [address, nbytes]
  indices_of,    \* Datastruct::indices_of, index |-> sequence of sim indices
  g_cachesims,   \* index |-> CacheSim
  g_addrMap,     \* known block |-> sequence of sim indices, one per iterator
  ds_num,        \* known block |-> MemoryBlock::ds_num
  addr_last,     \* addr_last_arr of RD_accessBlock, one entry per thread
  abefore_cnt,   \* accesses RD_accessBlock skipped
  g_regions,     \* known region |-> Region
  open,          \* history: the starts of a region minus its stops, by any thread
  during         \* history: what was counted while there were more starts

vars == <<datastructs, indices_of, g_cachesims, g_addrMap, ds_num,
          addr_last, abefore_cnt, g_regions, open, during>>

RD_NO_DATASTRUCT == 0
NoDatastruct == [address |-> 0, nbytes |-> 0]

ASSUME BlocksAssumption ==
  /\ Blocks \subseteq Nat \ {NULL_BLOCK}
  /\ Allocations \subseteq [address : Nat \ {0}, nbytes : Nat]
  /\ CombineThreshold \in Nat

\* No program nests regions so deeply that their unsigned counter wraps.
ASSUME BoundsAssumption ==
  /\ {MaxDatastructs, MaxAccesses, MaxRepeats, MaxNesting} \subseteq Nat
  /\ MaxNesting < UnsignedRange

-----------------------------------------------------------------------------
Earlier(d) == [i \in 1 .. d |-> i - 1]   \* 0, 1, ..., d - 1

\* What a loop over the sequence s visits that skips what is not in S.
Among(s, S) ==
  LET visited[n \in 0 .. Len(s)] ==
        IF n = 0 THEN << >>
        ELSE IF s[n] \in S THEN Append(visited[n - 1], s[n]) ELSE visited[n - 1]
  IN  visited[Len(s)]

(***************************************************************************)
(* Datastruct::register_datastruct on the record [datastructs, indices_of, *)
(* cachesims, regions] of everything it changes.                           *)
(***************************************************************************)

\* Mutant of AddCacheSim: size() of the vector in place of size() - 1.
AddCacheSimPastEnd(reg, complement, nums) ==
  LET k == SizeOf(reg.cachesims) + 1
  IN  [reg EXCEPT
        !.cachesims  = PushBack(@, [NewCacheSim(complement) EXCEPT !.ds_nums = nums]),
        !.indices_of = [d \in DOMAIN @ |-> IF d \in ToSet(nums) THEN Append(@[d], k) ELSE @[d]]]

\* push_back(new CacheSim{complement}) and add_datastruct / indices_of[d]
\* .push_back for each d of the sequence nums.
AddCacheSim(reg, complement, nums) ==
  LET k == SizeOf(reg.cachesims)
  IN  [reg EXCEPT
        !.cachesims  = PushBack(@, [NewCacheSim(complement) EXCEPT !.ds_nums = nums]),
        !.indices_of = [d \in DOMAIN @ |-> IF d \in ToSet(nums) THEN Append(@[d], k) ELSE @[d]]]

\* Mutant of GrowRegions: regions keep the size they were created with.
GrowRegionsNot(reg) == reg

GrowRegions(reg) ==
  [reg EXCEPT !.regions = [r \in DOMAIN @ |-> RegisterDatastructInRegion(@[r])]]

IsComplement(sim) == sim.complement # 0

\* Mutant of JoinComplements: only the objects learn of the data structure.
JoinComplementsUnindexed(reg, d) ==
  [reg EXCEPT !.cachesims = [k \in DOMAIN @ |-> IF IsComplement(@[k])
                                               THEN AddDatastruct(@[k], d) ELSE @[k]]]

\* Mutant of JoinComplements: older complements miss the data structure.
JoinComplementsNot(reg, d) == reg

\* ds joins every complement there is.
JoinComplements(reg, d) ==
  LET complements == {k \in DOMAIN reg.cachesims : IsComplement(reg.cachesims[k])}
  IN  [reg EXCEPT
        !.cachesims  = [k \in DOMAIN @ |-> IF k \in complements
                                           THEN AddDatastruct(@[k], d) ELSE @[k]],
        !.indices_of[d] = @ \o Among(Earlier(SizeOf(reg.cachesims)), complements)]

Large(reg, d) == reg.datastructs[d].nbytes >= CombineThreshold

\* Mutant of CombinePair: the complement holds a member of the pair.
CombinePairOverlapping(d, reg, other) ==
  AddCacheSim(GrowRegions(AddCacheSim(reg, 0, <<d, other>>)),
              SizeOf(reg.cachesims), Earlier(d))

\* One round of combine(d): the pair of d and other, and its complement.
CombinePair(d, reg, other) ==
  LET pair == SizeOf(reg.cachesims)
  IN  AddCacheSim(GrowRegions(AddCacheSim(reg, 0, <<d, other>>)),
                  pair, Among(Earlier(d), DOMAIN reg.datastructs \ {other}))

\* round[n] is the registry after the first n rounds of the loop.
Combine(reg, d) ==
  LET round[n \in 0 .. d] ==
        IF n = 0 THEN reg
        ELSE IF Large(reg, n - 1) THEN CombinePair(d, round[n - 1], n - 1) ELSE round[n - 1]
  IN  IF Large(reg, d) THEN round[d] ELSE reg

Registered(reg, ds) ==
  LET d   == SizeOf(reg.datastructs)
      own == SizeOf(reg.cachesims)
      known == [reg EXCEPT !.datastructs = PushBack(@, ds),
                           !.indices_of  = PushBack(@, << >>)]
      alone == GrowRegions(AddCacheSim(known, 0, <<d>>))
      rest  == GrowRegions(AddCacheSim(JoinComplements(alone, d), own, Earlier(d)))
  IN  IF d = RD_NO_DATASTRUCT THEN alone ELSE Combine(rest, d)

EmptyVector == [i \in {} |-> NULL_BLOCK]

\* The map f once x is a key, with the value v.
Mapped(f, x, v) == [y \in DOMAIN f \cup {x} |-> IF y = x THEN v ELSE f[y]]

\* RD_init() on the empty registry.
AfterInit ==
  Registered([datastructs |-> EmptyVector, indices_of |-> EmptyVector,
              cachesims |-> EmptyVector, regions |-> EmptyVector],
             NoDatastruct)

\* The data structures that hold the first byte of a block.
StartsIn(a) == {i \in DOMAIN datastructs :
                  StartOf(a) \in Bytes(datastructs[i].address, datastructs[i].nbytes)}

\* Mutant of DatastructNum: the last one in place of the first.
DatastructNumLast(a) ==
  IF StartsIn(a) = {} THEN RD_NO_DATASTRUCT
  ELSE CHOOSE i \in StartsIn(a) : \A j \in StartsIn(a) : j <= i

\* The first data structure, in order of registration, that starts before a
\* block does and ends after it.
DatastructNum(a) ==
  IF StartsIn(a) = {} THEN RD_NO_DATASTRUCT
  ELSE CHOOSE i \in StartsIn(a) : \A j \in StartsIn(a) : i <= j

\* The simulations besides the global one that an access to ds d goes to.
SimsOf(d) ==
  Among(indices_of[d],
        {k \in DOMAIN g_cachesims : ~(k = RD_NO_DATASTRUCT /\ d = RD_NO_DATASTRUCT)})

-----------------------------------------------------------------------------
\* The accesses counted in buckets 0 .. b.
UpTo(count, b) ==
  LET sum[c \in 0 .. b] == count[c] + (IF c = 0 THEN 0 ELSE sum[c - 1])
  IN  sum[b]

Total(count)  == UpTo(count, InfBucket)
Accesses      == Total(g_cachesims[0].aCount)
IsOpen(r)     == open[r] > 0

\* The history variable: a counted access adds to each region that is open.
RecordDuring ==
  during' = [r \in DOMAIN during |->
    IF ~IsOpen(r) THEN during[r]
    ELSE [k \in DOMAIN g_cachesims' |->
            AddSub(IF k \in DOMAIN during[r] THEN during[r][k] ELSE ZeroCounts,
                   Counts(g_cachesims'[k]), Counts(g_cachesims[k]))]]

Init ==
  /\ datastructs = AfterInit.datastructs
  /\ indices_of = AfterInit.indices_of
  /\ g_cachesims = AfterInit.cachesims
  /\ g_regions = AfterInit.regions
  /\ g_addrMap = EmptyVector
  /\ ds_num = EmptyVector
  /\ addr_last = [t \in Threads |-> NULL_BLOCK]
  /\ abefore_cnt = 0
  /\ open = EmptyVector
  /\ during = EmptyVector

\* A block on the stack of simulation k for the first time.
JoinStack(sim, a) ==
  IncrAccessExcl(IncrAccess(OnBlockNew(sim, a), InfBucket), InfBucket)

\* Mutant of ReuseOnStack: the two distances swapped.
ReuseOnStackSwapped(sim, a, global_bucket) ==
  IncrAccessExcl(IncrAccess(OnBlockSeen(sim, a), SeenBucket(sim, a)), global_bucket)

\* Mutant of ReuseOnStack: counted, but not moved to the top.
ReuseOnStackUnmoved(sim, a, global_bucket) ==
  IncrAccessExcl(IncrAccess(sim, global_bucket), SeenBucket(sim, a))

\* A reuse: its global distance in aCount, its distance on this stack in aCount_excl.
ReuseOnStack(sim, a, global_bucket) ==
  IncrAccessExcl(IncrAccess(OnBlockSeen(sim, a), global_bucket), SeenBucket(sim, a))

\* addr_last_arr[PIN_ThreadId()] = addr
Remember(t, a) == addr_last' = [addr_last EXCEPT ![t] = a]

\* Mutant of WithJoined: the new iterators are not stored.
WithJoinedNot(its, ks) == its

\* The iterators of a block after those of the simulations it joined.
WithJoined(its, ks) == its \o SubSeq(ks, Len(its), Len(ks))

\* RD_accessBlock(a) by thread t: the thread's last block again ...
AccessRepeated(t, a) ==
  /\ a = addr_last[t]
  /\ abefore_cnt < MaxRepeats
  /\ abefore_cnt' = abefore_cnt + 1
  /\ UNCHANGED <<datastructs, indices_of, g_cachesims, g_addrMap, ds_num,
                 addr_last, g_regions, open, during>>

\* ... a block no one has accessed ...
AccessNew(t, a) ==
  LET d  == DatastructNum(a)
      ks == SimsOf(d)
  IN  /\ a # addr_last[t]
      /\ a \notin DOMAIN g_addrMap
      /\ Accesses < MaxAccesses
      /\ g_cachesims' = [k \in DOMAIN g_cachesims |->
           IF k = 0 THEN IncrAccess(OnBlockNew(g_cachesims[0], a), InfBucket)
           ELSE IF k \in ToSet(ks) THEN JoinStack(g_cachesims[k], a)
           ELSE g_cachesims[k]]
      /\ g_addrMap' = Mapped(g_addrMap, a, <<0>> \o ks)
      /\ ds_num' = Mapped(ds_num, a, d)
      /\ Remember(t, a)
      /\ RecordDuring
      /\ UNCHANGED <<datastructs, indices_of, abefore_cnt, g_regions, open>>

\* ... or a known block.  Simulations registered since its last access have
\* no iterator for it yet: there it is a new block.
AccessSeen(t, a) ==
  LET its    == g_addrMap[a]
      ks     == SimsOf(ds_num[a])
      reused == {ks[j] : j \in 1 .. Len(its) - 1}
      joined == {ks[j] : j \in Len(its) .. Len(ks)}
      global_bucket == SeenBucket(g_cachesims[0], a)
  IN  /\ a # addr_last[t]
      /\ a \in DOMAIN g_addrMap
      /\ Accesses < MaxAccesses
      /\ g_cachesims' = [k \in DOMAIN g_cachesims |->
           IF k = 0 THEN IncrAccess(OnBlockSeen(g_cachesims[0], a), global_bucket)
           ELSE IF k \in reused THEN ReuseOnStack(g_cachesims[k], a, global_bucket)
           ELSE IF k \in joined THEN JoinStack(g_cachesims[k], a)
           ELSE g_cachesims[k]]
      /\ g_addrMap' = [g_addrMap EXCEPT ![a] = WithJoined(@, ks)]
      /\ Remember(t, a)
      /\ RecordDuring
      /\ UNCHANGED <<datastructs, indices_of, ds_num, abefore_cnt, g_regions, open>>

\* handle_datastruct() of an intercepted allocation (one without a source
\* location is not registered and changes nothing).
RegisterDatastruct(ds) ==
  LET reg == Registered([datastructs |-> datastructs, indices_of |-> indices_of,
                         cachesims |-> g_cachesims, regions |-> g_regions], ds)
  IN  /\ SizeOf(datastructs) <= MaxDatastructs
      /\ datastructs' = reg.datastructs
      /\ indices_of' = reg.indices_of
      /\ g_cachesims' = reg.cachesims
      /\ g_regions' = reg.regions
      /\ UNCHANGED <<g_addrMap, ds_num, addr_last, abefore_cnt, open, during>>

\* PINDIST_start_region_(r): the first start of r creates it.
StartRegion(r) ==
  LET known  == r \in DOMAIN g_regions
      region == IF known THEN g_regions[r] ELSE NewRegion(g_cachesims)
      starts == IF known THEN open[r] ELSE 0
  IN  /\ starts < MaxNesting
      /\ g_regions' = Mapped(g_regions, r, OnRegionEntry(region, g_cachesims))
      /\ open' = Mapped(open, r, starts + 1)
      /\ during' = IF known THEN during ELSE Mapped(during, r, EmptyVector)
      /\ UNCHANGED <<datastructs, indices_of, g_cachesims, g_addrMap, ds_num,
                     addr_last, abefore_cnt>>

\* PINDIST_stop_region_(r), which does nothing for an unknown region.  The
\* program need not have started r.
StopRegion(r) ==
  /\ r \in DOMAIN g_regions
  /\ open[r] > -MaxNesting
  /\ g_regions' = [g_regions EXCEPT ![r] = OnRegionExit(@, g_cachesims)]
  /\ open' = [open EXCEPT ![r] = @ - 1]
  /\ UNCHANGED <<datastructs, indices_of, g_cachesims, g_addrMap, ds_num,
                 addr_last, abefore_cnt, during>>

Access(t, a) == AccessRepeated(t, a) \/ AccessNew(t, a) \/ AccessSeen(t, a)

Next ==
  \/ \E t \in Threads, a \in Blocks : Access(t, a)
  \/ \E ds \in Allocations : RegisterDatastruct(ds)
  \/ \E r \in RegionNames : StartRegion(r) \/ StopRegion(r)

Spec == Init /\ [][Next]_vars

-----------------------------------------------------------------------------
\* Type invariant of the simulation.
TypeOK ==
  /\ \A i \in DOMAIN datastructs : datastructs[i] \in Allocations \cup {NoDatastruct}
  /\ DOMAIN indices_of = DOMAIN datastructs
  /\ \A d \in DOMAIN indices_of : ToSet(indices_of[d]) \subseteq DOMAIN g_cachesims
  /\ \A k \in DOMAIN g_cachesims : g_cachesims[k] \in CacheSimType
  /\ DOMAIN g_addrMap \subseteq Blocks /\ DOMAIN ds_num = DOMAIN g_addrMap
  /\ \A a \in DOMAIN ds_num : ds_num[a] \in DOMAIN datastructs
  /\ addr_last \in [Threads -> Blocks \cup {NULL_BLOCK}]
  /\ abefore_cnt \in 0 .. MaxRepeats
  /\ DOMAIN g_regions \subseteq RegionNames
  /\ DOMAIN open = DOMAIN g_regions /\ DOMAIN during = DOMAIN g_regions

(***************************************************************************)
(* on_block_seen pairs the iterators of a block with indices_of of its     *)
(* data structure by position alone, while registrations keep appending    *)
(* to indices_of.  Each iterator is one into the list it is used on, and   *)
(* there is one for every list that holds the block.                       *)
(***************************************************************************)
IteratorsAligned ==
  \A a \in DOMAIN g_addrMap :
    /\ IsPrefix(g_addrMap[a], <<0>> \o SimsOf(ds_num[a]))
    /\ \A k \in DOMAIN g_cachesims :
         a \in InStack(g_cachesims[k]) <=> k \in ToSet(g_addrMap[a])

(***************************************************************************)
(* Each simulation is the LRU stack of its own blocks: although blocks     *)
(* join a simulation late, its stack is the part of the global one, in the *)
(* same order, and its markers and buckets are right for it.               *)
(***************************************************************************)
InOrderOf(sim, global) ==
  /\ InStack(sim) \subseteq InStack(global)
  /\ \A a, b \in InStack(sim) :
       Position(sim, a) < Position(sim, b) => Position(global, a) < Position(global, b)

IsolatedStacks ==
  \A k \in DOMAIN g_cachesims :
    WellFormed(g_cachesims[k]) /\ InOrderOf(g_cachesims[k], g_cachesims[0])

(***************************************************************************)
(* assert(contains(ds_num)): indices_of and the ds_nums_ of the CacheSims, *)
(* updated in different loops, are two views of one relation, and no       *)
(* simulation is listed, hence counted, twice.                             *)
(***************************************************************************)
IndicesMatchContains ==
  \A d \in DOMAIN datastructs :
    /\ \A k \in DOMAIN g_cachesims :
         k \in ToSet(indices_of[d]) <=> contains(g_cachesims[k], d)
    /\ IsInjective(indices_of[d])

(***************************************************************************)
(* A complement holds exactly the data structures its partner leaves out,  *)
(* also those registered after it.                                         *)
(***************************************************************************)
ComplementPartition ==
  \A k \in DOMAIN g_cachesims : IsComplement(g_cachesims[k]) =>
    \A d \in DOMAIN datastructs :
      contains(g_cachesims[k], d) <=> ~contains(g_cachesims[g_cachesims[k].complement], d)

(***************************************************************************)
(* Every access is counted exactly once by a simulation and its complement *)
(* together, whenever they and the accessed data structure were            *)
(* registered.                                                             *)
(***************************************************************************)
Both(k, f) ==
  Total(g_cachesims[k][f]) + Total(g_cachesims[g_cachesims[k].complement][f])

CountedByOne ==
  \A k \in DOMAIN g_cachesims : IsComplement(g_cachesims[k]) =>
    \A f \in {"aCount", "aCount_excl"} : Both(k, f)' - Both(k, f) = Accesses' - Accesses

PairConservation == [][CountedByOne]_vars

(***************************************************************************)
(* Alone, no access has a larger distance than among all accesses: up to   *)
(* every bucket, a simulation has counted at least as many accesses by     *)
(* exclusive distance as by global distance, and equally many first ones.  *)
(***************************************************************************)
ExclusiveDominates ==
  \A k \in DOMAIN g_cachesims \ {0} :
    LET sim == g_cachesims[k]
    IN  /\ \A b \in 0 .. InfBucket - 1 :
             UpTo(sim.aCount_excl, b) >= UpTo(sim.aCount, b)
        /\ sim.aCount_excl[InfBucket] = sim.aCount[InfBucket]
        /\ Total(sim.aCount_excl) = Total(sim.aCount)

(***************************************************************************)
(* What a data structure's own simulation shows: only blocks whose first   *)
(* byte is in it and in none that was registered before it.  So memory     *)
(* that was freed and allocated again stays with the old structure, and    *)
(* one within an older one, or within a block, has nothing to show.  No    *)
(* block is shown for two structures.                                      *)
(***************************************************************************)
OwnBlocks(d) == InStack(g_cachesims[Head(indices_of[d])])

Attribution ==
  LET Structures == DOMAIN datastructs \ {RD_NO_DATASTRUCT}
  IN  \A d \in Structures : \A a \in OwnBlocks(d) :
        /\ d \in StartsIn(a)
        /\ \A e \in Structures \ {d} : e \in StartsIn(a) => d < e /\ a \notin OwnBlocks(e)

(***************************************************************************)
(* "add region buckets for every CacheSim": a region has the buckets that  *)
(* on_region_entry and on_region_exit index by simulation.                 *)
(***************************************************************************)
RegionsCoverCachesims ==
  \A r \in DOMAIN g_regions :
    /\ DOMAIN g_regions[r].buckets = DOMAIN g_cachesims
    /\ DOMAIN g_regions[r].buckets_entry = DOMAIN g_cachesims

(***************************************************************************)
(* A region is shared by all threads.  What it has accumulated, plus what  *)
(* is counted since the snapshot while it is open, is what was counted     *)
(* while it had been started more often than stopped: across nested and    *)
(* repeated starts, after stops without a start, which wrap count_, and    *)
(* for simulations registered before, between and during them.             *)
(***************************************************************************)
RegionAccounting ==
  \A r \in DOMAIN g_regions : \A k \in DOMAIN g_cachesims :
    LET region == g_regions[r]
        spent  == IF k \in DOMAIN during[r] THEN during[r][k] ELSE ZeroCounts
    IN  spent = IF IsOpen(r)
                THEN AddSub(region.buckets[k], Counts(g_cachesims[k]), region.buckets_entry[k])
                ELSE region.buckets[k]
=============================================================================
