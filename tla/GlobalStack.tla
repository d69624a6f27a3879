---------------------------- MODULE GlobalStack -----------------------------
(***************************************************************************)
(* The global stack simulation, g_cachesims[0], as RD_accessBlock drives   *)
(* it (pindist/dist.cpp): g_addrMap decides whether a block is new, the    *)
(* CacheSim is updated, and the bucket of the access is counted.           *)
(***************************************************************************)
EXTENDS CacheSim

CONSTANT MaxCount   \* bound on every finite-distance counter

VARIABLES
  addrs,   \* the keys of g_addrMap
  sim      \* *g_cachesims[0]

vars == <<addrs, sim>>

ASSUME MaxCountAssumption == MaxCount \in Nat

Init ==
  /\ addrs = {}
  /\ sim = NewCacheSim(0)

AccessNew(a) ==
  /\ a \notin addrs
  /\ addrs' = addrs \cup {a}
  /\ sim' = IncrAccess(OnBlockNew(sim, a), InfBucket)

AccessSeen(a) ==
  LET b == SeenBucket(sim, a)
  IN  /\ a \in addrs
      /\ sim.aCount[b] < MaxCount
      /\ sim' = IncrAccess(OnBlockSeen(sim, a), b)
      /\ UNCHANGED addrs

Next == \E a \in Blocks : AccessNew(a) \/ AccessSeen(a)

Spec == Init /\ [][Next]_vars

-----------------------------------------------------------------------------
\* Type invariant of the global simulation.
TypeOK ==
  /\ addrs \subseteq Blocks
  /\ sim \in CacheSimType

(***************************************************************************)
(* check_consistency(): however the blocks are shuffled, each active       *)
(* marker is exactly mins[b] nodes below the top, and exactly the buckets  *)
(* the stack has outgrown are active.                                      *)
(***************************************************************************)
MarkersConsistent == ActiveBuckets(sim) /\ MarkersAtMins(sim)

(***************************************************************************)
(* The bucket a block carries, maintained only by the few markers that     *)
(* pass over it, is at all times the bucket of its true depth, so what     *)
(* on_block_seen returns is the bucket of the reuse distance.              *)
(***************************************************************************)
BlockBucketsExact == BucketsMatchDepth(sim)

(***************************************************************************)
(* RD_checkConsistency(): the cold counter, the stack and the address map  *)
(* agree on the number of blocks, and every mapped block is on the stack   *)
(* exactly once.                                                           *)
(***************************************************************************)
ColdMisses ==
  /\ InStack(sim) = addrs
  /\ NoDuplicates(sim)
  /\ sim.aCount[InfBucket] = Len(sim.stack)

-----------------------------------------------------------------------------
(***************************************************************************)
(* The stack implements the definition of the reuse distance histogram:    *)
(* the blocks used since the last use of a are those above it.             *)
(***************************************************************************)
Since == [a \in Blocks |-> IF a \in addrs THEN Above(sim, a) ELSE {}]

RD == INSTANCE ReuseDistance WITH
        known <- addrs, since <- Since, hist <- sim.aCount

(***************************************************************************)
(* Every run of the marker algorithm is a run of the definition: each      *)
(* access is counted in the bucket of its reuse distance.                  *)
(***************************************************************************)
CountsReuseDistances == RD!Spec
=============================================================================
