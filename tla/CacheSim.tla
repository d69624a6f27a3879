------------------------------ MODULE CacheSim ------------------------------
(***************************************************************************)
(* The class CacheSim of pindist/cachesim.{h,cpp}: an LRU stack of memory  *)
(* blocks kept in a linked list, with one marker (a list iterator) per     *)
(* active distance bucket.  A marker always points at the first block of   *)
(* its bucket, so the bucket of a reused block, and hence the bucket of    *)
(* its reuse distance, is known without walking the list.                  *)
(*                                                                         *)
(* The module has no variables: an object is a record, and each method is  *)
(* an operator from the record before the call to the record after it.    *)
(* A block is in a list at most once, so the block itself stands for the   *)
(* list node and for every iterator to that node.                          *)
(***************************************************************************)
EXTENDS Integers, Sequences, FiniteSets

CONSTANTS
  Blocks,     \* the aligned block addresses the program touches
  Mins,       \* Bucket::mins as a sequence: Mins[b + 1] is the C++ mins[b]
  Singular    \* a list iterator nobody has assigned yet

BUCKET_INF_DIST == 0

NumBuckets == Len(Mins)
InfBucket  == NumBuckets - 1
Buckets    == 0 .. InfBucket
mins(b)    == Mins[b + 1]

(***************************************************************************)
(* The shape of Bucket::mins that main() establishes before it starts the  *)
(* program: 0, strictly growing distances, and BUCKET_INF_DIST at the end. *)
(***************************************************************************)
ASSUME MinsAssumption ==
  /\ Mins \in Seq(Nat)
  /\ Len(Mins) >= 2
  /\ mins(0) = 0
  /\ mins(InfBucket) = BUCKET_INF_DIST
  /\ \A b, c \in 0 .. InfBucket - 1 : b < c => mins(b) < mins(c)

ASSUME SingularAssumption == Singular \notin Blocks

-----------------------------------------------------------------------------
NewCacheSim(complement) ==
  [ next_bucket |-> 1,
    complement  |-> complement,
    ds_nums     |-> << >>,
    stack       |-> << >>,
    bucket      |-> [a \in Blocks |-> 0],
    marker      |-> [b \in Buckets |-> Singular],
    aCount      |-> [b \in Buckets |-> 0],
    aCount_excl |-> [b \in Buckets |-> 0] ]

Position(sim, a) == CHOOSE i \in DOMAIN sim.stack : sim.stack[i] = a

\* The node before a in the list: what --it yields for an iterator at a.
Prev(sim, a) == sim.stack[Position(sim, a) - 1]

\* splice() of the node at position p to the front of the list.
SpliceToFront(s, p) ==
  [i \in DOMAIN s |-> IF i = 1 THEN s[p] ELSE IF i <= p THEN s[i - 1] ELSE s[i]]

\* The iterators of buckets 1 .. topBucket after each was decremented.
Decremented(sim, topBucket) ==
  [b \in Buckets |-> IF b \in 1 .. topBucket
                     THEN Prev(sim, sim.marker[b]) ELSE sim.marker[b]]

(***************************************************************************)
(* Every marker 1 .. topBucket moves one node towards the top, and the     *)
(* block it then points at enters the marker's bucket.                     *)
(***************************************************************************)
MoveMarkers(sim, topBucket) ==
  LET to == Decremented(sim, topBucket)
  IN  [sim EXCEPT
        !.marker = to,
        !.bucket = [a \in Blocks |->
                     @[a] + Cardinality({b \in 1 .. topBucket : to[b] = a})]]

\* The bottom of the stack becomes the first block of the next bucket.
OnNextBucketGetsActive(sim) ==
  LET bottom == sim.stack[Len(sim.stack)]
  IN  [sim EXCEPT
        !.marker      = [@ EXCEPT ![sim.next_bucket] = bottom],
        !.bucket      = [@ EXCEPT ![bottom] = sim.bucket[bottom] + 1],
        !.next_bucket = @ + 1]

PushFront(sim, a) ==
  [sim EXCEPT !.stack = <<a>> \o @, !.bucket = [@ EXCEPT ![a] = 0]]

\* Mutant of OnBlockNew: without the test for BUCKET_INF_DIST.
OnBlockNewPastInfinity(sim, a) ==
  LET moved == MoveMarkers(PushFront(sim, a), sim.next_bucket - 1)
  IN  IF Len(moved.stack) > mins(moved.next_bucket)
      THEN OnNextBucketGetsActive(moved) ELSE moved

\* Mutant of OnBlockNew: the next bucket gets active one block early.
OnBlockNewEarly(sim, a) ==
  LET moved == MoveMarkers(PushFront(sim, a), sim.next_bucket - 1)
      next  == mins(moved.next_bucket)
  IN  IF next # BUCKET_INF_DIST /\ Len(moved.stack) >= next
      THEN OnNextBucketGetsActive(moved) ELSE moved

\* A block this simulation has not seen.
OnBlockNew(sim, a) ==
  LET moved == MoveMarkers(PushFront(sim, a), sim.next_bucket - 1)
      next  == mins(moved.next_bucket)
  IN  IF next # BUCKET_INF_DIST /\ Len(moved.stack) > next
      THEN OnNextBucketGetsActive(moved)
      ELSE moved

\* Mutant of SeenBucket: the bucket read after it was reset.
SeenBucketAfterReset(sim, a) == 0

\* The bucket on_block_seen returns ...
SeenBucket(sim, a) == IF sim.stack[1] = a THEN 0 ELSE sim.bucket[a]

\* Mutant of OnBlockSeen: the block keeps its old bucket.
OnBlockSeenNoReset(sim, a) ==
  IF sim.stack[1] = a THEN sim
  ELSE [MoveMarkers(sim, sim.bucket[a]) EXCEPT
          !.stack = SpliceToFront(@, Position(sim, a))]

\* Mutant of OnBlockSeen: the block is pushed again, not moved.
OnBlockSeenPushed(sim, a) ==
  IF sim.stack[1] = a THEN sim
  ELSE PushFront(MoveMarkers(sim, sim.bucket[a]), a)

\* ... and its effect: the markers above the block move, the block is on top.
OnBlockSeen(sim, a) ==
  IF sim.stack[1] = a THEN sim
  ELSE LET moved == MoveMarkers(sim, sim.bucket[a])
       IN  [moved EXCEPT
              !.stack  = SpliceToFront(@, Position(sim, a)),
              !.bucket = [@ EXCEPT ![a] = 0]]

IncrAccess(sim, b)     == [sim EXCEPT !.aCount      = [@ EXCEPT ![b] = sim.aCount[b] + 1]]
IncrAccessExcl(sim, b) == [sim EXCEPT !.aCount_excl = [@ EXCEPT ![b] = sim.aCount_excl[b] + 1]]

AddDatastruct(sim, d) == [sim EXCEPT !.ds_nums = Append(@, d)]
contains(sim, d)      == \E i \in DOMAIN sim.ds_nums : sim.ds_nums[i] = d

-----------------------------------------------------------------------------
(***************************************************************************)
(* What makes an object well formed, used by the modules that hold one.    *)
(***************************************************************************)
InStack(sim) == {sim.stack[i] : i \in DOMAIN sim.stack}

CacheSimType ==
  [ next_bucket : 1 .. InfBucket,
    complement  : Nat,
    ds_nums     : Seq(Nat),
    stack       : Seq(Blocks),
    bucket      : [Blocks -> Buckets],
    marker      : [Buckets -> Blocks \cup {Singular}],
    aCount      : [Buckets -> Nat],
    aCount_excl : [Buckets -> Nat] ]

NoDuplicates(sim) ==
  \A i, j \in DOMAIN sim.stack : sim.stack[i] = sim.stack[j] => i = j

\* The blocks used since the last use of a.
Above(sim, a) == {sim.stack[i] : i \in 1 .. Position(sim, a) - 1}

\* A bucket is active as soon as the stack is deeper than its minimum.
ActiveBuckets(sim) ==
  \A b \in 1 .. InfBucket - 1 : b < sim.next_bucket <=> Len(sim.stack) > mins(b)

\* The marker of an active bucket is at the bucket's minimum depth.
MarkersAtMins(sim) ==
  \A b \in 1 .. sim.next_bucket - 1 :
    /\ mins(b) < Len(sim.stack)
    /\ sim.marker[b] = sim.stack[mins(b) + 1]

\* Distance d (blocks above) belongs to bucket b.
InBucket(b, d) ==
  /\ b \in 0 .. InfBucket - 1
  /\ mins(b) <= d
  /\ b + 1 < InfBucket => d < mins(b + 1)

\* Every block carries the bucket its depth belongs to.
BucketsMatchDepth(sim) ==
  \A i \in DOMAIN sim.stack : InBucket(sim.bucket[sim.stack[i]], i - 1)

WellFormed(sim) ==
  /\ sim \in CacheSimType
  /\ NoDuplicates(sim)
  /\ ActiveBuckets(sim)
  /\ MarkersAtMins(sim)
  /\ BucketsMatchDepth(sim)
=============================================================================
