---------------------------- MODULE BucketBounds ----------------------------
(***************************************************************************)
(* The list Bucket::mins that main() of pindist builds before it starts    *)
(* the program: the distances, in blocks, at which a cache with one more   *)
(* way would hit.                                                          *)
(***************************************************************************)
EXTENDS MemBlocks, Sequences

KiB == 1024
MiB == 1024 * KiB

L1d_capacity_per_way == (64 * KiB) \div 4
L2_capacity_per_way  == (8 * MiB) \div 16

\* What the calls of push_back() divide by MEMBLOCKLEN, in their order: a
\* KiB, the ways of the L1d cache, half a MiB and every second way of L2.
Capacities ==
  [i \in 1 .. 14 |->
    CASE i = 1       -> KiB
      [] i \in 2 .. 5  -> L1d_capacity_per_way * (i - 1)
      [] i = 6       -> MiB \div 2
      [] i \in 7 .. 14 -> L2_capacity_per_way * (2 * (i - 6))]

\* Bucket::mins, from 0 to BUCKET_INF_DIST.
MainMins == [n \in 1 .. 16 |-> IF n \in 2 .. 15 THEN Capacities[n - 1] \div MEMBLOCKLEN ELSE 0]

\* Exit() makes the last one the largest number, UINT_MAX, before it prints.
ExitMins(UINT_MAX) == [MainMins EXCEPT ![16] = UINT_MAX]
=============================================================================
