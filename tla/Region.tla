------------------------------- MODULE Region -------------------------------
(***************************************************************************)
(* The class Region of pindist/region.{h,cpp}: between the outermost start *)
(* and stop of a region it accumulates what every CacheSim counted.  Like  *)
(* CacheSim, the module has no variables: a method is an operator from the *)
(* record (and the vector of simulations, index |-> CacheSim) before the   *)
(* call to the record after it.                                            *)
(*                                                                         *)
(* The two loops of the code run over all simulations and index the        *)
(* vectors of the region by simulation; here they run over the vectors.    *)
(* Dist's invariant RegionsCoverCachesims is that it is the same: where it *)
(* fails the code indexes past the end and nothing more is modelled.       *)
(***************************************************************************)
EXTENDS CacheSim

CONSTANT UnsignedRange   \* the number of values of an unsigned int

ASSUME UnsignedRangeAssumption == UnsignedRange \in Nat /\ UnsignedRange >= 2

\* A std::vector is a function on 0 .. size() - 1.
SizeOf(v)      == Cardinality(DOMAIN v)
PushBack(v, x) == [i \in 0 .. SizeOf(v) |-> IF i = SizeOf(v) THEN x ELSE v[i]]

\* The two counters of every bucket of one simulation (a vector<Bucket>).
Counts(sim) == [aCount |-> sim.aCount, aCount_excl |-> sim.aCount_excl]
ZeroCounts  == [aCount      |-> [b \in Buckets |-> 0],
                aCount_excl |-> [b \in Buckets |-> 0]]

\* Bucket::add_sub for every bucket of a simulation.
AddSub(acc, add, sub) ==
  [f \in DOMAIN acc |-> [b \in Buckets |-> acc[f][b] + (add[f][b] - sub[f][b])]]

NewRegion(sims) ==
  [ count         |-> 0,
    buckets       |-> [k \in DOMAIN sims |-> ZeroCounts],
    buckets_entry |-> [k \in DOMAIN sims |-> ZeroCounts] ]

\* Room for one more simulation.
RegisterDatastructInRegion(r) ==
  [r EXCEPT !.buckets = PushBack(@, ZeroCounts), !.buckets_entry = PushBack(@, ZeroCounts)]

\* Mutant of OnRegionEntry: every start takes the snapshot.
OnRegionEntryAlways(r, sims) ==
  [r EXCEPT !.count = (@ + 1) % UnsignedRange,
            !.buckets_entry = [k \in DOMAIN @ |-> Counts(sims[k])]]

\* The snapshot is taken by the outermost start only.
OnRegionEntry(r, sims) ==
  LET count == (r.count + 1) % UnsignedRange
  IN  IF count > 1
      THEN [r EXCEPT !.count = count]
      ELSE [r EXCEPT !.count = count,
                     !.buckets_entry = [k \in DOMAIN @ |-> Counts(sims[k])]]

\* Mutant of OnRegionExit: count_ is signed, and a stop without a start
\* accumulates.
OnRegionExitSigned(r, sims) ==
  LET count == (r.count - 1) % UnsignedRange
  IN  IF count \in 1 .. UnsignedRange \div 2
      THEN [r EXCEPT !.count = count]
      ELSE [r EXCEPT !.count = count,
                     !.buckets = [k \in DOMAIN @ |->
                       AddSub(@[k], Counts(sims[k]), r.buckets_entry[k])]]

\* The outermost stop accumulates what was counted since the snapshot.
OnRegionExit(r, sims) ==
  LET count == (r.count - 1) % UnsignedRange
  IN  IF count > 0
      THEN [r EXCEPT !.count = count]
      ELSE [r EXCEPT !.count = count,
                     !.buckets = [k \in DOMAIN @ |->
                       AddSub(@[k], Counts(sims[k]), r.buckets_entry[k])]]
=============================================================================
