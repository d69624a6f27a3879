--------------------------- MODULE ReuseDistance ----------------------------
(***************************************************************************)
(* What a stack reuse distance histogram is, without a stack.  The reuse   *)
(* distance of an access to block a is the number of different blocks      *)
(* accessed since the last access to a; the first access to a has an       *)
(* infinite distance.  hist counts the accesses per distance bucket        *)
(* (pindist/dist.h: "run stack simulation", "get resulting histogram").    *)
(***************************************************************************)
EXTENDS Integers, Sequences, FiniteSets

CONSTANTS Blocks, Mins

VARIABLES
  known,   \* the blocks accessed so far
  since,   \* since[a]: the blocks accessed after the last access to a
  hist     \* hist[b]: number of accesses whose distance is in bucket b

vars == <<known, since, hist>>

Infinite == Len(Mins) - 1

\* The finite bucket that distance d falls into: the last one it reaches.
BucketOf(d) ==
  CHOOSE b \in 0 .. Infinite - 1 :
    /\ Mins[b + 1] <= d
    /\ b + 1 < Infinite => d < Mins[b + 2]

Distance(a) == Cardinality(since[a])

Init ==
  /\ known = {}
  /\ since = [a \in Blocks |-> {}]
  /\ hist  = [b \in 0 .. Infinite |-> 0]

Touch(a) ==
  /\ known' = known \cup {a}
  /\ since' = [x \in Blocks |-> IF x \in known \ {a} THEN since[x] \cup {a} ELSE {}]

ColdAccess(a) ==
  /\ a \notin known
  /\ hist' = [hist EXCEPT ![Infinite] = @ + 1]
  /\ Touch(a)

Reuse(a) ==
  /\ a \in known
  /\ hist' = [hist EXCEPT ![BucketOf(Distance(a))] = @ + 1]
  /\ Touch(a)

Next == \E a \in Blocks : ColdAccess(a) \/ Reuse(a)

Spec == Init /\ [][Next]_vars
=============================================================================
