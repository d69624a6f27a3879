----------------------------- MODULE RoundRobin -----------------------------
(***************************************************************************)
(* What RRlock promises, without nodes and links: the threads that were    *)
(* added take turns in a fixed cyclic order, and only the thread whose     *)
(* turn it is may be inside.  A thread that is added comes right after the *)
(* first one.                                                              *)
(***************************************************************************)
EXTENDS Naturals, Sequences

CONSTANTS Threads, NoThread

VARIABLES
  order,    \* the cyclic order, as a sequence that starts with the first thread
  turn,     \* whose turn it is
  inside    \* the threads that hold the lock

vars == <<order, turn, inside>>

Members == {order[i] : i \in DOMAIN order}

\* The thread after t in the cyclic order.
Successor(t) ==
  LET i == CHOOSE j \in DOMAIN order : order[j] = t
  IN  order[(i % Len(order)) + 1]

Init ==
  /\ order = << >>
  /\ turn = NoThread
  /\ inside = {}

\* The first thread has the turn at once.
JoinFirst(t) ==
  /\ order = << >>
  /\ order' = <<t>>
  /\ turn' = t
  /\ UNCHANGED inside

Join(t) ==
  /\ order # << >>
  /\ t \notin Members
  /\ order' = <<Head(order), t>> \o Tail(order)
  /\ UNCHANGED <<turn, inside>>

Enter(t) ==
  /\ turn = t
  /\ t \notin inside
  /\ inside' = inside \cup {t}
  /\ UNCHANGED <<order, turn>>

Leave(t) ==
  /\ t \in inside
  /\ inside' = inside \ {t}
  /\ turn' = Successor(t)
  /\ UNCHANGED order

Next == \E t \in Threads : JoinFirst(t) \/ Join(t) \/ Enter(t) \/ Leave(t)

Spec == Init /\ [][Next]_vars
=============================================================================
