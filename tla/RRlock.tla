------------------------------- MODULE RRlock -------------------------------
(***************************************************************************)
(* The round robin lock of pindist/rrlock.{h,cpp} (RD_ROUND_ROBIN) and the *)
(* thread callbacks of pindist.cpp that add threads to it.  The nodes form *)
(* a ring; the thread whose node has turn_ = 1 may go, and unlock() gives  *)
(* the turn to the next node.  Each action is one atomic operation on      *)
(* memory other threads access.  A thread has one node, so the thread      *)
(* itself stands for its node.                                             *)
(***************************************************************************)
EXTENDS Integers, FiniteSets

CONSTANTS
  Threads,     \* Pin thread ids, fewer than MAX_THREADS
  Main,        \* the thread that runs main()
  Finishing,   \* threads that may finish before main() returns
  NULL

VARIABLES
  head_, tail_,    \* the node added last, the node added first
  next_, turn_,    \* the members of each node
  rr_mutex,        \* who holds PIN_MUTEX rr_mutex
  num_threads, g_max_threads,
  g_main_exit,
  node,            \* the node pointer a thread has in a local variable
  pc               \* where a thread is

vars == <<head_, tail_, next_, turn_, rr_mutex, num_threads, g_max_threads,
          g_main_exit, node, pc>>

ring    == <<head_, tail_, next_, turn_>>
threads == <<rr_mutex, num_threads, g_max_threads>>

ASSUME ThreadsAssumption ==
  /\ IsFiniteSet(Threads)
  /\ Main \in Threads
  /\ Finishing \subseteq Threads \ {Main}
  /\ NULL \notin Threads

AddingFirst == {"self_next", "set_tail", "take_turn"}
Adding      == AddingFirst \cup {"insert", "wait_tail", "swing", "link", "tail_link", "added"}
Places      == Adding \cup {"new", "run", "spin", "check", "inside", "load_next", "pass",
                            "fini", "finished"}

Goto(t, place) == pc' = [pc EXCEPT ![t] = place]

Init ==
  /\ head_ = NULL /\ tail_ = NULL
  /\ next_ = [t \in Threads |-> NULL]
  /\ turn_ = [t \in Threads |-> 0]
  /\ rr_mutex = NULL
  /\ num_threads = 0 /\ g_max_threads = 0
  /\ g_main_exit = FALSE
  /\ node = [t \in Threads |-> NULL]
  /\ pc = [t \in Threads |-> "new"]

-----------------------------------------------------------------------------
\* Mutant of ThreadStart: without PIN_MutexLock(&rr_mutex).
ThreadStartUnlocked(t) ==
  /\ pc[t] = "new"
  /\ rr_mutex' = t
  /\ num_threads' = num_threads + 1
  /\ g_max_threads' = IF num_threads' > g_max_threads THEN num_threads' ELSE g_max_threads
  /\ Goto(t, "insert")
  /\ UNCHANGED <<ring, g_main_exit, node>>

\* ThreadStart() up to the first atomic operation of add_thread().  The new
\* node is zero, and nodes_[tid] is read by its own thread only.
ThreadStart(t) ==
  /\ pc[t] = "new"
  /\ rr_mutex = NULL
  /\ rr_mutex' = t
  /\ num_threads' = num_threads + 1
  /\ g_max_threads' = IF num_threads' > g_max_threads THEN num_threads' ELSE g_max_threads
  /\ Goto(t, "insert")
  /\ UNCHANGED <<ring, g_main_exit, node>>

\* compare_exchange_strong(&head_, NULL, node): the first thread.
InsertFirst(t) ==
  /\ pc[t] = "insert"
  /\ head_ = NULL
  /\ head_' = t
  /\ Goto(t, "self_next")
  /\ UNCHANGED <<tail_, next_, turn_, threads, g_main_exit, node>>

SetSelfNext(t) ==
  /\ pc[t] = "self_next"
  /\ next_' = [next_ EXCEPT ![t] = t]
  /\ Goto(t, "set_tail")
  /\ UNCHANGED <<head_, tail_, turn_, threads, g_main_exit, node>>

SetTail(t) ==
  /\ pc[t] = "set_tail"
  /\ tail_' = t
  /\ Goto(t, "take_turn")
  /\ UNCHANGED <<head_, next_, turn_, threads, g_main_exit, node>>

TakeTurn(t) ==
  /\ pc[t] = "take_turn"
  /\ turn_' = [turn_ EXCEPT ![t] = 1]
  /\ Goto(t, "added")
  /\ UNCHANGED <<head_, tail_, next_, threads, g_main_exit, node>>

\* The exchange failed: oldhead is the head there is.
InsertLater(t) ==
  /\ pc[t] = "insert"
  /\ head_ # NULL
  /\ node' = [node EXCEPT ![t] = head_]
  /\ Goto(t, "wait_tail")
  /\ UNCHANGED <<ring, threads, g_main_exit>>

WaitTail(t) ==
  /\ pc[t] = "wait_tail"
  /\ tail_ # NULL
  /\ Goto(t, "swing")
  /\ UNCHANGED <<ring, threads, g_main_exit, node>>

\* compare_exchange_weak(&head_, oldhead, node), oldhead reloaded if it fails.
SwingHead(t) ==
  /\ pc[t] = "swing"
  /\ IF head_ = node[t]
     THEN head_' = t /\ Goto(t, "link") /\ UNCHANGED node
     ELSE node' = [node EXCEPT ![t] = head_] /\ UNCHANGED <<head_, pc>>
  /\ UNCHANGED <<tail_, next_, turn_, threads, g_main_exit>>

LinkOldHead(t) ==
  /\ pc[t] = "link"
  /\ next_' = [next_ EXCEPT ![t] = node[t]]
  /\ Goto(t, "tail_link")
  /\ UNCHANGED <<head_, tail_, turn_, threads, g_main_exit, node>>

\* Mutant of LinkTail: the node is not linked from the tail.
LinkTailNot(t) ==
  /\ pc[t] = "tail_link"
  /\ Goto(t, "added")
  /\ UNCHANGED <<ring, threads, g_main_exit, node>>

\* The tail is the first thread for good, so its load is not a step of its own.
LinkTail(t) ==
  /\ pc[t] = "tail_link"
  /\ next_' = [next_ EXCEPT ![tail_] = t]
  /\ Goto(t, "added")
  /\ UNCHANGED <<head_, tail_, turn_, threads, g_main_exit, node>>

\* PIN_MutexUnlock(&rr_mutex) at the end of ThreadStart().
ThreadStarted(t) ==
  /\ pc[t] = "added"
  /\ rr_mutex' = NULL
  /\ Goto(t, "run")
  /\ UNCHANGED <<ring, num_threads, g_max_threads, g_main_exit, node>>

-----------------------------------------------------------------------------
\* The program accesses memory: lock(), or tick() for a filtered access.
StartAccess(t) ==
  /\ pc[t] = "run"
  /\ Goto(t, "spin")
  /\ UNCHANGED <<ring, threads, g_main_exit, node>>

\* One round of the loop of lock(): first turn_ ...
ReadTurn(t) ==
  /\ pc[t] = "spin"
  /\ Goto(t, IF turn_[t] = 1 THEN "inside" ELSE "check")
  /\ UNCHANGED <<ring, threads, g_main_exit, node>>

\* Mutant of CheckExit: the loop does not look at g_main_exit.
CheckExitNot(t) ==
  /\ pc[t] = "check"
  /\ Goto(t, "spin")
  /\ UNCHANGED <<ring, threads, g_main_exit, node>>

\* Mutant of CheckExit: the thread is taken off the count here and in ThreadFini().
CheckExitCounted(t) ==
  /\ pc[t] = "check"
  /\ Goto(t, IF g_main_exit THEN "fini" ELSE "spin")
  /\ num_threads' = IF g_main_exit THEN num_threads - 1 ELSE num_threads
  /\ UNCHANGED <<ring, rr_mutex, g_max_threads, g_main_exit, node>>

\* ... then g_main_exit: PIN_ExitThread() ends the thread.
CheckExit(t) ==
  /\ pc[t] = "check"
  /\ Goto(t, IF g_main_exit THEN "fini" ELSE "spin")
  /\ UNCHANGED <<ring, threads, g_main_exit, node>>

\* Mutant of ClearTurn: the turn is handed on and kept.
ClearTurnNot(t) ==
  /\ pc[t] = "inside"
  /\ Goto(t, "load_next")
  /\ UNCHANGED <<ring, threads, g_main_exit, node>>

\* The access is simulated; unlock() gives up the turn ...
ClearTurn(t) ==
  /\ pc[t] = "inside"
  /\ turn_' = [turn_ EXCEPT ![t] = 0]
  /\ Goto(t, "load_next")
  /\ UNCHANGED <<head_, tail_, next_, threads, g_main_exit, node>>

\* ... and finds the next node, which can change before ...
LoadNext(t) ==
  /\ pc[t] = "load_next"
  /\ node' = [node EXCEPT ![t] = next_[t]]
  /\ Goto(t, "pass")
  /\ UNCHANGED <<ring, threads, g_main_exit>>

\* ... the turn is stored there.
PassTurn(t) ==
  /\ pc[t] = "pass"
  /\ turn_' = [turn_ EXCEPT ![node[t]] = 1]
  /\ Goto(t, "run")
  /\ UNCHANGED <<head_, tail_, next_, threads, g_main_exit, node>>

\* The thread's function returns; remove_thread() leaves its node in the ring.
Finish(t) ==
  /\ pc[t] = "run"
  /\ t \in Finishing
  /\ Goto(t, "fini")
  /\ UNCHANGED <<ring, threads, g_main_exit, node>>

\* on_exit_main().  What the main thread accesses in exit() is not followed.
MainReturns ==
  /\ pc[Main] = "run"
  /\ g_main_exit' = TRUE
  /\ Goto(Main, "fini")
  /\ UNCHANGED <<ring, threads, node>>

\* ThreadFini(), with rr_mutex held around num_threads-- and remove_thread().
ThreadFini(t) ==
  /\ pc[t] = "fini"
  /\ rr_mutex = NULL
  /\ num_threads' = num_threads - 1
  /\ Goto(t, "finished")
  /\ UNCHANGED <<ring, rr_mutex, g_max_threads, g_main_exit, node>>

AddThread(t) ==
  \/ InsertFirst(t) \/ SetSelfNext(t) \/ SetTail(t) \/ TakeTurn(t)
  \/ InsertLater(t) \/ WaitTail(t) \/ SwingHead(t) \/ LinkOldHead(t) \/ LinkTail(t)
  \/ ThreadStarted(t)

Lock(t)   == ReadTurn(t) \/ CheckExit(t)
Unlock(t) == ClearTurn(t) \/ LoadNext(t) \/ PassTurn(t)

\* What thread t does once it was started.
Step(t) ==
  \/ AddThread(t) \/ StartAccess(t) \/ Lock(t) \/ Unlock(t)
  \/ Finish(t) \/ ThreadFini(t)

Next == MainReturns \/ \E t \in Threads : ThreadStart(t) \/ Step(t)

Spec == Init /\ [][Next]_vars

(***************************************************************************)
(* The operating system runs every thread, and a running thread accesses   *)
(* memory again and again, as OpenMP threads do also when they wait.       *)
(***************************************************************************)
Fairness == \A t \in Threads : WF_vars(Step(t))

FairSpec == Spec /\ Fairness

-----------------------------------------------------------------------------
\* Type invariant of the lock and the thread counters.
TypeOK ==
  /\ head_ \in Threads \cup {NULL}
  /\ tail_ \in Threads \cup {NULL}
  /\ next_ \in [Threads -> Threads \cup {NULL}]
  /\ turn_ \in [Threads -> {0, 1}]
  /\ rr_mutex \in Threads \cup {NULL}
  /\ num_threads \in 0 .. Cardinality(Threads)
  /\ g_max_threads \in 0 .. Cardinality(Threads)
  /\ g_main_exit \in BOOLEAN
  /\ node \in [Threads -> Threads \cup {NULL}]
  /\ pc \in [Threads -> Places]

(***************************************************************************)
(* "assert(threads == 1)" in memAccess(): lock() admits one thread at a    *)
(* time, whatever threads start, finish or are ended meanwhile.            *)
(***************************************************************************)
MutualExclusion ==
  \A t, u \in Threads : pc[t] = "inside" /\ pc[u] = "inside" => t = u

(***************************************************************************)
(* Every thread that waits in lock() gets its turn, or is ended because    *)
(* main() has returned, as long as no thread has come to its end.          *)
(***************************************************************************)
TurnComes ==
  \A t \in Threads :
    pc[t] = "spin" ~> \/ pc[t] \in {"inside", "fini"}
                      \/ \E u \in Threads : pc[u] \in {"fini", "finished"}

(***************************************************************************)
(* "set true -> gracefully leave the rrlock": once main() has returned,    *)
(* every thread comes to its end, whoever has the turn.                    *)
(***************************************************************************)
GracefulExit ==
  g_main_exit ~> \A t \in Threads : pc[t] \in {"new", "finished"}

-----------------------------------------------------------------------------
(***************************************************************************)
(* The ring implements turns in a cyclic order.  A thread is a member once *)
(* the links to it are complete; the order is read off the links, from the *)
(* first thread on; and between two stores of unlock() the turn is that of *)
(* the node that was loaded.                                               *)
(***************************************************************************)
Members == {t \in Threads : pc[t] \notin (Adding \ {"added"}) \cup {"new"}}

\* The first n threads of a ring.
RingFrom(first, links, n) ==
  LET Nth[i \in 1 .. n] == IF i = 1 THEN first ELSE links[Nth[i - 1]]
  IN  Nth

Order == RingFrom(tail_, next_, Cardinality(Members))

HasTurn(t) ==
  \/ turn_[t] = 1
  \/ pc[t] = "load_next"
  \/ \E u \in Threads : pc[u] = "pass" /\ node[u] = t

Turn == IF \E t \in Threads : HasTurn(t) THEN CHOOSE t \in Threads : HasTurn(t) ELSE NULL

RR == INSTANCE RoundRobin WITH
        NoThread <- NULL, order <- Order, turn <- Turn,
        inside <- {t \in Threads : pc[t] \in {"inside", "load_next"}}

(***************************************************************************)
(* Turns go round in the order of the ring, through every thread that was  *)
(* added and no other, while threads are being linked in.                  *)
(***************************************************************************)
TakesTurns == RR!Spec
=============================================================================
