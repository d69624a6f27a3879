---------------------------- MODULE RRlockProofs ----------------------------
(***************************************************************************)
(* Proofs about the round robin lock, for every finite set of threads.     *)
(***************************************************************************)
EXTENDS RRlock, FiniteSetTheorems, SequenceTheorems, WellFoundedInduction, TLAPS

\* The type invariant but for the two counters.
Typed ==
  /\ head_ \in Threads \cup {NULL}
  /\ tail_ \in Threads \cup {NULL}
  /\ next_ \in [Threads -> Threads \cup {NULL}]
  /\ turn_ \in [Threads -> {0, 1}]
  /\ rr_mutex \in Threads \cup {NULL}
  /\ g_main_exit \in BOOLEAN
  /\ node \in [Threads -> Threads \cup {NULL}]
  /\ pc \in [Threads -> Places]

\* The threads between their start and end callbacks.
Alive == {t \in Threads : pc[t] \notin {"new", "finished"}}

Counted ==
  /\ num_threads = Cardinality(Alive)
  /\ g_max_threads \in 0 .. Cardinality(Threads)

\* t may go in, or is handing the turn on, or is about to take the first turn.
Token(t) ==
  \/ turn_[t] = 1
  \/ pc[t] \in {"load_next", "pass"}
  \/ pc[t] \in AddingFirst

(***************************************************************************)
(* There is one token: it is created by the only thread that finds head_   *)
(* empty, and unlock() takes it away before it gives it to another.        *)
(***************************************************************************)
OneToken ==
  /\ \A t, u \in Threads : Token(t) /\ Token(u) => t = u
  /\ \A t \in Threads : pc[t] = "inside" => turn_[t] = 1
  /\ \A t \in Threads : pc[t] \in {"load_next", "pass"} => turn_[t] = 0
  /\ \A t \in Threads : Token(t) => head_ # NULL

IInv == Typed /\ Counted /\ OneToken

-----------------------------------------------------------------------------
(***************************************************************************)
(* The invariant holds before the first thread was started.                *)
(***************************************************************************)
LEMMA InitIInv == Init => IInv
<1> SUFFICES ASSUME Init PROVE IInv
  OBVIOUS
<1>1. Typed
  BY DEF Init, Typed, Places
<1>2. Counted
  <2>1. Alive = {}
    BY DEF Init, Alive
  <2>2. Cardinality(Threads) \in Nat
    BY ThreadsAssumption, FS_CardinalityType
  <2>. QED
    BY <2>1, <2>2, FS_EmptySet DEF Init, Counted
<1>3. OneToken
  BY DEF Init, OneToken, Token, AddingFirst
<1>. QED
  BY <1>1, <1>2, <1>3 DEF IInv

(***************************************************************************)
(* Every step of the lock and of the callbacks preserves the types.        *)
(***************************************************************************)
LEMMA TypedStep == Typed /\ [Next]_vars => Typed'
<1> SUFFICES ASSUME Typed, [Next]_vars PROVE Typed'
  OBVIOUS
<1> USE ThreadsAssumption DEF Typed, Goto, Places, Adding, AddingFirst, ring, threads
<1>1. ASSUME NEW t \in Threads, ThreadStart(t) PROVE Typed'
  BY <1>1 DEF ThreadStart
<1>2. ASSUME NEW t \in Threads, InsertFirst(t) \/ SetSelfNext(t) \/ SetTail(t) \/ TakeTurn(t)
      PROVE Typed'
  BY <1>2 DEF InsertFirst, SetSelfNext, SetTail, TakeTurn
<1>3. ASSUME NEW t \in Threads, InsertLater(t) \/ WaitTail(t) \/ SwingHead(t)
      PROVE Typed'
  BY <1>3 DEF InsertLater, WaitTail, SwingHead
<1>4. ASSUME NEW t \in Threads, LinkOldHead(t) \/ LinkTail(t) \/ ThreadStarted(t)
      PROVE Typed'
  BY <1>4 DEF LinkOldHead, LinkTail, ThreadStarted
<1>5. ASSUME NEW t \in Threads, StartAccess(t) \/ ReadTurn(t) \/ CheckExit(t)
      PROVE Typed'
  BY <1>5 DEF StartAccess, ReadTurn, CheckExit
<1>6. ASSUME NEW t \in Threads, ClearTurn(t) \/ LoadNext(t) \/ PassTurn(t)
      PROVE Typed'
  BY <1>6 DEF ClearTurn, LoadNext, PassTurn
<1>7. ASSUME NEW t \in Threads, Finish(t) \/ ThreadFini(t)
      PROVE Typed'
  BY <1>7 DEF Finish, ThreadFini
<1>8. ASSUME MainReturns PROVE Typed'
  BY <1>8 DEF MainReturns
<1>9. CASE UNCHANGED vars
  BY <1>9 DEF vars
<1>. QED
  BY <1>1, <1>2, <1>3, <1>4, <1>5, <1>6, <1>7, <1>8, <1>9
     DEF Next, Step, AddThread, Lock, Unlock

(***************************************************************************)
(* A step within the life of a thread does not change who is alive.        *)
(***************************************************************************)
LEMMA SameAlive ==
  ASSUME Typed, NEW t \in Threads, NEW place \in Places,
         pc[t] \notin {"new", "finished"}, place \notin {"new", "finished"},
         pc' = [pc EXCEPT ![t] = place]
  PROVE  Alive' = Alive
  BY DEF Typed, Alive

(***************************************************************************)
(* num_threads is the number of threads between ThreadStart() and the end  *)
(* of ThreadFini(), and g_max_threads never exceeds the number of threads. *)
(***************************************************************************)
LEMMA CountedStep == Typed /\ Counted /\ [Next]_vars => Counted'
<1> SUFFICES ASSUME Typed, Counted, [Next]_vars PROVE Counted'
  OBVIOUS
<1>a. Cardinality(Threads) \in Nat
  BY ThreadsAssumption, FS_CardinalityType
<1>b. Alive \subseteq Threads /\ IsFiniteSet(Alive)
  BY ThreadsAssumption, FS_Subset DEF Alive
<1>c. num_threads \in Nat /\ g_max_threads \in 0 .. Cardinality(Threads)
  BY <1>b, FS_CardinalityType DEF Counted
<1>1. ASSUME NEW t \in Threads, ThreadStart(t) PROVE Counted'
  <2>1. t \notin Alive /\ Alive' = Alive \cup {t}
    BY <1>1 DEF ThreadStart, Goto, Typed, Alive
  <2>2. Cardinality(Alive') = num_threads + 1
    BY <2>1, <1>b, FS_AddElement DEF Counted
  <2>3. Alive' \subseteq Threads
    BY <2>1, <1>b
  <2>4. Cardinality(Alive') <= Cardinality(Threads)
    BY <2>3, ThreadsAssumption, FS_Subset
  <2>5. num_threads' = num_threads + 1
    BY <1>1 DEF ThreadStart
  <2>6. g_max_threads' \in {num_threads', g_max_threads}
    BY <1>1 DEF ThreadStart
  <2>. QED
    BY <2>2, <2>4, <2>5, <2>6, <1>a, <1>c DEF Counted
<1>2. ASSUME NEW t \in Threads, ThreadFini(t) PROVE Counted'
  <2>1. t \in Alive /\ Alive' = Alive \ {t}
    BY <1>2 DEF ThreadFini, Goto, Typed, Alive
  <2>2. Cardinality(Alive') = num_threads - 1
    BY <2>1, <1>b, FS_RemoveElement DEF Counted
  <2>. QED
    BY <1>2, <2>2 DEF ThreadFini, Counted
<1>3. ASSUME NEW t \in Threads, AddThread(t) \/ StartAccess(t) \/ Lock(t) \/ Unlock(t) \/ Finish(t)
      PROVE Counted'
  <2>1. Alive' = Alive
    BY <1>3, SameAlive
       DEF AddThread, InsertFirst, SetSelfNext, SetTail, TakeTurn, InsertLater, WaitTail,
           SwingHead, LinkOldHead, LinkTail, ThreadStarted, StartAccess, Lock, ReadTurn,
           CheckExit, Unlock, ClearTurn, LoadNext, PassTurn, Finish, Goto, Places, Adding,
           AddingFirst, Alive
  <2>2. UNCHANGED <<num_threads, g_max_threads>>
    BY <1>3
       DEF AddThread, InsertFirst, SetSelfNext, SetTail, TakeTurn, InsertLater, WaitTail,
           SwingHead, LinkOldHead, LinkTail, ThreadStarted, StartAccess, Lock, ReadTurn,
           CheckExit, Unlock, ClearTurn, LoadNext, PassTurn, Finish, threads
  <2>. QED
    BY <2>1, <2>2 DEF Counted
<1>4. ASSUME MainReturns PROVE Counted'
  <2>1. Alive' = Alive
    BY <1>4, SameAlive, ThreadsAssumption DEF MainReturns, Goto, Places
  <2>. QED
    BY <1>4, <2>1 DEF MainReturns, Counted, threads
<1>5. CASE UNCHANGED vars
  BY <1>5 DEF vars, Counted, Alive
<1>. QED
  BY <1>1, <1>2, <1>3, <1>4, <1>5 DEF Next, Step

(***************************************************************************)
(* Every step keeps the token unique.                                      *)
(***************************************************************************)
LEMMA OneTokenStep == Typed /\ OneToken /\ [Next]_vars => OneToken'
<1> SUFFICES ASSUME Typed, OneToken, [Next]_vars PROVE OneToken'
  OBVIOUS
<1> USE ThreadsAssumption DEF Typed, OneToken, Token, Goto, AddingFirst, ring, threads
<1>1. ASSUME NEW t \in Threads, ThreadStart(t) PROVE OneToken'
  BY <1>1 DEF ThreadStart
<1>2. ASSUME NEW t \in Threads, InsertFirst(t) PROVE OneToken'
  BY <1>2 DEF InsertFirst
<1>3. ASSUME NEW t \in Threads, SetSelfNext(t) \/ SetTail(t) \/ TakeTurn(t) PROVE OneToken'
  BY <1>3 DEF SetSelfNext, SetTail, TakeTurn
<1>4. ASSUME NEW t \in Threads, InsertLater(t) \/ WaitTail(t) \/ SwingHead(t)
      PROVE OneToken'
  BY <1>4 DEF InsertLater, WaitTail, SwingHead
<1>5. ASSUME NEW t \in Threads, LinkOldHead(t) \/ LinkTail(t) \/ ThreadStarted(t)
      PROVE OneToken'
  BY <1>5 DEF LinkOldHead, LinkTail, ThreadStarted
<1>6. ASSUME NEW t \in Threads, StartAccess(t) \/ ReadTurn(t) \/ CheckExit(t)
      PROVE OneToken'
  BY <1>6 DEF StartAccess, ReadTurn, CheckExit
<1>7. ASSUME NEW t \in Threads, ClearTurn(t) PROVE OneToken'
  BY <1>7 DEF ClearTurn
<1>8. ASSUME NEW t \in Threads, LoadNext(t) PROVE OneToken'
  BY <1>8 DEF LoadNext
<1>9. ASSUME NEW t \in Threads, PassTurn(t) PROVE OneToken'
  BY <1>9 DEF PassTurn
<1>10. ASSUME NEW t \in Threads, Finish(t) \/ ThreadFini(t) PROVE OneToken'
  BY <1>10 DEF Finish, ThreadFini
<1>11. ASSUME MainReturns PROVE OneToken'
  BY <1>11 DEF MainReturns
<1>12. CASE UNCHANGED vars
  BY <1>12 DEF vars
<1>. QED
  BY <1>1, <1>2, <1>3, <1>4, <1>5, <1>6, <1>7, <1>8, <1>9, <1>10, <1>11, <1>12
     DEF Next, Step, AddThread, Lock, Unlock

(***************************************************************************)
(* IInv holds in every reachable state.                                    *)
(***************************************************************************)
THEOREM Invariant == Spec => []IInv
<1>1. IInv /\ [Next]_vars => IInv'
  BY TypedStep, CountedStep, OneTokenStep DEF IInv
<1>. QED
  BY InitIInv, <1>1, PTL DEF Spec

(***************************************************************************)
(* TypeOK, with the thread counters within the number of threads.          *)
(***************************************************************************)
THEOREM TypeCorrect == Spec => []TypeOK
<1>1. IInv => TypeOK
  <2> SUFFICES ASSUME IInv PROVE TypeOK
    OBVIOUS
  <2>1. num_threads \in 0 .. Cardinality(Threads)
    <3>1. Alive \subseteq Threads
      BY DEF Alive
    <3>2. /\ Cardinality(Threads) \in Nat
          /\ Cardinality(Alive) \in Nat
          /\ Cardinality(Alive) <= Cardinality(Threads)
      BY <3>1, ThreadsAssumption, FS_Subset, FS_CardinalityType
    <3>. QED
      BY <3>2 DEF IInv, Counted
  <2>. QED
    BY <2>1 DEF IInv, Typed, Counted, TypeOK
<1>. QED
  BY Invariant, <1>1, PTL

(***************************************************************************)
(* The assertion threads == 1 of memAccess(): the round robin lock is a    *)
(* lock, for any number of threads.                                        *)
(***************************************************************************)
THEOREM Exclusion == Spec => []MutualExclusion
<1>1. IInv => MutualExclusion
  BY DEF IInv, OneToken, Token, MutualExclusion
<1>. QED
  BY Invariant, <1>1, PTL

-----------------------------------------------------------------------------
\* Induction over the natural numbers, stated with a set.
LEMMA Induction ==
  ASSUME NEW S \in SUBSET Nat, 0 \in S, \A n \in S : n + 1 \in S
  PROVE  S = Nat
<1> DEFINE Less == OpToRel(<, Nat)
           Rest == Nat \ S
<1>1. IsWellFoundedOn(Less, Nat)
  BY NatLessThanWellFounded, Zenon
<1>2. \A x, y \in Nat : y < x => << y, x >> \in Less
  BY DEF OpToRel
<1> HIDE DEF Less
<1>3. CASE Rest # {}
  <2>1. PICK x \in Rest : \A y \in Rest : ~ (<< y, x >> \in Less)
    BY <1>1, <1>3, WFMin, Zenon
  <2>2. x \in Nat /\ x \notin S /\ x # 0
    OBVIOUS
  <2>3. x - 1 \in Nat /\ x - 1 < x /\ (x - 1) + 1 = x
    BY <2>2
  <2>4. x - 1 \notin S
    BY <2>2, <2>3
  <2> QED
    BY <1>2, <2>1, <2>2, <2>3, <2>4
<1> QED
  BY <1>3

\* s lists M in the order of a ring of n nodes that starts with first.
IsRing(s, n, M, links, first) ==
  /\ n \in Nat \ {0} /\ Cardinality(M) = n
  /\ s \in [1 .. n -> M]
  /\ \A m \in M : \E i \in 1 .. n : s[i] = m
  /\ \A i, j \in 1 .. n : s[i] = s[j] => i = j
  /\ s[1] = first
  /\ \A i \in 1 .. n : links[s[i]] = IF i = n THEN first ELSE s[i + 1]

\* r is the function RingFrom() is defined by.
Follows(r, first, links, n) ==
  r = [i \in 1 .. n |-> IF i = 1 THEN first ELSE links[r[i - 1]]]

(***************************************************************************)
(* The order that is read off the links is that of the ring.               *)
(***************************************************************************)
LEMMA RingIsOrder ==
  ASSUME NEW s, NEW n, NEW M, NEW links, NEW first, IsRing(s, n, M, links, first)
  PROVE  RingFrom(first, links, n) = s
<1>1. n \in Nat \ {0} /\ s = [i \in 1 .. n |-> s[i]]
  BY DEF IsRing
<1>2. ASSUME NEW i \in 1 .. n
      PROVE  s[i] = IF i = 1 THEN first ELSE links[s[i - 1]]
  <2>1. CASE i = 1
    BY <2>1 DEF IsRing
  <2>2. CASE i # 1
    <3>1. i - 1 \in 1 .. n /\ i - 1 # n /\ (i - 1) + 1 = i
      BY <1>1, <2>2
    <3> QED
      BY <2>2, <3>1 DEF IsRing
  <2> QED
    BY <2>1, <2>2
<1>3. Follows(s, first, links, n)
  BY <1>1, <1>2 DEF Follows
<1>4. ASSUME NEW r, Follows(r, first, links, n)
      PROVE  r = s
  <2>1. /\ r = [i \in 1 .. n |-> r[i]]
        /\ \A i \in 1 .. n : r[i] = IF i = 1 THEN first ELSE links[r[i - 1]]
    BY <1>4 DEF Follows
  <2>2. PICK S : S = {m \in Nat : m + 1 <= n => r[m + 1] = s[m + 1]}
    OBVIOUS
  <2>3. 0 \in S
    <3>1. 0 + 1 = 1 /\ 1 \in 1 .. n
      BY <1>1
    <3> QED
      BY <1>2, <2>1, <2>2, <3>1
  <2>4. ASSUME NEW m \in S
        PROVE  m + 1 \in S
    <3>1. m \in Nat /\ (m + 1 <= n => r[m + 1] = s[m + 1])
      BY <2>2
    <3>2. ASSUME (m + 1) + 1 <= n
          PROVE  r[(m + 1) + 1] = s[(m + 1) + 1]
      <4>1. PICK k \in 1 .. n : k = (m + 1) + 1
        BY <1>1, <3>1, <3>2
      <4>2. k # 1 /\ k - 1 = m + 1 /\ m + 1 <= n
        BY <1>1, <3>1, <4>1
      <4>3. r[k] = links[r[k - 1]] /\ s[k] = links[s[k - 1]]
        BY <1>2, <2>1, <4>2
      <4> QED
        BY <3>1, <4>1, <4>2, <4>3
    <3> QED
      BY <2>2, <3>1, <3>2
  <2>5. S = Nat
    <3>1. S \in SUBSET Nat
      BY <2>2
    <3> QED
      BY <2>3, <2>4, <3>1, Induction
  <2>6. ASSUME NEW i \in 1 .. n
        PROVE  r[i] = s[i]
    <3>1. i - 1 \in S /\ i - 1 \in Nat /\ (i - 1) + 1 = i /\ i <= n
      BY <1>1, <2>5
    <3> QED
      BY <2>2, <3>1
  <2> QED
    BY <1>1, <2>1, <2>6
<1>5. RingFrom(first, links, n) = CHOOSE r : Follows(r, first, links, n)
  BY DEF RingFrom, Follows
<1> QED
  BY <1>3, <1>4, <1>5

\* Of no threads there is no order.
LEMMA EmptyRing ==
  ASSUME NEW links, NEW first
  PROVE  RingFrom(first, links, 0) = << >>
<1>1. RingFrom(first, links, 0) = CHOOSE r : Follows(r, first, links, 0)
  BY DEF RingFrom, Follows
<1>2. \A r : Follows(r, first, links, 0) <=> r = << >>
  BY DEF Follows
<1> QED
  BY <1>1, <1>2

\* s with t put in after the first element.
Joined(s, n, t) ==
  [i \in 1 .. n + 1 |-> IF i = 1 THEN s[1] ELSE IF i = 2 THEN t ELSE s[i - 1]]

(***************************************************************************)
(* A node that is linked to the second one, and from the first one, is in  *)
(* the ring.                                                               *)
(***************************************************************************)
LEMMA RingGrows ==
  ASSUME NEW s, NEW n, NEW M, NEW links, NEW first, IsRing(s, n, M, links, first),
         IsFiniteSet(M), NEW t, t \notin M, links[t] = links[first],
         NEW newlinks,
         newlinks[first] = t, \A m \in (M \cup {t}) \ {first} : newlinks[m] = links[m]
  PROVE  IsRing(Joined(s, n, t), n + 1, M \cup {t}, newlinks, first)
<1>1. PICK r : r = Joined(s, n, t)
  OBVIOUS
<1>2. /\ n \in Nat \ {0} /\ Cardinality(M) = n /\ s \in [1 .. n -> M] /\ first \in M
      /\ s[1] = first
  BY DEF IsRing
<1>3. n + 1 \in Nat \ {0} /\ Cardinality(M \cup {t}) = n + 1
  <2>1. Cardinality(M \cup {t}) = Cardinality(M) + 1
    BY FS_AddElement, Zenon
  <2> QED
    BY <1>2, <2>1
<1>4. /\ r[1] = first /\ r[2] = t
      /\ \A i \in 2 .. n : r[i + 1] = s[i]
      /\ DOMAIN r = 1 .. n + 1
      /\ r = [i \in 1 .. n + 1 |-> r[i]]
  BY <1>1, <1>2 DEF Joined
<1>5. \A i \in 1 .. n + 1 : i = 1 \/ i = 2 \/ (i - 1 \in 2 .. n /\ r[i] = s[i - 1])
  BY <1>1, <1>2 DEF Joined
<1>6. \A i \in 1 .. n + 1 : r[i] \in M \cup {t}
  BY <1>2, <1>4, <1>5
<1>7. \A i \in 2 .. n : s[i] # first /\ s[i] # t /\ s[i] \in M
  <2>1. \A i, j \in 1 .. n : s[i] = s[j] => i = j
    BY DEF IsRing
  <2> QED
    BY <1>2, <2>1
<1>8. ASSUME NEW i \in 1 .. n + 1, NEW j \in 1 .. n + 1, r[i] = r[j]
      PROVE  i = j
  <2>1. \A k, l \in 1 .. n : s[k] = s[l] => k = l
    BY DEF IsRing
  <2>2. CASE i \in {1, 2} \/ j \in {1, 2}
    BY <1>2, <1>4, <1>5, <1>7, <1>8, <2>2
  <2>3. CASE i \notin {1, 2} /\ j \notin {1, 2}
    <3>1. i - 1 \in 1 .. n /\ j - 1 \in 1 .. n /\ s[i - 1] = s[j - 1]
      BY <1>2, <1>5, <1>8, <2>3
    <3>2. i - 1 = j - 1
      BY <2>1, <3>1
    <3> QED
      BY <3>2
  <2> QED
    BY <2>2, <2>3
<1>9. ASSUME NEW m \in M \cup {t}
      PROVE  \E i \in 1 .. n + 1 : r[i] = m
  <2>1. 1 \in 1 .. n + 1 /\ 2 \in 1 .. n + 1
    BY <1>2
  <2>2. CASE m = t
    BY <1>4, <2>1, <2>2
  <2>3. CASE m # t
    <3>1. PICK i \in 1 .. n : s[i] = m
      BY <2>3 DEF IsRing
    <3>2. CASE i = 1
      BY <1>2, <1>4, <2>1, <3>1, <3>2
    <3>3. CASE i # 1
      <4>1. i \in 2 .. n /\ i + 1 \in 1 .. n + 1
        BY <1>2, <3>3
      <4> QED
        BY <1>4, <3>1, <4>1
    <3> QED
      BY <3>2, <3>3
  <2> QED
    BY <2>2, <2>3
<1>10. ASSUME NEW i \in 1 .. n + 1
       PROVE  newlinks[r[i]] = IF i = n + 1 THEN first ELSE r[i + 1]
  <2>1. \A k \in 1 .. n : links[s[k]] = IF k = n THEN first ELSE s[k + 1]
    BY DEF IsRing
  <2>2. CASE i = 1
    BY <1>2, <1>4, <2>2
  <2>3. CASE i = 2
    <3>1. newlinks[r[i]] = links[first]
      BY <1>2, <1>4, <2>3
    <3>2. 1 \in 1 .. n /\ (1 = n <=> i = n + 1)
      BY <1>2, <2>3
    <3>3. links[first] = IF i = n + 1 THEN first ELSE s[2]
      BY <1>2, <2>1, <3>2
    <3>4. i # n + 1 => 2 \in 2 .. n /\ 2 + 1 = 3
      BY <1>2, <2>3
    <3>5. i # n + 1 => r[3] = s[2]
      BY <1>4, <3>4
    <3> QED
      BY <2>3, <3>1, <3>3, <3>5
  <2>4. CASE i # 1 /\ i # 2
    <3>1. PICK k \in 2 .. n : k = i - 1 /\ r[i] = s[k]
      BY <1>5, <2>4
    <3>2. newlinks[r[i]] = links[s[k]]
      BY <1>7, <3>1
    <3>3. k \in 1 .. n /\ (k = n <=> i = n + 1)
      BY <1>2, <3>1
    <3>4. links[s[k]] = IF i = n + 1 THEN first ELSE s[k + 1]
      BY <2>1, <3>3
    <3>5. i # n + 1 => k + 1 \in 2 .. n /\ r[(k + 1) + 1] = s[k + 1] /\ (k + 1) + 1 = i + 1
      BY <1>2, <1>4, <3>1, <3>3
    <3> QED
      BY <3>2, <3>4, <3>5
  <2> QED
    BY <2>2, <2>3, <2>4
<1>11. r \in [1 .. n + 1 -> M \cup {t}]
  BY <1>4, <1>6
<1> QED
  BY <1>1, <1>3, <1>4, <1>8, <1>9, <1>10, <1>11 DEF IsRing

\* That sequence as RoundRobin writes it.
LEMMA JoinedSequence ==
  ASSUME NEW n \in Nat \ {0}, NEW M, NEW s \in [1 .. n -> M], NEW t
  PROVE  Joined(s, n, t) = << Head(s), t >> \o Tail(s)
<1>1. s \in Seq(M) /\ Len(s) = n
  OBVIOUS
<1>2. PICK U : U = M \cup {t}
  OBVIOUS
<1>3. << Head(s), t >> \in Seq(U) /\ Tail(s) \in Seq(U)
  BY <1>1, <1>2, HeadTailProperties
<1>4. /\ Len(Tail(s)) = n - 1 /\ Head(s) = s[1]
      /\ \A i \in 1 .. n - 1 : Tail(s)[i] = s[i + 1]
  BY <1>1, HeadTailProperties
<1>5. Len(<< Head(s), t >>) = 2 /\ << Head(s), t >>[1] = s[1] /\ << Head(s), t >>[2] = t
  BY <1>4
<1>6. PICK h : h = << Head(s), t >>
  OBVIOUS
<1>7. PICK l : l = Tail(s)
  OBVIOUS
<1>8. /\ h \o l \in Seq(U) /\ Len(h \o l) = Len(h) + Len(l)
      /\ \A i \in 1 .. Len(h) + Len(l) : (h \o l)[i] = IF i <= Len(h) THEN h[i] ELSE l[i - Len(h)]
  BY <1>3, <1>6, <1>7, ConcatProperties, Zenon
<1>9. Len(h) = 2 /\ Len(l) = n - 1 /\ Len(h) + Len(l) = n + 1
  BY <1>4, <1>5, <1>6, <1>7
<1>10. PICK c : c = h \o l
  OBVIOUS
<1>11. c \in Seq(U) /\ Len(c) = n + 1
  BY <1>8, <1>9, <1>10
<1>12. c = [i \in 1 .. n + 1 |-> c[i]]
  BY <1>11
<1>13. \A i \in 1 .. n + 1 : c[i] = IF i <= 2 THEN h[i] ELSE l[i - 2]
  BY <1>8, <1>9, <1>10
<1>14. \A i \in 1 .. n + 1 : c[i] = IF i = 1 THEN s[1] ELSE IF i = 2 THEN t ELSE s[i - 1]
  <2> TAKE i \in 1 .. n + 1
  <2>1. CASE i \in {1, 2}
    BY <1>5, <1>6, <1>13, <2>1
  <2>2. CASE i \notin {1, 2}
    <3>1. i - 2 \in 1 .. n - 1 /\ (i - 2) + 1 = i - 1
      BY <2>2
    <3> QED
      BY <1>4, <1>7, <1>13, <2>2, <3>1
  <2> QED
    BY <2>1, <2>2
<1> QED
  BY <1>6, <1>7, <1>10, <1>12, <1>14 DEF Joined

\* The successor in the order is where the link leads.
LEMMA RingSuccessor ==
  ASSUME NEW s, NEW n, NEW M, NEW links, NEW first, IsRing(s, n, M, links, first),
         NEW m \in M
  PROVE  s[((CHOOSE j \in DOMAIN s : s[j] = m) % Len(s)) + 1] = links[m]
<1>1. n \in Nat \ {0} /\ s \in [1 .. n -> M] /\ DOMAIN s = 1 .. n /\ s[1] = first
  BY DEF IsRing
<1>2. Len(s) = n
  BY <1>1
<1>3. PICK i \in 1 .. n : s[i] = m
  BY DEF IsRing
<1>4. \A j \in 1 .. n : s[j] = m => j = i
  BY <1>3 DEF IsRing
<1>5. (CHOOSE j \in DOMAIN s : s[j] = m) = i
  BY <1>1, <1>3, <1>4
<1>6. links[m] = IF i = n THEN first ELSE s[i + 1]
  BY <1>3 DEF IsRing
<1>7. CASE i = n
  <2>1. i % n = 0
    BY <1>1, <1>7
  <2>2. 0 + 1 = 1
    OBVIOUS
  <2> QED
    BY <1>1, <1>2, <1>5, <1>6, <1>7, <2>1, <2>2
<1>8. CASE i # n
  <2>1. i % n = i
    BY <1>1, <1>8
  <2> QED
    BY <1>2, <1>5, <1>6, <1>8, <2>1
<1> QED
  BY <1>7, <1>8

-----------------------------------------------------------------------------
\* rr_mutex covers all of add_thread().
InMutex == \A t \in Threads : pc[t] \in Adding => rr_mutex = t

\* No thread has reached add_thread().
Empty ==
  /\ head_ = NULL /\ tail_ = NULL
  /\ \A t \in Threads : pc[t] \in {"new", "insert"} /\ turn_[t] = 0

\* The first thread is being added.
Starting(t) ==
  /\ pc[t] \in AddingFirst
  /\ head_ = t
  /\ pc[t] # "self_next" => next_[t] = t
  /\ pc[t] = "take_turn" => tail_ = t
  /\ \A u \in Threads : turn_[u] = 0 /\ (u # t => pc[u] = "new")

\* What a thread that is added, or that hands on the turn, knows of the ring.
Aware(t) ==
  /\ pc[t] \notin AddingFirst
  /\ pc[t] \in {"wait_tail", "swing"} => node[t] = head_
  /\ pc[t] \in {"link", "tail_link"} => head_ = t /\ node[t] = next_[tail_]
  /\ pc[t] = "tail_link" => next_[t] = node[t]
  /\ pc[t] = "pass" => node[t] \in Members

HeadLinked == (\A t \in Threads : pc[t] \notin {"link", "tail_link"}) => head_ = next_[tail_]

\* The links of the members form a ring, and one of them has the token.
Linked ==
  /\ tail_ \in Members
  /\ \E n, s : IsRing(s, n, Members, next_, tail_)
  /\ head_ # NULL
  /\ \A t \in Threads : Aware(t)
  /\ HeadLinked
  /\ \E t \in Members : Token(t)

RingInv == InMutex /\ (Empty \/ (\E t \in Threads : Starting(t)) \/ Linked)

LinkInv == Typed /\ OneToken /\ RingInv


-----------------------------------------------------------------------------
(***************************************************************************)
(* A ring is one of the links of its members only.                         *)
(***************************************************************************)
LEMMA RingKept ==
  ASSUME NEW M, NEW links, NEW first, NEW newlinks,
         \E n, s : IsRing(s, n, M, links, first),
         \A m \in M : newlinks[m] = links[m]
  PROVE  \E n, s : IsRing(s, n, M, newlinks, first)
<1>1. PICK n, s : IsRing(s, n, M, links, first)
  OBVIOUS
<1>2. \A i \in 1 .. n : newlinks[s[i]] = links[s[i]]
  BY <1>1 DEF IsRing
<1>3. IsRing(s, n, M, newlinks, first)
  BY <1>1, <1>2 DEF IsRing
<1> QED
  BY <1>3

\* A link of a ring leads to a member.
LEMMA RingCloses ==
  ASSUME NEW M, NEW links, NEW first,
         \E n, s : IsRing(s, n, M, links, first)
  PROVE  \A m \in M : links[m] \in M
<1>1. PICK n, s : IsRing(s, n, M, links, first)
  OBVIOUS
<1>2. n \in Nat \ {0} /\ s \in [1 .. n -> M] /\ first = s[1]
  BY <1>1 DEF IsRing
<1>3. ASSUME NEW m \in M PROVE links[m] \in M
  <2>1. PICK i \in 1 .. n : s[i] = m
    BY <1>1 DEF IsRing
  <2>2. links[m] = IF i = n THEN first ELSE s[i + 1]
    BY <1>1, <2>1 DEF IsRing
  <2>3. i # n => i + 1 \in 1 .. n
    BY <1>2
  <2> QED
    BY <1>2, <2>2, <2>3
<1> QED
  BY <1>3

NotMember == {"new", "insert", "self_next", "set_tail", "take_turn", "wait_tail", "swing",
              "link", "tail_link"}

\* The places where a thread is a member and has no part in the links.
Settled == {"added", "run", "spin", "check", "inside", "fini", "finished"}

\* Members, by the places where a thread is none.
LEMMA MembersAre == Members = {t \in Threads : pc[t] \notin NotMember}
  BY DEF Members, Adding, AddingFirst, NotMember

\* A step of one thread that leaves the members as they are.
LEMMA MembersKept ==
  ASSUME Typed, NEW t \in Threads, NEW place,
         pc' = [pc EXCEPT ![t] = place],
         pc[t] \in NotMember <=> place \in NotMember
  PROVE  Members' = Members
  BY DEF Typed, Members, Adding, AddingFirst, NotMember

(***************************************************************************)
(* Whoever is beyond add_thread(), or beyond its first exchange, finds a   *)
(* ring.                                                                   *)
(***************************************************************************)
LEMMA RingIsThere ==
  ASSUME RingInv, NEW t \in Threads, pc[t] \notin {"new", "insert"} \cup AddingFirst
  PROVE  Linked
<1>1. ~ Empty
  BY DEF Empty
<1>2. ASSUME NEW u \in Threads, Starting(u) PROVE FALSE
  BY <1>2 DEF Starting
<1> QED
  BY <1>1, <1>2 DEF RingInv

(***************************************************************************)
(* A step of a settled thread that leaves the nodes alone.                 *)
(***************************************************************************)
LEMMA SettledStep ==
  ASSUME LinkInv, NEW t \in Threads, NEW place \in Settled, pc[t] \in Settled,
         pc' = [pc EXCEPT ![t] = place], UNCHANGED <<head_, tail_, next_, turn_, node>>,
         InMutex'
  PROVE  RingInv'
<1>1. Linked
  BY RingIsThere DEF LinkInv, Settled, AddingFirst
<1>2. Members' = Members
  BY MembersKept DEF LinkInv, Settled, NotMember
<1>3. \A u \in Threads : pc'[u] = IF u = t THEN place ELSE pc[u]
  BY DEF LinkInv, Typed
<1>4. \A u \in Threads : Aware(u)'
  BY <1>1, <1>2, <1>3 DEF Linked, Aware, Settled, AddingFirst
<1>5. HeadLinked'
  BY <1>1, <1>3 DEF Linked, HeadLinked, Settled
<1>6. \A u \in Threads : Token(u) => Token(u)'
  BY <1>3 DEF Token, Settled, AddingFirst
<1> QED
  BY <1>1, <1>2, <1>4, <1>5, <1>6 DEF Linked, RingInv, Members

\* A thread that starts is not yet a member, and gets the mutex.
LEMMA ThreadStartRing ==
  ASSUME LinkInv, NEW t \in Threads, ThreadStart(t)
  PROVE  RingInv'
<1>1. /\ pc[t] = "new" /\ rr_mutex = NULL /\ rr_mutex' = t
      /\ pc' = [pc EXCEPT ![t] = "insert"]
      /\ UNCHANGED <<head_, tail_, next_, turn_, node>>
  BY DEF ThreadStart, Goto, ring
<1>2. \A u \in Threads : pc'[u] = IF u = t THEN "insert" ELSE pc[u]
  BY <1>1 DEF LinkInv, Typed
<1>3. \A u \in Threads : pc[u] \notin Adding
  BY <1>1, ThreadsAssumption DEF LinkInv, RingInv, InMutex
<1>4. InMutex'
  BY <1>1, <1>2, <1>3 DEF InMutex
<1>5. ASSUME Empty PROVE Empty'
  BY <1>1, <1>2, <1>5 DEF Empty
<1>6. ASSUME NEW u \in Threads, Starting(u) PROVE FALSE
  BY <1>3, <1>6 DEF Starting, Adding
<1>7. ASSUME Linked PROVE Linked'
  <2>1. Members' = Members
    BY <1>1, MembersKept DEF LinkInv, NotMember
  <2>2. \A u \in Threads : Aware(u)'
    BY <1>1, <1>2, <1>7, <2>1 DEF Linked, Aware, AddingFirst
  <2>3. HeadLinked'
    BY <1>1, <1>2, <1>7 DEF Linked, HeadLinked
  <2>4. \A u \in Threads : Token(u) => Token(u)'
    BY <1>1, <1>2 DEF Token, AddingFirst
  <2> QED
    BY <1>1, <1>7, <2>1, <2>2, <2>3, <2>4 DEF Linked, Members
<1> QED
  BY <1>4, <1>5, <1>6, <1>7 DEF LinkInv, RingInv

(***************************************************************************)
(* The first thread prepares its node and links it to itself.              *)
(***************************************************************************)
LEMMA FirstRing ==
  ASSUME LinkInv, NEW t \in Threads, InsertFirst(t) \/ SetSelfNext(t) \/ SetTail(t) \/ TakeTurn(t)
  PROVE  RingInv'
<1>1. pc[t] \in {"insert"} \cup AddingFirst /\ UNCHANGED rr_mutex
  BY DEF InsertFirst, SetSelfNext, SetTail, TakeTurn, AddingFirst, threads
<1>2. \A u \in Threads \ {t} : pc'[u] = pc[u]
  BY DEF InsertFirst, SetSelfNext, SetTail, TakeTurn, Goto, LinkInv, Typed
<1>3. rr_mutex = t /\ \A u \in Threads \ {t} : pc[u] \notin Adding
  BY <1>1 DEF LinkInv, RingInv, InMutex, Adding
<1>4. InMutex'
  BY <1>1, <1>2, <1>3 DEF InMutex
<1>5. CASE InsertFirst(t)
  <2>1. Empty
    <3>1. ASSUME NEW u \in Threads, Starting(u) PROVE FALSE
      BY <1>5, <3>1, ThreadsAssumption DEF InsertFirst, Starting
    <3> QED
      BY <1>5, <3>1 DEF InsertFirst, LinkInv, RingInv, Linked
  <2>2. \A u \in Threads \ {t} : pc[u] = "new"
    BY <1>3, <2>1 DEF Empty, Adding
  <2>3. pc'[t] = "self_next" /\ head_' = t /\ UNCHANGED <<tail_, next_, turn_>>
    BY <1>5 DEF InsertFirst, Goto, LinkInv, Typed
  <2>4. Starting(t)'
    BY <1>2, <2>1, <2>2, <2>3 DEF Starting, Empty, AddingFirst
  <2> QED
    BY <1>4, <2>4 DEF RingInv
<1>6. ASSUME pc[t] \in AddingFirst PROVE Starting(t)
  <2>1. ~ Empty
    BY <1>6 DEF Empty, AddingFirst
  <2>2. ~ Linked
    BY <1>6 DEF Linked, Aware
  <2>3. ASSUME NEW u \in Threads, Starting(u), u # t PROVE FALSE
    BY <1>6, <2>3 DEF Starting, AddingFirst
  <2> QED
    BY <2>1, <2>2, <2>3 DEF LinkInv, RingInv
<1>7. CASE SetSelfNext(t)
  <2>1. /\ pc[t] = "self_next" /\ pc'[t] = "set_tail" /\ next_'[t] = t
        /\ UNCHANGED <<head_, tail_, turn_>>
    BY <1>7 DEF SetSelfNext, Goto, LinkInv, Typed
  <2>2. Starting(t)
    BY <1>6, <2>1 DEF AddingFirst
  <2>3. Starting(t)'
    BY <1>2, <2>1, <2>2 DEF Starting, AddingFirst
  <2> QED
    BY <1>4, <2>3 DEF RingInv
<1>8. CASE SetTail(t)
  <2>1. /\ pc[t] = "set_tail" /\ pc'[t] = "take_turn" /\ tail_' = t
        /\ UNCHANGED <<head_, next_, turn_>>
    BY <1>8 DEF SetTail, Goto, LinkInv, Typed
  <2>2. Starting(t)
    BY <1>6, <2>1 DEF AddingFirst
  <2>3. Starting(t)'
    BY <1>2, <2>1, <2>2 DEF Starting, AddingFirst
  <2> QED
    BY <1>4, <2>3 DEF RingInv
<1>9. CASE TakeTurn(t)
  <2>1. /\ pc[t] = "take_turn" /\ pc'[t] = "added" /\ turn_'[t] = 1
        /\ UNCHANGED <<head_, tail_, next_>>
    BY <1>9 DEF TakeTurn, Goto, LinkInv, Typed
  <2>2. Starting(t)
    BY <1>6, <2>1 DEF AddingFirst
  <2>3. \A u \in Threads : pc'[u] = IF u = t THEN "added" ELSE "new"
    BY <1>2, <2>1, <2>2 DEF Starting
  <2>4. Members' = {t}
    BY <2>3 DEF Members, Adding, AddingFirst
  <2>5. head_' = t /\ tail_' = t /\ next_'[t] = t
    BY <2>1, <2>2 DEF Starting
  <2>6. IsRing([i \in 1 .. 1 |-> t], 1, {t}, next_', t)
    BY <2>5, FS_Singleton DEF IsRing
  <2>7. \A u \in Threads : Aware(u)'
    BY <2>3 DEF Aware, AddingFirst
  <2>8. HeadLinked' /\ Token(t)'
    BY <2>1, <2>5 DEF HeadLinked, Token
  <2>9. Linked'
    BY <2>4, <2>5, <2>6, <2>7, <2>8, ThreadsAssumption DEF Linked
  <2> QED
    BY <1>4, <2>9 DEF RingInv
<1> QED
  BY <1>5, <1>7, <1>8, <1>9
(***************************************************************************)
(* A later thread finds the head and puts its node there.                  *)
(***************************************************************************)
LEMMA LaterRing ==
  ASSUME LinkInv, NEW t \in Threads, InsertLater(t) \/ WaitTail(t) \/ SwingHead(t)
  PROVE  RingInv'
<1>1. /\ pc[t] \in {"insert", "wait_tail", "swing"}
      /\ UNCHANGED <<tail_, next_, turn_, rr_mutex>>
  BY DEF InsertLater, WaitTail, SwingHead, ring, threads
<1>2. PICK place \in {"wait_tail", "swing", "link"} :
        /\ pc' = [pc EXCEPT ![t] = place]
        /\ pc[t] = "insert" => place = "wait_tail"
        /\ pc[t] = "wait_tail" => place = "swing"
  BY DEF InsertLater, WaitTail, SwingHead, Goto, LinkInv, Typed
<1>3. \A u \in Threads : pc'[u] = IF u = t THEN place ELSE pc[u]
  BY <1>2 DEF LinkInv, Typed
<1>4. \A u \in Threads \ {t} : pc[u] \notin Adding
  BY <1>1 DEF LinkInv, RingInv, InMutex, Adding
<1>5. InMutex'
  BY <1>1, <1>3 DEF InMutex, LinkInv, RingInv, Adding
<1>6. Linked
  <2>1. CASE pc[t] = "insert"
    <3>1. head_ # NULL
      BY <2>1 DEF InsertLater, WaitTail, SwingHead
    <3>2. ~ Empty
      BY <3>1 DEF Empty
    <3>3. ASSUME NEW u \in Threads, Starting(u) PROVE FALSE
      BY <2>1, <3>3 DEF Starting, AddingFirst
    <3> QED
      BY <3>2, <3>3 DEF LinkInv, RingInv
  <2>2. CASE pc[t] # "insert"
    BY <1>1, <2>2, RingIsThere DEF LinkInv, AddingFirst
  <2> QED
    BY <2>1, <2>2
<1>7. Members' = Members
  BY <1>1, <1>2, MembersKept DEF LinkInv, NotMember
<1>8. head_ = next_[tail_]
  BY <1>1, <1>4, <1>6 DEF Linked, HeadLinked, Adding
<1>9. /\ \A u \in Threads \ {t} : node'[u] = node[u]
      /\ IF place = "link" THEN head_' = t /\ node'[t] = head_ ELSE head_' = head_ /\ node'[t] = head_
  <2>1. CASE InsertLater(t)
    BY <1>1, <1>2, <2>1 DEF InsertLater, ring, Goto, LinkInv, Typed
  <2>2. CASE WaitTail(t)
    BY <1>2, <1>6, <2>2 DEF WaitTail, ring, Linked, Aware
  <2>3. CASE SwingHead(t)
    <3>1. node[t] = head_
      BY <1>6, <2>3 DEF SwingHead, Linked, Aware
    <3>2. head_' = t /\ pc' = [pc EXCEPT ![t] = "link"] /\ UNCHANGED node
      BY <2>3, <3>1 DEF SwingHead, Goto
    <3>3. place = "link"
      BY <1>3, <3>2 DEF LinkInv, Typed
    <3> QED
      BY <3>1, <3>2, <3>3
  <2> QED
    BY <2>1, <2>2, <2>3
<1>10. \A u \in Threads : Aware(u)'
  BY <1>1, <1>3, <1>4, <1>6, <1>7, <1>8, <1>9 DEF Linked, Aware, AddingFirst, Adding
<1>11. HeadLinked'
  BY <1>1, <1>3, <1>8, <1>9 DEF HeadLinked
<1>12. head_' # NULL
  BY <1>6, <1>9, ThreadsAssumption DEF Linked
<1>13. \A u \in Threads : Token(u) => Token(u)'
  BY <1>1, <1>3 DEF Token, AddingFirst
<1>14. Linked'
  BY <1>1, <1>6, <1>7, <1>10, <1>11, <1>12, <1>13 DEF Linked, Members
<1> QED
  BY <1>5, <1>14 DEF RingInv

\* The link of a node that is no member yet does not matter.
LEMMA LinkOldHeadRing ==
  ASSUME LinkInv, NEW t \in Threads, LinkOldHead(t)
  PROVE  RingInv'
<1>1. /\ pc[t] = "link" /\ pc' = [pc EXCEPT ![t] = "tail_link"]
      /\ next_' = [next_ EXCEPT ![t] = node[t]]
      /\ UNCHANGED <<head_, tail_, turn_, node, rr_mutex>>
  BY DEF LinkOldHead, Goto, threads
<1>2. \A u \in Threads : pc'[u] = IF u = t THEN "tail_link" ELSE pc[u]
  BY <1>1 DEF LinkInv, Typed
<1>3. \A u \in Threads \ {t} : pc[u] \notin Adding
  BY <1>1 DEF LinkInv, RingInv, InMutex, Adding
<1>4. InMutex'
  BY <1>1, <1>2 DEF InMutex, LinkInv, RingInv, Adding
<1>5. Linked
  BY <1>1, RingIsThere DEF LinkInv, AddingFirst
<1>6. Members' = Members /\ t \notin Members
  BY <1>1, MembersKept, MembersAre DEF LinkInv, NotMember
<1>7. next_'[t] = node[t] /\ \A m \in Members : next_'[m] = next_[m]
  BY <1>1, <1>6 DEF LinkInv, Typed, Members
<1>8. \E n, s : IsRing(s, n, Members, next_', tail_)
  <2>1. \E n, s : IsRing(s, n, Members, next_, tail_)
    BY <1>5 DEF Linked
  <2> QED
    BY <1>7, <2>1, RingKept
<1>9. next_'[tail_] = next_[tail_]
  BY <1>5, <1>7 DEF Linked
<1>10. \A u \in Threads : Aware(u)'
  BY <1>1, <1>2, <1>3, <1>5, <1>6, <1>7, <1>9 DEF Linked, Aware, AddingFirst, Adding
<1>11. HeadLinked'
  BY <1>2 DEF HeadLinked
<1>12. \A u \in Threads : Token(u) => Token(u)'
  BY <1>1, <1>2 DEF Token, AddingFirst
<1>13. Linked'
  BY <1>1, <1>5, <1>6, <1>8, <1>10, <1>11, <1>12 DEF Linked, Members
<1> QED
  BY <1>4, <1>13 DEF RingInv

\* What a thread that links its node in does to the ring.
JoinsRing(t) ==
  /\ Linked /\ Members' = Members \cup {t} /\ t \notin Members
  /\ next_[t] = next_[tail_] /\ head_ = t
  /\ next_'[tail_] = t
  /\ \A m \in (Members \cup {t}) \ {tail_} : next_'[m] = next_[m]
  /\ \A u \in Threads \ {t} : pc'[u] = pc[u] /\ pc[u] \notin Adding
  /\ pc[t] = "tail_link" /\ pc'[t] = "added"
  /\ UNCHANGED <<head_, tail_, turn_, node, rr_mutex>>

\* LinkTail() is such a step.
LEMMA LinkTailJoins ==
  ASSUME LinkInv, NEW t \in Threads, LinkTail(t)
  PROVE  JoinsRing(t)
<1>1. /\ pc[t] = "tail_link" /\ pc' = [pc EXCEPT ![t] = "added"]
      /\ next_' = [next_ EXCEPT ![tail_] = t]
      /\ UNCHANGED <<head_, tail_, turn_, node, rr_mutex>>
  BY DEF LinkTail, Goto, threads
<1>2. \A u \in Threads : pc'[u] = IF u = t THEN "added" ELSE pc[u]
  BY <1>1 DEF LinkInv, Typed
<1>3. \A u \in Threads \ {t} : pc[u] \notin Adding
  BY <1>1 DEF LinkInv, RingInv, InMutex, Adding
<1>4. Linked
  BY <1>1, RingIsThere DEF LinkInv, AddingFirst
<1>5. Members' = Members \cup {t} /\ t \notin Members
  BY <1>1, <1>2 DEF Members, Adding, AddingFirst
<1>6. next_[t] = next_[tail_] /\ head_ = t
  BY <1>1, <1>4 DEF Linked, Aware
<1>7. /\ next_'[tail_] = t
      /\ \A m \in (Members \cup {t}) \ {tail_} : next_'[m] = next_[m]
  BY <1>1, <1>4 DEF Linked, LinkInv, Typed, Members
<1> QED
  BY <1>1, <1>2, <1>3, <1>4, <1>5, <1>6, <1>7 DEF JoinsRing

\* There are finitely many members.
LEMMA FiniteMembers == IsFiniteSet(Members)
  BY ThreadsAssumption, FS_Subset DEF Members

\* It leaves a ring, with one member more.
LEMMA LinkTailRing ==
  ASSUME LinkInv, NEW t \in Threads, JoinsRing(t)
  PROVE  RingInv'
<1>1. PICK n, s : IsRing(s, n, Members, next_, tail_)
  BY DEF JoinsRing, Linked
<1>2. IsRing(Joined(s, n, t), n + 1, Members \cup {t}, next_', tail_)
  BY <1>1, FiniteMembers, RingGrows DEF JoinsRing
<1>3. \E k, r : IsRing(r, k, Members', next_', tail_')
  BY <1>2 DEF JoinsRing
<1>4. InMutex'
  BY DEF JoinsRing, InMutex, LinkInv, RingInv, Adding
<1>5. \A u \in Threads : Aware(u)'
  BY DEF JoinsRing, Linked, Aware, AddingFirst, Adding
<1>6. HeadLinked'
  BY DEF JoinsRing, HeadLinked
<1>7. \A u \in Threads : Token(u) => Token(u)'
  BY DEF JoinsRing, Token, AddingFirst
<1>8. Linked'
  BY <1>3, <1>5, <1>6, <1>7 DEF JoinsRing, Linked, Members
<1> QED
  BY <1>4, <1>8 DEF RingInv

(***************************************************************************)
(* unlock() hands the token to a member.                                   *)
(***************************************************************************)
LEMMA UnlockRing ==
  ASSUME LinkInv, NEW t \in Threads, Unlock(t)
  PROVE  RingInv'
<1>1. pc[t] \in {"inside", "load_next", "pass"} /\ UNCHANGED <<head_, tail_, next_, rr_mutex>>
  BY DEF Unlock, ClearTurn, LoadNext, PassTurn, ring, threads
<1>2. PICK place \in {"load_next", "pass", "run"} : pc' = [pc EXCEPT ![t] = place]
  BY DEF Unlock, ClearTurn, LoadNext, PassTurn, Goto
<1>3. \A u \in Threads : pc'[u] = IF u = t THEN place ELSE pc[u]
  BY <1>2 DEF LinkInv, Typed
<1>4. InMutex'
  BY <1>1, <1>3 DEF InMutex, LinkInv, RingInv, Adding, AddingFirst
<1>5. Linked
  BY <1>1, RingIsThere DEF LinkInv, AddingFirst
<1>6. Members' = Members /\ t \in Members
  BY <1>1, <1>2, MembersKept, MembersAre DEF LinkInv, NotMember
<1>7. \A u \in Threads \ {t} : node'[u] = node[u]
  BY DEF Unlock, ClearTurn, LoadNext, PassTurn, LinkInv, Typed
<1>8. place = "pass" => node'[t] = next_[t]
  BY <1>3 DEF Unlock, ClearTurn, LoadNext, PassTurn, Goto, LinkInv, Typed
<1>9. next_[t] \in Members
  BY <1>5, <1>6, RingCloses DEF Linked
<1>10. \A u \in Threads : Aware(u)'
  BY <1>1, <1>3, <1>5, <1>6, <1>7, <1>8, <1>9 DEF Linked, Aware, AddingFirst
<1>11. HeadLinked'
  BY <1>1, <1>3, <1>5 DEF Linked, HeadLinked
<1>12. \E u \in Members : Token(u)'
  <2>1. CASE ClearTurn(t) \/ LoadNext(t)
    <3>1. pc'[t] \in {"load_next", "pass"}
      BY <2>1 DEF ClearTurn, LoadNext, Goto, LinkInv, Typed
    <3> QED
      BY <1>6, <3>1 DEF Token
  <2>2. CASE PassTurn(t)
    <3>1. node[t] \in Members
      BY <1>5, <2>2 DEF PassTurn, Linked, Aware
    <3>2. turn_'[node[t]] = 1
      BY <2>2, <3>1 DEF PassTurn, LinkInv, Typed, Members
    <3> QED
      BY <3>1, <3>2 DEF Token
  <2> QED
    BY <2>1, <2>2 DEF Unlock
<1>13. Linked'
  BY <1>1, <1>5, <1>6, <1>10, <1>11, <1>12 DEF Linked
<1> QED
  BY <1>4, <1>13 DEF RingInv

(***************************************************************************)
(* The nodes of the threads that were added form a ring at every moment,   *)
(* also while another one is linked in.                                    *)
(***************************************************************************)
THEOREM RingAlways == Spec => []LinkInv
<1>1. Init => RingInv
  BY DEF Init, RingInv, InMutex, Empty, Adding, AddingFirst
<1>2. LinkInv /\ [Next]_vars => RingInv'
  <2> SUFFICES ASSUME LinkInv, [Next]_vars PROVE RingInv'
    OBVIOUS
  <2>1. ASSUME NEW t \in Threads, ThreadStart(t) PROVE RingInv'
    BY <2>1, ThreadStartRing
  <2>2. ASSUME NEW t \in Threads,
               InsertFirst(t) \/ SetSelfNext(t) \/ SetTail(t) \/ TakeTurn(t)
        PROVE RingInv'
    BY <2>2, FirstRing
  <2>3. ASSUME NEW t \in Threads, InsertLater(t) \/ WaitTail(t) \/ SwingHead(t)
        PROVE RingInv'
    BY <2>3, LaterRing
  <2>4. ASSUME NEW t \in Threads, LinkOldHead(t) PROVE RingInv'
    BY <2>4, LinkOldHeadRing
  <2>5. ASSUME NEW t \in Threads, LinkTail(t) PROVE RingInv'
    BY <2>5, LinkTailJoins, LinkTailRing
  <2>6. ASSUME NEW t \in Threads, ThreadStarted(t) PROVE RingInv'
    <3>1. /\ pc[t] = "added" /\ pc' = [pc EXCEPT ![t] = "run"] /\ rr_mutex' = NULL
          /\ UNCHANGED <<head_, tail_, next_, turn_, node>>
      BY <2>6 DEF ThreadStarted, Goto, ring
    <3>2. InMutex'
      BY <3>1 DEF LinkInv, Typed, RingInv, InMutex, Adding, AddingFirst
    <3> QED
      BY <3>1, <3>2, SettledStep DEF Settled
  <2>7. ASSUME NEW t \in Threads, NEW place \in {"spin", "inside", "check", "fini", "finished"},
               pc[t] \in {"run", "spin", "check", "fini"}, pc' = [pc EXCEPT ![t] = place],
               UNCHANGED <<head_, tail_, next_, turn_, node, rr_mutex>>
        PROVE RingInv'
    <3>1. InMutex'
      BY <2>7 DEF LinkInv, Typed, RingInv, InMutex, Adding, AddingFirst
    <3> QED
      BY <2>7, <3>1, SettledStep DEF Settled
  <2>8. ASSUME NEW t \in Threads,
               StartAccess(t) \/ ReadTurn(t) \/ CheckExit(t) \/ Finish(t) \/ ThreadFini(t)
        PROVE RingInv'
    BY <2>7, <2>8 DEF StartAccess, ReadTurn, CheckExit, Finish, ThreadFini, Goto, ring, threads
  <2>9. ASSUME NEW t \in Threads, Unlock(t) PROVE RingInv'
    BY <2>9, UnlockRing
  <2>10. CASE MainReturns
    BY <2>7, <2>10, ThreadsAssumption DEF MainReturns, Goto, ring, threads
  <2>11. CASE UNCHANGED vars
    <3>1. UNCHANGED <<Members, HeadLinked>>
      BY <2>11 DEF vars, Members, HeadLinked
    <3>2. \A t \in Threads : UNCHANGED <<Token(t), Starting(t), Aware(t)>>
      BY <2>11, <3>1 DEF vars, Token, Starting, Aware
    <3> QED
      BY <2>11, <3>1, <3>2 DEF vars, LinkInv, RingInv, InMutex, Empty, Linked, Members
  <2> QED
    BY <2>1, <2>2, <2>3, <2>4, <2>5, <2>6, <2>8, <2>9, <2>10, <2>11
       DEF Next, Step, AddThread, Lock
<1>3. LinkInv /\ [Next]_vars => LinkInv'
  BY <1>2, TypedStep, OneTokenStep DEF LinkInv
<1>4. Init => LinkInv
  BY <1>1, InitIInv DEF IInv, LinkInv
<1> QED
  BY <1>3, <1>4, PTL DEF Spec

-----------------------------------------------------------------------------
Inside == {t \in Threads : pc[t] \in {"inside", "load_next"}}

\* Turn is the thread that has it.
TurnHeld == \A t \in Threads : HasTurn(t) => Turn = t

\* There is only one that has.
LEMMA TurnIs == LinkInv => TurnHeld
<1> SUFFICES ASSUME LinkInv, NEW t \in Threads, HasTurn(t) PROVE Turn = t
  BY DEF TurnHeld
<1>1. ASSUME NEW u \in Threads, HasTurn(u) PROVE u = t
  BY <1>1 DEF LinkInv, OneToken, Token, HasTurn
<1>2. Turn = CHOOSE u \in Threads : HasTurn(u)
  BY DEF Turn
<1> HIDE DEF HasTurn
<1> QED
  BY <1>1, <1>2

\* A step after which the same thread has the turn.
LEMMA TurnKept ==
  ASSUME LinkInv, LinkInv', NEW t \in Threads, HasTurn(t), HasTurn(t)'
  PROVE  Turn' = Turn
<1>1. Turn = t
  BY TurnIs DEF TurnHeld
<1>2. (LinkInv => TurnHeld)'
  BY TurnIs, PTL
<1>3. Turn' = t
  BY <1>2 DEF TurnHeld
<1> QED
  BY <1>1, <1>3

\* Some thread has it as soon as there is a ring.
LEMMA SomeTurn ==
  ASSUME LinkInv, Linked
  PROVE  \E t \in Members : HasTurn(t)
<1>1. PICK t \in Members : Token(t)
  BY DEF Linked
<1>2. CASE pc[t] = "pass"
  <2>1. node[t] \in Members
    BY <1>2 DEF Linked, Aware, Members
  <2> QED
    BY <1>2, <2>1 DEF HasTurn, Members
<1>3. CASE pc[t] # "pass"
  BY <1>1, <1>3 DEF Linked, Aware, Token, HasTurn, Members
<1> QED
  BY <1>2, <1>3

\* A step that leaves the links of the members alone.
LEMMA OrderKept ==
  ASSUME Linked, Members' = Members, tail_' = tail_,
         \A m \in Members : next_'[m] = next_[m]
  PROVE  Order' = Order
<1>1. PICK n, s : IsRing(s, n, Members, next_, tail_)
  BY DEF Linked
<1>2. \A i \in 1 .. n : next_'[s[i]] = next_[s[i]]
  BY <1>1 DEF IsRing
<1>3. IsRing(s, n, Members, next_', tail_)
  BY <1>1, <1>2 DEF IsRing
<1>4. Cardinality(Members) = n
  BY <1>1 DEF IsRing
<1>5. Order = s
  BY <1>1, <1>4, RingIsOrder DEF Order
<1>6. Order' = s
  BY <1>3, <1>4, RingIsOrder DEF Order
<1> QED
  BY <1>5, <1>6

\* Before there is a ring there is nothing to see.
Nothing == Order = << >> /\ Turn = NULL /\ Inside = {}

\* That is so as long as there is no ring.
LEMMA NothingYet == LinkInv /\ ~Linked => Members = {} /\ Nothing
<1> SUFFICES ASSUME LinkInv, ~Linked PROVE Members = {} /\ Nothing
  OBVIOUS
<1>1. \A t \in Threads : pc[t] \in {"new", "insert"} \cup AddingFirst /\ turn_[t] = 0
  BY DEF LinkInv, RingInv, Empty, Starting
<1>2. Members = {}
  BY <1>1 DEF Members, Adding, AddingFirst
<1>3. Order = << >>
  <2>1. Cardinality(Members) = 0
    BY <1>2, FS_EmptySet
  <2> QED
    BY <2>1, EmptyRing DEF Order
<1>4. \A t \in Threads : ~HasTurn(t)
  BY <1>1 DEF HasTurn, AddingFirst
<1>5. Inside = {}
  BY <1>1 DEF Inside, AddingFirst
<1> QED
  BY <1>2, <1>3, <1>4, <1>5 DEF Turn, Nothing

\* The abstract state does not change.
Stutters == UNCHANGED <<Order, Turn, Inside>>

\* Steps away from the lock are not seen.
LEMMA StutterSettled ==
  ASSUME LinkInv, LinkInv', NEW t \in Threads, NEW place \in Settled \ {"inside"},
         pc[t] \in Settled \ {"inside"},
         pc' = [pc EXCEPT ![t] = place], UNCHANGED <<tail_, next_, turn_, node>>
  PROVE  Stutters
<1>1. Linked
  BY RingIsThere DEF LinkInv, Settled, AddingFirst
<1>2. Members' = Members
  BY MembersKept DEF LinkInv, Settled, NotMember
<1>3. \A u \in Threads : pc'[u] = IF u = t THEN place ELSE pc[u]
  BY DEF LinkInv, Typed
<1>4. Inside' = Inside
  BY <1>3 DEF Inside, Settled
<1>5. \A u \in Threads : HasTurn(u) => HasTurn(u)'
  BY <1>3 DEF HasTurn, Settled
<1>6. Turn' = Turn
  BY <1>1, <1>5, SomeTurn, TurnKept DEF Members
<1> QED
  BY <1>1, <1>2, <1>4, <1>6, OrderKept DEF Stutters

\* Nothing is seen of the first thread's steps before it takes the turn.
LEMMA StutterFirst ==
  ASSUME LinkInv, LinkInv', NEW t \in Threads,
         InsertFirst(t) \/ SetSelfNext(t) \/ SetTail(t)
  PROVE  Stutters
<1>1. ~Linked
  BY DEF InsertFirst, SetSelfNext, SetTail, Linked, Aware, AddingFirst
<1>2. Members' = Members
  BY MembersKept DEF LinkInv, InsertFirst, SetSelfNext, SetTail, Goto, NotMember
<1>3. Members = {} /\ Nothing
  BY <1>1, NothingYet
<1>4. ~Linked'
  BY <1>2, <1>3 DEF Linked
<1>5. (LinkInv /\ ~Linked => Members = {} /\ Nothing)'
  BY NothingYet, PTL
<1>6. Nothing'
  BY <1>4, <1>5
<1> QED
  BY <1>3, <1>6 DEF Nothing, Stutters

\* Nor is the start of a thread.
LEMMA StutterStart ==
  ASSUME LinkInv, LinkInv', NEW t \in Threads, ThreadStart(t)
  PROVE  Stutters
<1>1. /\ pc[t] = "new" /\ pc' = [pc EXCEPT ![t] = "insert"]
      /\ UNCHANGED <<tail_, next_, turn_, node>>
  BY DEF ThreadStart, Goto, ring
<1>2. Members' = Members
  BY <1>1, MembersKept DEF LinkInv, NotMember
<1>3. CASE ~Linked
  <2>1. Members = {} /\ Nothing
    BY <1>3, NothingYet
  <2>2. ~Linked'
    BY <1>2, <2>1 DEF Linked
  <2>3. (LinkInv /\ ~Linked => Members = {} /\ Nothing)'
    BY NothingYet, PTL
  <2>4. Nothing'
    BY <2>2, <2>3
  <2> QED
    BY <2>1, <2>4 DEF Nothing, Stutters
<1>4. CASE Linked
  <2>1. \A u \in Threads : pc'[u] = IF u = t THEN "insert" ELSE pc[u]
    BY <1>1 DEF LinkInv, Typed
  <2>2. Inside' = Inside
    BY <1>1, <2>1 DEF Inside
  <2>3. \A u \in Threads : HasTurn(u) => HasTurn(u)'
    BY <1>1, <2>1 DEF HasTurn
  <2>4. Turn' = Turn
    BY <1>4, <2>3, SomeTurn, TurnKept DEF Members
  <2> QED
    BY <1>1, <1>2, <1>4, <2>2, <2>4, OrderKept DEF Stutters
<1> QED
  BY <1>3, <1>4

\* Nor a later thread's steps before its node is linked from the tail.
LEMMA StutterLater ==
  ASSUME LinkInv, LinkInv', NEW t \in Threads,
         InsertLater(t) \/ WaitTail(t) \/ SwingHead(t) \/ LinkOldHead(t)
  PROVE  Stutters
<1>1. pc[t] \in {"insert", "wait_tail", "swing", "link"} /\ UNCHANGED <<tail_, turn_>>
  BY DEF InsertLater, WaitTail, SwingHead, LinkOldHead, ring
<1>2. PICK place \in {"wait_tail", "swing", "link", "tail_link"} :
        pc' = [pc EXCEPT ![t] = place]
  BY DEF InsertLater, WaitTail, SwingHead, LinkOldHead, Goto, LinkInv, Typed
<1>3. \A u \in Threads : pc'[u] = IF u = t THEN place ELSE pc[u]
  BY <1>2 DEF LinkInv, Typed
<1>4. \A u \in Threads \ {t} : node'[u] = node[u] /\ next_'[u] = next_[u]
  BY DEF InsertLater, WaitTail, SwingHead, LinkOldHead, ring, LinkInv, Typed
<1>5. Linked
  <2>1. CASE InsertLater(t)
    <3>1. pc[t] = "insert" /\ head_ # NULL
      BY <2>1 DEF InsertLater
    <3>2. ~ Empty
      BY <3>1 DEF Empty
    <3>3. ASSUME NEW u \in Threads, Starting(u) PROVE FALSE
      BY <3>1, <3>3 DEF Starting, AddingFirst
    <3> QED
      BY <3>2, <3>3 DEF LinkInv, RingInv
  <2>2. CASE ~InsertLater(t)
    <3>1. pc[t] \in {"wait_tail", "swing", "link"}
      BY <2>2 DEF WaitTail, SwingHead, LinkOldHead
    <3> QED
      BY <3>1, RingIsThere DEF LinkInv, AddingFirst
  <2> QED
    BY <2>1, <2>2
<1>6. Members' = Members /\ t \notin Members
  BY <1>1, <1>2, MembersKept, MembersAre DEF LinkInv, NotMember
<1>7. Inside' = Inside
  BY <1>1, <1>3 DEF Inside
<1>8. \A u \in Threads : HasTurn(u) => HasTurn(u)'
  BY <1>1, <1>3, <1>4 DEF HasTurn
<1>9. Turn' = Turn
  BY <1>5, <1>8, SomeTurn, TurnKept DEF Members
<1>10. Order' = Order
  BY <1>1, <1>4, <1>5, <1>6, OrderKept DEF Members
<1> QED
  BY <1>7, <1>9, <1>10 DEF Stutters

(***************************************************************************)
(* The first thread joins.                                                 *)
(***************************************************************************)
LEMMA TakeTurnRefines ==
  ASSUME LinkInv, LinkInv', NEW t \in Threads, TakeTurn(t)
  PROVE  RR!JoinFirst(t)
<1>1. /\ pc[t] = "take_turn" /\ pc' = [pc EXCEPT ![t] = "added"]
      /\ turn_' = [turn_ EXCEPT ![t] = 1]
      /\ UNCHANGED <<head_, tail_, next_>>
  BY DEF TakeTurn, Goto
<1>2. Starting(t)
  BY <1>1 DEF LinkInv, RingInv, Empty, Linked, Aware, Starting, AddingFirst
<1>3. \A u \in Threads : pc'[u] = IF u = t THEN "added" ELSE "new"
  BY <1>1, <1>2 DEF Starting, LinkInv, Typed
<1>4. Nothing
  <2>1. ~Linked
    BY <1>1 DEF Linked, Aware, AddingFirst
  <2> QED
    BY <2>1, NothingYet
<1>5. Members' = {t}
  BY <1>3 DEF Members, Adding, AddingFirst
<1>6. tail_' = t /\ next_'[t] = t
  BY <1>1, <1>2 DEF Starting
<1>7. Order' = << t >>
  <2>1. IsRing(<< t >>, 1, {t}, next_', t)
    BY <1>6, FS_Singleton DEF IsRing
  <2>2. Cardinality(Members') = 1
    BY <1>5, FS_Singleton
  <2> QED
    BY <1>6, <2>1, <2>2, RingIsOrder DEF Order
<1>8. Turn' = t
  <2>1. HasTurn(t)'
    BY <1>1 DEF HasTurn, LinkInv, Typed
  <2>2. (LinkInv => TurnHeld)'
    BY TurnIs, PTL
  <2> QED
    BY <2>1, <2>2 DEF TurnHeld
<1>9. Inside' = {}
  BY <1>3 DEF Inside
<1> QED
  BY <1>4, <1>7, <1>8, <1>9 DEF Nothing, Inside, RR!JoinFirst

(***************************************************************************)
(* The link from the tail makes a thread a member, after the first one.    *)
(***************************************************************************)
LEMMA LinkTailRefines ==
  ASSUME LinkInv, LinkInv', NEW t \in Threads, JoinsRing(t)
  PROVE  RR!Join(t)
<1>1. PICK n, s : IsRing(s, n, Members, next_, tail_)
  BY DEF JoinsRing, Linked
<1>2. IsRing(Joined(s, n, t), n + 1, Members \cup {t}, next_', tail_)
  BY <1>1, FiniteMembers, RingGrows DEF JoinsRing
<1>3. n \in Nat \ {0} /\ s \in [1 .. n -> Members] /\ Cardinality(Members) = n
  BY <1>1 DEF IsRing
<1>4. Order = s
  BY <1>1, <1>3, RingIsOrder DEF Order
<1>5. Order' = Joined(s, n, t)
  <2>1. Members' = Members \cup {t} /\ tail_' = tail_
    BY DEF JoinsRing
  <2>2. Cardinality(Members') = n + 1
    BY <1>2, <2>1 DEF IsRing
  <2> QED
    BY <1>2, <2>1, <2>2, RingIsOrder DEF Order
<1>6. Order' = << Head(Order), t >> \o Tail(Order)
  BY <1>3, <1>4, <1>5, JoinedSequence
<1>7. Order # << >>
  BY <1>3, <1>4
<1>8. t \notin RR!Members
  <2>1. t \notin Members
    BY DEF JoinsRing
  <2> QED
    BY <1>3, <1>4, <2>1 DEF RR!Members
<1>9. \A u \in Threads : HasTurn(u) => HasTurn(u)'
  BY DEF JoinsRing, HasTurn
<1>10. Turn' = Turn
  BY <1>9, SomeTurn, TurnKept DEF Members, JoinsRing
<1>11. Inside' = Inside
  BY DEF Inside, JoinsRing
<1> QED
  BY <1>6, <1>7, <1>8, <1>10, <1>11 DEF Inside, RR!Join

(***************************************************************************)
(* Whoever finds its turn_ set enters.                                     *)
(***************************************************************************)
LEMMA ReadTurnRefines ==
  ASSUME LinkInv, LinkInv', NEW t \in Threads, ReadTurn(t)
  PROVE  RR!Enter(t) \/ Stutters
<1>1. pc[t] = "spin" /\ UNCHANGED <<tail_, next_, turn_, node>>
  BY DEF ReadTurn, ring
<1>2. CASE turn_[t] # 1
  <2>1. pc' = [pc EXCEPT ![t] = "check"]
    BY <1>2 DEF ReadTurn, Goto
  <2> QED
    BY <1>1, <2>1, StutterSettled DEF Settled
<1>3. CASE turn_[t] = 1
  <2>1. pc' = [pc EXCEPT ![t] = "inside"]
    BY <1>3 DEF ReadTurn, Goto
  <2>2. Linked
    BY <1>1, RingIsThere DEF LinkInv, AddingFirst
  <2>3. Members' = Members
    BY <1>1, <2>1, MembersKept DEF LinkInv, NotMember
  <2>4. Order' = Order
    BY <1>1, <2>2, <2>3, OrderKept
  <2>5. HasTurn(t) /\ HasTurn(t)'
    BY <1>1, <1>3 DEF HasTurn
  <2>6. Turn = t /\ Turn' = t
    BY <2>5, TurnIs, TurnKept DEF TurnHeld
  <2>7. t \notin Inside /\ Inside' = Inside \cup {t}
    BY <1>1, <2>1 DEF Inside, LinkInv, Typed
  <2> QED
    BY <2>4, <2>6, <2>7 DEF Inside, RR!Enter
<1> QED
  BY <1>2, <1>3

(***************************************************************************)
(* The turn goes on when unlock() has loaded the next node, whatever is    *)
(* linked in before it is stored there.                                    *)
(***************************************************************************)
LEMMA UnlockRefines ==
  ASSUME LinkInv, LinkInv', NEW t \in Threads, Unlock(t)
  PROVE  RR!Leave(t) \/ Stutters
<1>1. /\ pc[t] \in {"inside", "load_next", "pass"}
      /\ UNCHANGED <<tail_, next_>>
  BY DEF Unlock, ClearTurn, LoadNext, PassTurn, ring
<1>2. PICK place \in {"load_next", "pass", "run"} : pc' = [pc EXCEPT ![t] = place]
  BY DEF Unlock, ClearTurn, LoadNext, PassTurn, Goto
<1>3. \A u \in Threads : pc'[u] = IF u = t THEN place ELSE pc[u]
  BY <1>2 DEF LinkInv, Typed
<1>4. Linked
  BY <1>1, RingIsThere DEF LinkInv, AddingFirst
<1>5. Members' = Members /\ t \in Members
  BY <1>1, <1>2, MembersKept, MembersAre DEF LinkInv, NotMember
<1>6. Order' = Order
  BY <1>1, <1>4, <1>5, OrderKept
<1>7. CASE ClearTurn(t)
  <2>1. pc[t] = "inside" /\ pc'[t] = "load_next"
    BY <1>7 DEF ClearTurn, Goto, LinkInv, Typed
  <2>2. HasTurn(t) /\ HasTurn(t)'
    BY <2>1 DEF HasTurn, LinkInv, OneToken
  <2>3. Inside' = Inside
    BY <1>3, <2>1 DEF Inside
  <2> QED
    BY <1>6, <2>2, <2>3, TurnKept DEF Stutters
<1>8. CASE LoadNext(t)
  <2>1. pc[t] = "load_next" /\ pc'[t] = "pass" /\ node'[t] = next_[t]
    BY <1>8 DEF LoadNext, Goto, LinkInv, Typed
  <2>2. PICK u \in Members : u = next_[t]
    BY <1>4, <1>5, RingCloses DEF Linked
  <2>3. HasTurn(u)'
    BY <2>1, <2>2 DEF HasTurn
  <2>4. (LinkInv => TurnHeld)'
    BY TurnIs, PTL
  <2>5. Turn' = u
    BY <2>3, <2>4 DEF Members, TurnHeld
  <2>6. t \in Inside /\ Inside' = Inside \ {t}
    BY <1>3, <2>1 DEF Inside
  <2>7. RR!Successor(t) = u
    <3>1. PICK n, s : IsRing(s, n, Members, next_, tail_)
      BY <1>4 DEF Linked
    <3>2. Cardinality(Members) = n
      BY <3>1 DEF IsRing
    <3>3. Order = s
      BY <3>1, <3>2, RingIsOrder DEF Order
    <3>4. s[((CHOOSE j \in DOMAIN s : s[j] = t) % Len(s)) + 1] = next_[t]
      BY <1>5, <3>1, RingSuccessor
    <3> QED
      BY <2>2, <3>3, <3>4 DEF RR!Successor
  <2> QED
    BY <1>6, <2>5, <2>6, <2>7 DEF Inside, RR!Leave
<1>9. CASE PassTurn(t)
  <2>1. pc[t] = "pass" /\ pc'[t] = "run" /\ turn_' = [turn_ EXCEPT ![node[t]] = 1]
    BY <1>9 DEF PassTurn, Goto, LinkInv, Typed
  <2>2. PICK u \in Members : u = node[t]
    BY <1>4, <2>1 DEF Linked, Aware
  <2>3. HasTurn(u)
    BY <2>1, <2>2 DEF HasTurn
  <2>4. HasTurn(u)'
    BY <2>1, <2>2 DEF HasTurn, LinkInv, Typed, Members
  <2>5. Turn' = Turn
    BY <2>3, <2>4, TurnKept DEF Members
  <2>6. Inside' = Inside
    BY <1>3, <2>1 DEF Inside
  <2> QED
    BY <1>6, <2>5, <2>6 DEF Stutters
<1> QED
  BY <1>7, <1>8, <1>9 DEF Unlock

(***************************************************************************)
(* The ring of nodes implements turns in a cyclic order, for any number of *)
(* threads: no link, no head and no turn_ that is read before it changes   *)
(* lets the turn skip a thread, come back early or be lost.                *)
(***************************************************************************)
THEOREM TurnsInOrder == Spec => TakesTurns
<1>1. Init => RR!Init
  <2> SUFFICES ASSUME Init PROVE RR!Init
    OBVIOUS
  <2>1. Members = {}
    BY DEF Init, Members
  <2>2. Order = << >>
    BY <2>1, FS_EmptySet, EmptyRing DEF Order
  <2>3. Turn = NULL
    BY DEF Init, Turn, HasTurn
  <2> QED
    BY <2>2, <2>3 DEF Init, RR!Init
<1>2. LinkInv /\ LinkInv' /\ [Next]_vars => [RR!Next]_RR!vars
  <2> SUFFICES ASSUME LinkInv, LinkInv', [Next]_vars PROVE [RR!Next]_RR!vars
    OBVIOUS
  <2>1. ASSUME Stutters PROVE UNCHANGED RR!vars
    BY <2>1 DEF Stutters, Inside, RR!vars
  <2>2. ASSUME NEW t \in Threads, ThreadStart(t) PROVE Stutters
    BY <2>2, StutterStart
  <2>3. ASSUME NEW t \in Threads, InsertFirst(t) \/ SetSelfNext(t) \/ SetTail(t)
        PROVE Stutters
    BY <2>3, StutterFirst
  <2>4. ASSUME NEW t \in Threads, TakeTurn(t) PROVE RR!Next
    BY <2>4, TakeTurnRefines DEF RR!Next
  <2>5. ASSUME NEW t \in Threads,
               InsertLater(t) \/ WaitTail(t) \/ SwingHead(t) \/ LinkOldHead(t)
        PROVE Stutters
    BY <2>5, StutterLater
  <2>6. ASSUME NEW t \in Threads, LinkTail(t) PROVE RR!Next
    BY <2>6, LinkTailJoins, LinkTailRefines DEF RR!Next
  <2>7. ASSUME NEW t \in Threads, ReadTurn(t) PROVE RR!Next \/ Stutters
    BY <2>7, ReadTurnRefines DEF RR!Next
  <2>8. ASSUME NEW t \in Threads, Unlock(t) PROVE RR!Next \/ Stutters
    BY <2>8, UnlockRefines DEF RR!Next
  <2>9. ASSUME NEW t \in Threads,
               \/ ThreadStarted(t) \/ StartAccess(t) \/ CheckExit(t)
               \/ Finish(t) \/ ThreadFini(t)
        PROVE Stutters
    <3>1. PICK place \in Settled \ {"inside"} :
            /\ pc[t] \in Settled \ {"inside"} /\ pc' = [pc EXCEPT ![t] = place]
            /\ UNCHANGED <<tail_, next_, turn_, node>>
      BY <2>9 DEF ThreadStarted, StartAccess, CheckExit, Finish, ThreadFini, Goto, ring, Settled
    <3> QED
      BY <3>1, StutterSettled
  <2>10. CASE MainReturns
    <3>1. /\ pc[Main] = "run" /\ pc' = [pc EXCEPT ![Main] = "fini"]
          /\ UNCHANGED <<tail_, next_, turn_, node>>
      BY <2>10 DEF MainReturns, Goto, ring
    <3>2. Stutters
      BY <3>1, ThreadsAssumption, StutterSettled DEF Settled
    <3> QED
      BY <2>1, <3>2
  <2>11. CASE UNCHANGED vars
    BY <2>11 DEF vars, RR!vars, Order, Turn, HasTurn, Members
  <2> QED
    BY <2>1, <2>2, <2>3, <2>4, <2>5, <2>6, <2>7, <2>8, <2>9, <2>10, <2>11
       DEF Next, Step, AddThread, Lock
<1> QED
  BY <1>1, <1>2, RingAlways, PTL DEF Spec, TakesTurns, RR!Spec
=============================================================================
