---------------------------- MODULE PinDistProofs ---------------------------
(***************************************************************************)
(* Proofs about the locking of memAccess() and the handlers, for every set *)
(* of threads and every set of accesses; at the end, about the blocks of   *)
(* an access and the bucket bounds, for every length of a block.           *)
(***************************************************************************)
EXTENDS PinDist, BucketBounds, SequenceTheorems, TLAPS

Typed ==
  /\ mtx \in Threads \cup {NULL}
  /\ readers \subseteq Threads
  /\ writer \in Threads \cup {NULL}
  /\ client \in Threads \cup {NULL}
  /\ threads \in {0, 1}
  /\ changes \in Nat
  /\ pc \in [Threads -> Places]

(***************************************************************************)
(* Who holds a lock is at a place between taking it and giving it back,    *)
(* and the readers-writer lock excludes readers while there is a writer.   *)
(***************************************************************************)
LocksMatchPlaces ==
  /\ \A t \in Threads : pc[t] \in HoldingMtx <=> mtx = t
  /\ \A t \in Threads : pc[t] \in Reading <=> t \in readers
  /\ \A t \in Threads : pc[t] \in Writing <=> writer = t
  /\ \A t \in Threads : pc[t] \in HoldingClient <=> client = t
  /\ writer # NULL => readers = {}

\* The counter of memAccess() counts the threads between the two assertions.
CounterMatches ==
  /\ threads = 1 => \E t \in Threads : pc[t] \in Simulating
  /\ \A t \in Threads : pc[t] \in Simulating => threads = 1

IInv == Typed /\ LocksMatchPlaces /\ CounterMatches

-----------------------------------------------------------------------------
(***************************************************************************)
(* Initially nobody holds a lock.                                          *)
(***************************************************************************)
LEMMA InitIInv == Init => IInv
  BY NullAssumption
     DEF Init, IInv, Typed, LocksMatchPlaces, CounterMatches, Places, HoldingMtx, Reading,
         Simulating, Writing, HoldingClient

(***************************************************************************)
(* memAccess() keeps the locks and the counter consistent.                 *)
(***************************************************************************)
LEMMA MemAccessIInv ==
  ASSUME IInv, NEW t \in Threads, MemAccess(t)
  PROVE  IInv'
<1> USE NullAssumption
    DEF IInv, Typed, LocksMatchPlaces, CounterMatches, Places, HoldingMtx, Reading,
        Simulating, Writing, HoldingClient, Goto, Move, locks, filters
<1>1. ASSUME NEW acc \in Accesses, Begin(t, acc) PROVE IInv'
  BY <1>1 DEF Begin
<1>2. CASE LockMtx(t)
  BY <1>2 DEF LockMtx
<1>3. CASE ReadLock(t)
  BY <1>3 DEF ReadLock
<1>4. CASE Enter(t)
  BY <1>4 DEF Enter
<1>5. CASE AccessFirst(t)
  BY <1>5 DEF AccessFirst
<1>6. CASE AccessSecond(t)
  BY <1>6 DEF AccessSecond
<1>7. CASE Leave(t)
  BY <1>7 DEF Leave
<1>8. CASE ReadUnlock(t)
  BY <1>8 DEF ReadUnlock
<1>9. CASE UnlockMtx(t)
  BY <1>9 DEF UnlockMtx
<1>. QED
  BY <1>1, <1>2, <1>3, <1>4, <1>5, <1>6, <1>7, <1>8, <1>9, MemAccess(t) DEF MemAccess

(***************************************************************************)
(* So do the handlers ...                                                  *)
(***************************************************************************)
LEMMA HandlerIInv ==
  ASSUME IInv, NEW t \in Threads, Handler(t)
  PROVE  IInv'
<1> USE NullAssumption
    DEF IInv, Typed, LocksMatchPlaces, CounterMatches, Places, HoldingMtx, Reading,
        Simulating, Writing, HoldingClient, Goto, Move, locks, filters
<1>1. CASE CallHandler(t, "alloc") \/ CallHandler(t, "region")
  BY <1>1 DEF CallHandler
<1>2. CASE WriteLock(t, "alloc", "lock_client") \/ WriteLock(t, "region", "mark")
  BY <1>2 DEF WriteLock
<1>3. CASE LockClient(t)
  BY <1>3 DEF LockClient
<1>4. CASE UnlockClient(t)
  BY <1>4 DEF UnlockClient
<1>5. CASE Change(t)
  BY <1>5 DEF Change
<1>6. CASE WriteUnlock(t)
  BY <1>6 DEF WriteUnlock
<1>. QED
  BY <1>1, <1>2, <1>3, <1>4, <1>5, <1>6, Handler(t) DEF Handler

(***************************************************************************)
(* ... and Pin.                                                            *)
(***************************************************************************)
LEMMA PinIInv ==
  ASSUME IInv, NEW t \in Threads, Pin(t)
  PROVE  IInv'
<1> USE NullAssumption
    DEF IInv, Typed, LocksMatchPlaces, CounterMatches, Places, HoldingMtx, Reading,
        Simulating, Writing, HoldingClient, Goto, Move, locks, filters
<1>1. CASE Instrument(t)
  BY <1>1 DEF Instrument
<1>2. CASE TakeClient(t)
  BY <1>2 DEF TakeClient
<1>3. CASE Instrumented(t)
  BY <1>3 DEF Instrumented
<1>. QED
  BY <1>1, <1>2, <1>3, Pin(t) DEF Pin

(***************************************************************************)
(* IInv holds in every reachable state.                                    *)
(***************************************************************************)
THEOREM Invariant == Spec => []IInv
<1>1. IInv /\ UNCHANGED vars => IInv'
  BY DEF vars, IInv, Typed, LocksMatchPlaces, CounterMatches
<1>2. IInv /\ [Next]_vars => IInv'
  BY <1>1, MemAccessIInv, HandlerIInv, PinIInv DEF Next
<1>. QED
  BY InitIInv, <1>2, PTL DEF Spec

(***************************************************************************)
(* The assertions threads == 1 of memAccess() hold, for any number of      *)
(* threads.                                                                *)
(***************************************************************************)
THEOREM OneThreadSimulates == Spec => []ThreadsIsOne
<1>1. IInv => ThreadsIsOne
  BY DEF IInv, LocksMatchPlaces, CounterMatches, ThreadsIsOne, HoldingMtx, Reading
<1>. QED
  BY Invariant, <1>1, PTL

(***************************************************************************)
(* A handler changes the registry or a region only while no thread is in   *)
(* the simulation.                                                         *)
(***************************************************************************)
THEOREM HandlersAreExclusive == Spec => HandlersExclude
<1>1. ASSUME IInv, [Next]_vars, changes' # changes
      PROVE  \A t \in Threads : pc[t] \notin Reading
  <2>1. PICK u \in Threads : Change(u)
    BY <1>1
       DEF Next, MemAccess, Begin, LockMtx, ReadLock, Enter, AccessFirst, AccessSecond, Leave,
           ReadUnlock, UnlockMtx, Handler, CallHandler, WriteLock, LockClient, UnlockClient,
           WriteUnlock, Pin, Instrument, TakeClient, Instrumented, vars
  <2>2. writer = u
    BY <1>1, <2>1 DEF Change, Move, IInv, LocksMatchPlaces, Writing
  <2>. QED
    BY <1>1, <2>2, NullAssumption DEF IInv, LocksMatchPlaces
<1>. QED
  BY Invariant, <1>1, PTL DEF Spec, HandlersExclude

(***************************************************************************)
(* The locks cannot deadlock.  Who holds the client lock waits for         *)
(* nothing; a reader waits for nothing and a writer at most for the client *)
(* lock; who holds mtx waits at most for a writer.                         *)
(***************************************************************************)
THEOREM NoDeadlock == Spec => []NoCircularWait
<1>1. IInv => NoCircularWait
  <2> SUFFICES ASSUME IInv, NEW S \in SUBSET Threads,
                      \A t \in S : Holders(t) \cap S # {}
               PROVE  S = {}
    BY DEF NoCircularWait
  <2> USE NullAssumption DEF IInv, Typed, LocksMatchPlaces, Places, HoldingMtx, Reading,
                             Simulating, Writing, HoldingClient
  <2>1. \A t \in S : pc[t] \notin {"lock_client", "instrument"}
    BY DEF Holders
  <2>2. \A t \in S : pc[t] \notin {"alloc", "region", "read_lock"}
    BY <2>1 DEF Holders
  <2>3. \A t \in S : pc[t] # "lock_mtx"
    BY <2>2 DEF Holders
  <2>. QED
    BY <2>1, <2>2, <2>3 DEF Holders
<1>. QED
  BY Invariant, <1>1, PTL

-----------------------------------------------------------------------------
(***************************************************************************)
(* What the filters remember.  A thread is Early in memAccess() until it   *)
(* has simulated the blocks of its access.                                 *)
(***************************************************************************)
Early == {"lock_mtx", "read_lock", "enter", "first", "second"}

Stacked ==
  /\ stack \subseteq Blocks
  /\ above \in [Blocks -> SUBSET stack]
  /\ \A a, b \in stack : a # b => (a \in above[b] <=> b \notin above[a])
  /\ by \in [Blocks -> Threads \cup {NULL}]

Filtering ==
  /\ addr_last \in [Threads -> Blocks \cup {NULL_BLOCK}]
  /\ addr_last_rd \in [Threads -> Blocks \cup {NULL_BLOCK}]
  /\ access \in [Threads -> Accesses \cup {NULL}]

\* What thread t has put above a block, or on the stack, is in C.
OthersAbove(t, a, C) == a \in stack /\ \A b \in above[a] : by[b] # t \/ b \in C
OthersOnly(t, C)     == \A b \in stack : by[b] # t \/ b \in C

\* A filter of t may hold block a: the last one, but for C, that t has put on
\* the stack, or the one it has started with.
Last(t, a, C) == OthersAbove(t, a, C) \/ (a = NULL_BLOCK /\ OthersOnly(t, C))

Remembered(t) ==
  /\ Last(t, addr_last_rd[t], {})
  /\ addr_last[t] = IF access[t] = NULL THEN NULL_BLOCK ELSE FirstBlock(access[t])
  /\ pc[t] \in Early => access[t] # NULL
  /\ pc[t] = "second" => addr_last_rd[t] = addr_last[t]
  /\ pc[t] \notin Early => Last(t, addr_last[t], Second(t, addr_last[t]))

RInv == /\ pc \in [Threads -> Places] /\ Stacked /\ Filtering
        /\ \A t \in Threads : Remembered(t)

(***************************************************************************)
(* What thread t has put above a block it may still have put there when    *)
(* somebody has put block a on the stack, who is t only if a may be there. *)
(***************************************************************************)
LEMMA ToFrontLast ==
  ASSUME Stacked, NEW t \in Threads, NEW a \in Blocks,
         ToFront(a), by' = [by EXCEPT ![a] = t],
         NEW u \in Threads, NEW b, NEW C, Last(u, b, C), u = t => a \in C
  PROVE  Last(u, b, C)'
<1>1. /\ stack' = stack \cup {a}
      /\ above' = [c \in Blocks |-> IF c = a THEN {}
                                    ELSE IF c \in stack THEN above[c] \cup {a} ELSE {}]
  BY DEF ToFront
<1>2. ASSUME NEW d \in stack', d = a \/ by[d] # u \/ d \in C
      PROVE  by'[d] # u \/ d \in C
  BY <1>1, <1>2 DEF Stacked
<1>3. CASE OthersAbove(u, b, C)
  <2>1. b \in stack /\ b \in stack' /\ b \in Blocks
    BY <1>1, <1>3 DEF OthersAbove, Stacked
  <2>2. CASE b = a
    BY <1>1, <2>1, <2>2 DEF Last, OthersAbove
  <2>3. CASE b # a
    <3>1. above'[b] = above[b] \cup {a} /\ above[b] \subseteq stack
      BY <1>1, <2>1, <2>3 DEF Stacked
    <3>2. ASSUME NEW d \in above'[b]
          PROVE  by'[d] # u \/ d \in C
      <4>1. d \in stack'
        BY <1>1, <3>1
      <4>2. d = a \/ by[d] # u \/ d \in C
        BY <1>3, <3>1 DEF OthersAbove
      <4> QED
        BY <1>2, <4>1, <4>2
    <3> QED
      BY <2>1, <3>2 DEF Last, OthersAbove
  <2> QED
    BY <2>2, <2>3
<1>4. CASE b = NULL_BLOCK /\ OthersOnly(u, C)
  <2>1. ASSUME NEW d \in stack'
        PROVE  by'[d] # u \/ d \in C
    <3>1. d = a \/ by[d] # u \/ d \in C
      BY <1>1, <1>4 DEF OthersOnly
    <3> QED
      BY <1>2, <3>1
  <2> QED
    BY <1>4, <2>1 DEF Last, OthersOnly
<1> QED
  BY <1>3, <1>4 DEF Last

(***************************************************************************)
(* What RD_accessBlock(a) leaves on the stack: a with nothing of the       *)
(* thread above it, or not at all if it is the block the filter has        *)
(* started with; and nothing new above what others look at but a.          *)
(***************************************************************************)
LEMMA AccessBlockStack ==
  ASSUME Stacked, Filtering, NEW t \in Threads, NEW a \in Blocks,
         Last(t, addr_last_rd[t], {}), AccessBlock(t, a)
  PROVE  /\ Stacked'
         /\ addr_last_rd' = [addr_last_rd EXCEPT ![t] = a]
         /\ Last(t, a, {})'
         /\ \A u \in Threads : \A b, C :
              Last(u, b, C) /\ (u = t => a \in C) => Last(u, b, C)'
<1>1. CASE a = addr_last_rd[t]
  <2>1. UNCHANGED <<stack, above, by>> /\ addr_last_rd' = [addr_last_rd EXCEPT ![t] = a]
    BY <1>1 DEF AccessBlock, simulation
  <2>2. Stacked'
    BY <2>1 DEF Stacked
  <2>3. \A u, b, C : Last(u, b, C) => Last(u, b, C)'
    BY <2>1 DEF Last, OthersAbove, OthersOnly
  <2> QED
    BY <1>1, <2>1, <2>2, <2>3
<1>2. CASE a # addr_last_rd[t]
  <2>1. ToFront(a) /\ by' = [by EXCEPT ![a] = t] /\ addr_last_rd' = [addr_last_rd EXCEPT ![t] = a]
    BY <1>2 DEF AccessBlock
  <2>2. /\ stack' = stack \cup {a}
        /\ above' = [b \in Blocks |-> IF b = a THEN {}
                                      ELSE IF b \in stack THEN above[b] \cup {a} ELSE {}]
    BY <2>1 DEF ToFront
  <2>3. above' \in [Blocks -> SUBSET stack']
    BY <2>2 DEF Stacked
  <2>4. \A b, c \in stack' : b # c => (b \in above'[c] <=> c \notin above'[b])
    BY <2>2 DEF Stacked
  <2>5. Stacked'
    BY <2>1, <2>2, <2>3, <2>4 DEF Stacked
  <2>6. Last(t, a, {})'
    BY <2>2 DEF Last, OthersAbove
  <2>7. \A u \in Threads : \A b, C :
          Last(u, b, C) /\ (u = t => a \in C) => Last(u, b, C)'
    BY <2>1, ToFrontLast
  <2> QED
    BY <2>1, <2>5, <2>6, <2>7
<1> QED
  BY <1>1, <1>2

(***************************************************************************)
(* Steps that neither access a block nor begin an access.                  *)
(***************************************************************************)
LEMMA MoveRInv ==
  ASSUME RInv, NEW t \in Threads, NEW place \in Places \ {"second"},
         pc' = [pc EXCEPT ![t] = place], place \in Early <=> pc[t] \in Early,
         UNCHANGED <<filters, simulation, access>>
  PROVE  RInv'
<1> USE DEF filters, simulation
<1>1. pc' \in [Threads -> Places]
  BY DEF RInv
<1>2. Stacked' /\ Filtering'
  BY DEF RInv, Stacked, Filtering
<1>3. ASSUME NEW u \in Threads
      PROVE  Remembered(u)'
  <2>1. Remembered(u) /\ (pc'[u] \in Early <=> pc[u] \in Early)
        /\ (pc'[u] = "second" => pc[u] = "second")
    BY DEF RInv
  <2> QED
    BY <2>1 DEF Remembered, Last, OthersAbove, OthersOnly, Second
<1> QED
  BY <1>1, <1>2, <1>3 DEF RInv

(***************************************************************************)
(* The beginning of an access.  One that is filtered remembers the block   *)
(* that was remembered before.                                             *)
(***************************************************************************)
LEMMA BeginRInv ==
  ASSUME RInv, NEW t \in Threads, NEW acc \in Accesses, Begin(t, acc)
  PROVE  RInv'
<1>1. FirstBlock(acc) \in Blocks /\ acc # NULL
  BY NullAssumption DEF Blocks, Ends
<1>2. /\ addr_last' = [addr_last EXCEPT ![t] = FirstBlock(acc)]
      /\ UNCHANGED <<addr_last_rd, stack, above, by>> /\ pc[t] = "run"
  BY DEF Begin, Remember, simulation
<1>3. /\ Stacked' /\ addr_last' \in [Threads -> Blocks \cup {NULL_BLOCK}]
      /\ addr_last_rd' \in [Threads -> Blocks \cup {NULL_BLOCK}]
  BY <1>1, <1>2 DEF RInv, Stacked, Filtering
<1>4. CASE Filtered(t, acc)
  <2>1. addr_last' = addr_last /\ pc' = pc /\ access' = access
    BY <1>2, <1>4 DEF Begin, Filtered, RInv, Filtering
  <2> QED
    BY <1>2, <1>3, <2>1 DEF RInv, Filtering, Remembered, Last, OthersAbove, OthersOnly, Second
<1>5. CASE ~Filtered(t, acc)
  <2>1. pc' = [pc EXCEPT ![t] = "lock_mtx"] /\ access' = [access EXCEPT ![t] = acc]
    BY <1>5 DEF Begin, Goto
  <2>2. pc' \in [Threads -> Places] /\ Filtering'
    BY <1>3, <2>1 DEF RInv, Filtering, Places, HoldingMtx, Reading, Simulating, Writing, HoldingClient
  <2>3. ASSUME NEW u \in Threads
        PROVE  Remembered(u)'
    <3>1. Remembered(u)
      BY DEF RInv
    <3>2. \A b, C : Last(u, b, C) => Last(u, b, C)'
      BY <1>2 DEF Last, OthersAbove, OthersOnly
    <3>3. CASE u = t
      <4>1. pc'[u] = "lock_mtx" /\ access'[u] = acc /\ addr_last'[u] = FirstBlock(acc)
        BY <1>2, <2>1, <3>3 DEF RInv, Filtering
      <4>2. Last(u, addr_last_rd[u], {})'
        BY <1>2, <3>1, <3>2 DEF Remembered
      <4> QED
        BY <1>1, <4>1, <4>2 DEF Remembered, Early
    <3>4. CASE u # t
      <4>1. pc'[u] = pc[u] /\ access'[u] = access[u] /\ addr_last'[u] = addr_last[u]
        BY <1>2, <2>1, <3>4 DEF RInv, Filtering
      <4> QED
        BY <1>2, <3>1, <4>1 DEF Remembered, Last, OthersAbove, OthersOnly, Second
    <3> QED
      BY <3>3, <3>4
  <2> QED
    BY <1>3, <2>2, <2>3 DEF RInv
<1> QED
  BY <1>4, <1>5

(***************************************************************************)
(* Accesses of blocks: what the thread has remembered is the first block,  *)
(* above which it puts at most the second one itself.                      *)
(***************************************************************************)
LEMMA AccessRInv ==
  ASSUME RInv, NEW t \in Threads, AccessFirst(t) \/ AccessSecond(t)
  PROVE  RInv'
<1>1. PICK acc \in Accesses : acc = access[t]
  BY DEF RInv, Filtering, Remembered, Early, AccessFirst, AccessSecond, Move
<1>2. FirstBlock(acc) \in Blocks /\ LastBlock(acc) \in Blocks /\ acc # NULL
  BY NullAssumption DEF Blocks, Ends
<1>3. PICK a \in Blocks : a = IF pc[t] = "first" THEN FirstBlock(acc) ELSE LastBlock(acc)
  BY <1>2
<1>4. /\ pc[t] \in {"first", "second"} /\ AccessBlock(t, a)
      /\ pc' = [pc EXCEPT ![t] = IF pc[t] = "first" /\ FirstBlock(acc) # LastBlock(acc)
                                 THEN "second" ELSE "leave"]
      /\ UNCHANGED <<addr_last, access>>
  BY <1>1, <1>3 DEF AccessFirst, AccessSecond, Goto, Move
<1>5. Remembered(t) /\ addr_last[t] = FirstBlock(acc) /\ pc' \in [Threads -> Places]
  BY <1>1, <1>2, <1>4 DEF RInv, Remembered, Places, HoldingMtx, Reading, Simulating
<1>6. /\ Stacked' /\ addr_last_rd' = [addr_last_rd EXCEPT ![t] = a]
      /\ Last(t, a, {})'
      /\ \A u \in Threads : \A b, C :
           Last(u, b, C) /\ (u = t => a \in C) => Last(u, b, C)'
  <2>1. Stacked /\ Filtering /\ Last(t, addr_last_rd[t], {})
    BY <1>5 DEF RInv, Remembered
  <2> QED
    BY <1>4, <2>1, AccessBlockStack
<1>7. Filtering' /\ addr_last_rd'[t] = a
  BY <1>4, <1>6 DEF RInv, Filtering
<1>8. ASSUME NEW u \in Threads, u # t
      PROVE  Remembered(u)'
  <2>1. /\ Remembered(u) /\ pc'[u] = pc[u] /\ addr_last_rd'[u] = addr_last_rd[u]
        /\ addr_last'[u] = addr_last[u] /\ access'[u] = access[u]
    BY <1>4, <1>6, <1>8 DEF RInv, Filtering
  <2>2. PICK b : b = addr_last_rd[u]
    OBVIOUS
  <2>3. Last(u, b, {})'
    BY <1>6, <1>8, <2>1, <2>2 DEF Remembered
  <2>4. PICK c : c = addr_last[u]
    OBVIOUS
  <2>5. PICK C : C = Second(u, c)
    OBVIOUS
  <2>6. C = Second(u, c)'
    BY <2>1, <2>5 DEF Second
  <2>7. pc[u] \notin Early => Last(u, c, C)'
    BY <1>6, <1>8, <2>1, <2>4, <2>5 DEF Remembered
  <2> QED
    BY <2>1, <2>2, <2>3, <2>4, <2>6, <2>7 DEF Remembered, Last, OthersAbove, OthersOnly
<1>9. Remembered(t)'
  <2>1. /\ addr_last'[t] = FirstBlock(acc) /\ access'[t] = acc
        /\ pc'[t] = IF pc[t] = "first" /\ FirstBlock(acc) # LastBlock(acc)
                    THEN "second" ELSE "leave"
    BY <1>1, <1>4, <1>5 DEF RInv
  <2>2. PICK f : f = FirstBlock(acc)
    OBVIOUS
  <2>3. PICK C : C = {LastBlock(acc)}
    OBVIOUS
  <2>4. Last(t, f, C)'
    <3>1. CASE pc[t] = "first"
      <4>1. Last(t, f, {})'
        BY <1>3, <1>6, <2>2, <3>1
      <4> QED
        BY <4>1 DEF Last, OthersAbove, OthersOnly
    <3>2. CASE pc[t] = "second"
      <4>1. a \in C /\ f = addr_last_rd[t]
        BY <1>3, <1>5, <2>2, <2>3, <3>2 DEF Remembered
      <4>2. Last(t, f, {})
        BY <1>5, <4>1 DEF Remembered
      <4>3. Last(t, f, C)
        BY <4>2 DEF Last, OthersAbove, OthersOnly
      <4> QED
        BY <1>6, <4>1, <4>3
    <3> QED
      BY <1>4, <3>1, <3>2
  <2>5. Last(t, addr_last_rd[t], {})'
    BY <1>6, <1>7 DEF Last, OthersAbove, OthersOnly
  <2>6. pc'[t] = "second" => addr_last_rd'[t] = FirstBlock(acc)
    BY <1>3, <1>7, <2>1
  <2>7. pc'[t] \in {"second", "leave"}
    BY <2>1
  <2>8. Last(t, addr_last[t], Second(t, addr_last[t]))'
    BY <1>2, <2>1, <2>2, <2>3, <2>4 DEF Last, OthersAbove, OthersOnly, Second
  <2> QED
    BY <1>2, <2>1, <2>5, <2>6, <2>7, <2>8 DEF Remembered
<1> QED
  BY <1>5, <1>6, <1>7, <1>8, <1>9 DEF RInv

(***************************************************************************)
(* The filters remember right in every reachable state.                    *)
(***************************************************************************)
THEOREM FiltersRemember == Spec => []RInv
<1>1. Init => RInv
  BY NullAssumption
     DEF Init, RInv, Stacked, Filtering, Remembered, Last, OthersOnly, Early, Places, HoldingMtx, Reading,
         Simulating, Writing, HoldingClient
<1>2. ASSUME RInv, NEW t \in Threads, MemAccess(t)
      PROVE  RInv'
  <2> USE DEF Move, Goto, filters, Early, Places, HoldingMtx, Reading, Simulating
  <2>1. CASE LockMtx(t) \/ ReadLock(t) \/ Enter(t)
    BY <1>2, <2>1, MoveRInv DEF LockMtx, ReadLock, Enter
  <2>2. CASE Leave(t) \/ ReadUnlock(t) \/ UnlockMtx(t)
    BY <1>2, <2>2, MoveRInv DEF Leave, ReadUnlock, UnlockMtx
  <2> QED
    BY <1>2, <2>1, <2>2, BeginRInv, AccessRInv DEF MemAccess
<1>3. ASSUME RInv, NEW t \in Threads, Handler(t) \/ Pin(t)
      PROVE  RInv'
  <2> USE DEF Move, Goto, filters, Early, Places, HoldingMtx, Reading, Simulating, Writing,
              HoldingClient
  <2>1. CASE CallHandler(t, "alloc") \/ CallHandler(t, "region")
    BY <1>3, <2>1, MoveRInv DEF CallHandler
  <2>2. CASE WriteLock(t, "alloc", "lock_client") \/ WriteLock(t, "region", "mark")
    BY <1>3, <2>2, MoveRInv DEF WriteLock
  <2>3. CASE LockClient(t) \/ UnlockClient(t)
    BY <1>3, <2>3, MoveRInv DEF LockClient, UnlockClient
  <2>4. CASE Change(t) \/ WriteUnlock(t)
    BY <1>3, <2>4, MoveRInv DEF Change, WriteUnlock
  <2>5. CASE Instrument(t) \/ TakeClient(t) \/ Instrumented(t)
    BY <1>3, <2>5, MoveRInv DEF Instrument, TakeClient, Instrumented
  <2> QED
    BY <1>3, <2>1, <2>2, <2>3, <2>4, <2>5 DEF Handler, Pin
<1>4. RInv /\ UNCHANGED vars => RInv'
  BY DEF vars, RInv, Stacked, Filtering, Remembered, Last, OthersAbove, OthersOnly, Second
<1>5. RInv /\ [Next]_vars => RInv'
  BY <1>2, <1>3, <1>4 DEF Next
<1> QED
  BY <1>1, <1>5, PTL DEF Spec

(***************************************************************************)
(* What memAccess() drops is a block that is on the stack, with blocks of  *)
(* other threads or the second block of the thread's last access above it; *)
(* or it is the block at address 0, at which the filters start, of a       *)
(* thread that has put nothing else but that second block on the stack.    *)
(***************************************************************************)
THEOREM FilterIsSafe == Spec => []FilterDropsOwnRepeats
<1>1. RInv => FilterDropsOwnRepeats
  <2> SUFFICES ASSUME RInv, NEW t \in Threads, NEW a \in Repeated(t)
               PROVE  Last(t, a, Second(t, a))
    BY DEF FilterDropsOwnRepeats, Last, OthersAbove, OthersOnly
  <2>1. pc[t] = "run" /\ a = addr_last[t] /\ Remembered(t)
    BY DEF Repeated, RInv
  <2> QED
    BY <2>1 DEF Remembered, Early
<1> QED
  BY <1>1, FiltersRemember, PTL

(***************************************************************************)
(* The types of all variables of the callbacks.                            *)
(***************************************************************************)
THEOREM TypeCorrect == Spec => []TypeOK
<1>1. IInv /\ RInv => TypeOK
  BY DEF IInv, Typed, RInv, Stacked, Filtering, TypeOK
<1> QED
  BY <1>1, Invariant, FiltersRemember, PTL

-----------------------------------------------------------------------------
(***************************************************************************)
(* The quotient and the remainder of a division.                           *)
(***************************************************************************)
LEMMA Division ==
  ASSUME NEW x \in Nat, NEW L \in Nat \ {0}
  PROVE  x \div L \in Nat /\ (x \div L) * L <= x /\ x < (x \div L) * L + L
OBVIOUS

(***************************************************************************)
(* A quotient is not larger than the number.                               *)
(***************************************************************************)
LEMMA QuotientBelow ==
  ASSUME NEW x \in Nat, NEW L \in Nat \ {0}
  PROVE  x \div L <= x
<1>1. x \div L \in Nat /\ (x \div L) * L <= x
  BY Division
<1>2. \A q \in Nat : q <= q * L /\ q * L \in Nat
  OBVIOUS
<1> QED
  BY <1>1, <1>2

(***************************************************************************)
(* A larger number has at least as large a quotient.                       *)
(***************************************************************************)
LEMMA QuotientMonotonic ==
  ASSUME NEW x \in Nat, NEW y \in Nat, NEW L \in Nat \ {0}, x <= y
  PROVE  x \div L <= y \div L
OBVIOUS

(***************************************************************************)
(* One that is larger by the divisor has a larger quotient.                *)
(***************************************************************************)
LEMMA QuotientGrows ==
  ASSUME NEW x \in Nat, NEW y \in Nat, NEW L \in Nat \ {0}, x + L <= y
  PROVE  x \div L < y \div L
OBVIOUS

(***************************************************************************)
(* An access touches the blocks from that of its first byte to that of its *)
(* last.                                                                   *)
(***************************************************************************)
LEMMA TouchedBlocks ==
  ASSUME NEW acc \in [addr : Nat, size : Nat \ {0}]
  PROVE  Touched(acc) = FirstBlock(acc) .. LastBlock(acc)
<1> DEFINE L == MEMBLOCKLEN
           first == acc.addr
           last == acc.addr + acc.size - 1
<1>1. L \in Nat \ {0} /\ first \in Nat /\ last \in Nat /\ first <= last
  BY BlockLenAssumption
<1> HIDE DEF L, first, last
<1>2. Touched(acc) = {x \div L : x \in first .. last}
  BY DEF Touched, Bytes, BlockOf, L, first, last
<1>3. FirstBlock(acc) = first \div L /\ LastBlock(acc) = last \div L
  BY DEF FirstBlock, LastBlock, BlockOf, L, first, last
<1>4. ASSUME NEW x \in first .. last
      PROVE  x \div L \in first \div L .. last \div L
  BY <1>1, QuotientMonotonic, Division
<1>5. ASSUME NEW b \in first \div L .. last \div L
      PROVE  \E x \in first .. last : x \div L = b
  <2>1. /\ b \in Nat
        /\ (last \div L) * L <= last /\ first < (first \div L) * L + L
        /\ first \div L \in Nat /\ last \div L \in Nat
    BY <1>1, Division
  <2>2. CASE b = first \div L
    BY <1>1, <2>2
  <2>3. CASE b # first \div L
    <3>1. (first \div L) + 1 <= b /\ b <= last \div L
      BY <2>1, <2>3
    <3>2. ((first \div L) + 1) * L <= b * L /\ b * L <= (last \div L) * L
      BY <1>1, <2>1, <3>1
    <3>3. ((first \div L) + 1) * L = (first \div L) * L + L /\ b * L \in Nat
      BY <1>1, <2>1
    <3>4. b * L \in first .. last
      BY <1>1, <2>1, <3>2, <3>3
    <3>5. (b * L) \div L = b
      BY <1>1, <2>1
    <3> QED
      BY <3>4, <3>5
  <2> QED
    BY <2>2, <2>3
<1> QED
  BY <1>2, <1>3, <1>4, <1>5

(***************************************************************************)
(* memAccess() calls RD_accessBlock() for the first and the last block of  *)
(* an access.  For accesses that are longer than a block by at most one    *)
(* byte these are all the blocks they touch, however they are aligned.     *)
(***************************************************************************)
THEOREM EndsCoverAccess ==
  ASSUME NEW acc \in [addr : Nat, size : Nat \ {0}], acc.size <= MEMBLOCKLEN + 1
  PROVE  Touched(acc) = Ends(acc)
<1> DEFINE L == MEMBLOCKLEN
           f == acc.addr \div L
           l == (acc.addr + acc.size - 1) \div L
<1>1. L \in Nat \ {0} /\ acc.addr \in Nat /\ acc.size \in Nat \ {0} /\ acc.size <= L + 1
  BY BlockLenAssumption
<1>2. FirstBlock(acc) = f /\ LastBlock(acc) = l
  BY DEF FirstBlock, LastBlock, BlockOf
<1> HIDE DEF L
<1>3. /\ f \in Nat /\ l \in Nat /\ f <= l
      /\ acc.addr < f * L + L /\ l * L <= acc.addr + acc.size - 1
  <2>1. acc.addr + acc.size - 1 \in Nat /\ acc.addr <= acc.addr + acc.size - 1
    BY <1>1
  <2>2. f \in Nat /\ acc.addr < f * L + L
    BY <1>1, Division
  <2>3. l \in Nat /\ l * L <= acc.addr + acc.size - 1
    BY <1>1, <2>1, Division
  <2>4. f <= l
    BY <1>1, <2>1, QuotientMonotonic
  <2> QED
    BY <2>2, <2>3, <2>4
<1> HIDE DEF f, l
<1>4. l * L < (f + 2) * L
  <2>1. f * L \in Nat /\ l * L \in Nat /\ (f + 2) * L = f * L + L + L
    BY <1>1, <1>3
  <2> QED
    BY <1>1, <1>3, <2>1
<1>5. l < f + 2
  <2>1. CASE f + 2 <= l
    <3>1. (f + 2) * L <= l * L
      BY <1>1, <1>3, <2>1
    <3>2. (f + 2) * L \in Nat /\ l * L \in Nat
      BY <1>1, <1>3
    <3> QED
      BY <1>4, <3>1, <3>2
  <2> QED
    BY <1>3, <2>1
<1>6. f .. l = {f, l}
  BY <1>3, <1>5
<1> QED
  BY <1>2, <1>6, TouchedBlocks DEF Ends

-----------------------------------------------------------------------------
(***************************************************************************)
(* The capacities grow, each by a KiB or more.                             *)
(***************************************************************************)
LEMMA CapacitiesGrow ==
  /\ \A i \in 1 .. 14 : Capacities[i] \in Nat /\ Capacities[i] >= 1024
  /\ \A i, j \in 1 .. 14 : i < j => Capacities[i] + 1024 <= Capacities[j]
BY DEF Capacities, KiB, MiB, L1d_capacity_per_way, L2_capacity_per_way

(***************************************************************************)
(* What CacheSim assumes of Bucket::mins, for a sequence m.                *)
(***************************************************************************)
AreBounds(m) ==
  /\ m \in Seq(Nat)
  /\ Len(m) >= 2
  /\ m[1] = 0 /\ m[Len(m)] = 0
  /\ \A b, c \in 1 .. Len(m) - 1 : b < c => m[b] < m[c]

(***************************************************************************)
(* With blocks of up to a KiB the bounds main() builds are what CacheSim   *)
(* assumes: no two buckets have the same minimum, except the first and the *)
(* infinite one, and these differ when Exit() prints.                      *)
(***************************************************************************)
THEOREM MainBuildsBounds ==
  ASSUME MEMBLOCKLEN <= KiB, NEW UINT_MAX \in Nat, Capacities[14] < UINT_MAX
  PROVE  /\ AreBounds(MainMins)
         /\ \A b, c \in 1 .. 16 : b < c => ExitMins(UINT_MAX)[b] < ExitMins(UINT_MAX)[c]
<1> DEFINE L == MEMBLOCKLEN
<1>1. L \in Nat \ {0} /\ L <= 1024
  BY BlockLenAssumption DEF KiB
<1> HIDE DEF L
<1>2. ASSUME NEW i \in 1 .. 14
      PROVE  /\ Capacities[i] \div L \in Nat
             /\ 0 < Capacities[i] \div L
             /\ Capacities[i] \div L < UINT_MAX
  <2> DEFINE c == Capacities[i]
  <2>1. c \in Nat /\ 0 + L <= c /\ c < UINT_MAX
    BY <1>1, CapacitiesGrow
  <2> HIDE DEF c
  <2>2. 0 \div L = 0
    BY <1>1
  <2>3. 0 \div L < c \div L
    BY <1>1, <2>1, QuotientGrows
  <2>4. c \div L <= c /\ c \div L \in Nat
    BY <1>1, <2>1, QuotientBelow, Division
  <2>5. c \div L \in Nat /\ 0 < c \div L /\ c \div L < UINT_MAX
    BY <2>1, <2>2, <2>3, <2>4
  <2> QED
    BY <2>5 DEF c
<1>3. ASSUME NEW i \in 1 .. 14, NEW j \in 1 .. 14, i < j
      PROVE  Capacities[i] \div L < Capacities[j] \div L
  <2> DEFINE c == Capacities[i]
             d == Capacities[j]
  <2>1. c \in Nat /\ d \in Nat /\ c + L <= d
    BY <1>1, <1>3, CapacitiesGrow
  <2> HIDE DEF c, d
  <2>2. c \div L < d \div L
    BY <1>1, <2>1, QuotientGrows
  <2> QED
    BY <2>2 DEF c, d
<1> DEFINE m == MainMins
<1>4. /\ m[1] = 0 /\ m[16] = 0
      /\ \A n \in 2 .. 15 : m[n] = Capacities[n - 1] \div L
  BY DEF MainMins, L
<1>5. m \in [1 .. 16 -> Nat]
  BY <1>2 DEF MainMins, L
<1> HIDE DEF m
<1>6. m \in Seq(Nat) /\ Len(m) = 16
  <2>1. m \in Seq(Nat) /\ DOMAIN m = 1 .. 16
    BY <1>5, SeqDef
  <2> QED
    BY <2>1, LenProperties
<1>7. ASSUME NEW b \in 1 .. 15, NEW c \in 1 .. 15, b < c
      PROVE  m[b] < m[c]
  <2>1. c \in 2 .. 15 /\ c - 1 \in 1 .. 14 /\ m[c] = Capacities[c - 1] \div L
    BY <1>4, <1>7
  <2>2. CASE b = 1
    BY <1>2, <1>4, <2>1, <2>2
  <2>3. CASE b # 1
    <3>1. b - 1 \in 1 .. 14 /\ m[b] = Capacities[b - 1] \div L /\ b - 1 < c - 1
      BY <1>4, <1>7, <2>3
    <3> QED
      BY <1>3, <2>1, <3>1
  <2> QED
    BY <2>2, <2>3
<1>8. \A b \in 1 .. 15 : m[b] < UINT_MAX
  BY <1>2, <1>4, CapacitiesGrow
<1>9. /\ ExitMins(UINT_MAX)[16] = UINT_MAX
      /\ \A b \in 1 .. 15 : ExitMins(UINT_MAX)[b] = m[b]
  BY <1>5 DEF ExitMins, m
<1>10. AreBounds(MainMins)
  BY <1>4, <1>6, <1>7 DEF AreBounds, m
<1> QED
  BY <1>7, <1>8, <1>9, <1>10
=============================================================================
