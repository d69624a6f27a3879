------------------------------ MODULE PinDist -------------------------------
(***************************************************************************)
(* The analysis callback memAccess() of pindist/pindist.cpp and the probe  *)
(* handlers of imgload.cpp, as the threads of the program run them: the    *)
(* filters, the mutex mtx, the readers-writer lock g_rwlock and Pin's      *)
(* client lock (RD_PARALLEL, no RD_ROUND_ROBIN).  Each action is one lock  *)
(* operation or what happens between two of them.                          *)
(*                                                                         *)
(* The simulation is reduced to which blocks are above which on the global *)
(* stack, that is, were accessed later; what the handlers change is        *)
(* reduced to the number of changes.  Dist has the calls in full.          *)
(***************************************************************************)
EXTENDS MemBlocks, FiniteSets

CONSTANTS
  Threads,      \* Pin thread ids
  Accesses,     \* the accesses [addr, size] the program makes
  MaxChanges,   \* bound on the changes handlers make
  NULL

VARIABLES
  addr_last,       \* addr_last_arr of memAccess()
  addr_last_rd,    \* addr_last_arr of RD_accessBlock()
  mtx,             \* who holds PIN_MUTEX mtx
  readers, writer, \* who holds PIN_RWMUTEX g_rwlock, and how
  client,          \* who holds Pin's client lock
  threads,         \* the counter of memAccess()
  stack,           \* the blocks on the stack of g_cachesims[0]
  above,           \* the blocks above each of them
  changes,         \* how often a handler changed the registry or a region
  access,          \* the access a thread is simulating, or simulated last
  pc,              \* where a thread is
  by               \* history: the thread that moved a block to the top last

vars == <<addr_last, addr_last_rd, mtx, readers, writer, client, threads, stack,
          above, changes, access, pc, by>>

filters == <<addr_last, addr_last_rd>>
locks   == <<mtx, readers, writer, client>>
simulation == <<stack, above, by>>

Blocks == UNION {Ends(acc) : acc \in Accesses}

ASSUME NullAssumption == NULL \notin Threads /\ NULL \notin Accesses

ASSUME AccessesAssumption == Accesses \subseteq [addr : Nat, size : Nat \ {0}]

\* Inside the braces of memAccess() that threads++ and threads-- enclose.
Simulating == {"first", "second", "leave"}
\* Between PIN_RWMutexReadLock and PIN_RWMutexUnlock.
Reading    == Simulating \cup {"enter", "read_unlock"}
HoldingMtx == Reading \cup {"read_lock", "unlock_mtx"}
Writing    == {"lock_client", "unlock_client", "register", "mark", "write_unlock"}
HoldingClient == {"unlock_client", "instrumenting"}
Places     == HoldingMtx \cup Writing \cup HoldingClient
              \cup {"run", "lock_mtx", "alloc", "region", "instrument"}

Goto(t, place) == pc' = [pc EXCEPT ![t] = place]
Move(t, from, to) == pc[t] = from /\ Goto(t, to)

\* The address 0 that both filters start with is that of a block.
Init ==
  /\ addr_last = [t \in Threads |-> NULL_BLOCK]
  /\ addr_last_rd = [t \in Threads |-> NULL_BLOCK]
  /\ mtx = NULL /\ readers = {} /\ writer = NULL /\ client = NULL
  /\ threads = 0
  /\ stack = {}
  /\ above = [a \in Blocks |-> {}]
  /\ changes = 0
  /\ access = [t \in Threads |-> NULL]
  /\ pc = [t \in Threads |-> "run"]
  /\ by = [a \in Blocks |-> NULL]

\* Block a is now on top of the stack, and above all others.
ToFront(a) ==
  /\ stack' = stack \cup {a}
  /\ above' = [b \in Blocks |-> IF b = a THEN {}
                                ELSE IF b \in stack THEN above[b] \cup {a} ELSE {}]

-----------------------------------------------------------------------------
\* accessed_before
Filtered(t, acc) == FirstBlock(acc) = LastBlock(acc) /\ FirstBlock(acc) = addr_last[t]

\* Mutant of Remember: only the first block is stored.
RememberOnce(t, a1) == addr_last' = [addr_last EXCEPT ![t] = IF @ = NULL_BLOCK THEN a1 ELSE @]

\* addr_last_arr[PIN_ThreadId()] = a1
Remember(t, a1) == addr_last' = [addr_last EXCEPT ![t] = a1]

\* The beginning of memAccess(), up to the lock.  An access that is filtered
\* returns at once.
Begin(t, acc) ==
  /\ pc[t] = "run"
  /\ Remember(t, FirstBlock(acc))
  /\ IF Filtered(t, acc)
     THEN UNCHANGED <<pc, access>>
     ELSE Goto(t, "lock_mtx") /\ access' = [access EXCEPT ![t] = acc]
  /\ UNCHANGED <<addr_last_rd, locks, threads, simulation, changes>>

\* Mutant of LockMtx: the mutex is not taken.
LockMtxNot(t) ==
  /\ Move(t, "lock_mtx", "read_lock")
  /\ UNCHANGED <<filters, locks, threads, simulation, changes, access>>

LockMtx(t) ==
  /\ Move(t, "lock_mtx", "read_lock")
  /\ mtx = NULL
  /\ mtx' = t
  /\ UNCHANGED <<filters, readers, writer, client, threads, simulation, changes, access>>

ReadLock(t) ==
  /\ Move(t, "read_lock", "enter")
  /\ writer = NULL
  /\ readers' = readers \cup {t}
  /\ UNCHANGED <<filters, mtx, writer, client, threads, simulation, changes, access>>

Enter(t) ==
  /\ Move(t, "enter", "first")
  /\ threads' = threads + 1
  /\ UNCHANGED <<filters, locks, simulation, changes, access>>

\* RD_accessBlock(a)
AccessBlock(t, a) ==
  /\ IF a = addr_last_rd[t]
     THEN UNCHANGED simulation
     ELSE ToFront(a) /\ by' = [by EXCEPT ![a] = t]
  /\ addr_last_rd' = [addr_last_rd EXCEPT ![t] = a]

AccessFirst(t) ==
  /\ pc[t] = "first"
  /\ AccessBlock(t, FirstBlock(access[t]))
  /\ Goto(t, IF FirstBlock(access[t]) = LastBlock(access[t]) THEN "leave" ELSE "second")
  /\ UNCHANGED <<addr_last, locks, threads, changes, access>>

\* "memory access spans across two memory blocks"
AccessSecond(t) ==
  /\ Move(t, "second", "leave")
  /\ AccessBlock(t, LastBlock(access[t]))
  /\ UNCHANGED <<addr_last, locks, threads, changes, access>>

Leave(t) ==
  /\ Move(t, "leave", "read_unlock")
  /\ threads' = threads - 1
  /\ UNCHANGED <<filters, locks, simulation, changes, access>>

\* Mutant of ReadUnlock: g_rwlock is not given back.
ReadUnlockNot(t) ==
  /\ Move(t, "read_unlock", "unlock_mtx")
  /\ UNCHANGED <<filters, locks, threads, simulation, changes, access>>

ReadUnlock(t) ==
  /\ Move(t, "read_unlock", "unlock_mtx")
  /\ readers' = readers \ {t}
  /\ UNCHANGED <<filters, mtx, writer, client, threads, simulation, changes, access>>

UnlockMtx(t) ==
  /\ Move(t, "unlock_mtx", "run")
  /\ mtx' = NULL
  /\ UNCHANGED <<filters, readers, writer, client, threads, simulation, changes, access>>

-----------------------------------------------------------------------------
\* The program allocates memory: handle_datastruct(); or it starts or stops a
\* region.
CallHandler(t, handler) ==
  /\ Move(t, "run", handler)
  /\ changes < MaxChanges
  /\ UNCHANGED <<filters, locks, threads, simulation, changes, access>>

\* Mutant of WriteLock: it does not wait for the readers.
WriteLockEager(t, handler, place) ==
  /\ Move(t, handler, place)
  /\ writer = NULL
  /\ writer' = t
  /\ UNCHANGED <<filters, mtx, readers, client, threads, simulation, changes, access>>

WriteLock(t, handler, place) ==
  /\ Move(t, handler, place)
  /\ writer = NULL /\ readers = {}
  /\ writer' = t
  /\ UNCHANGED <<filters, mtx, readers, client, threads, simulation, changes, access>>

LockClient(t) ==
  /\ Move(t, "lock_client", "unlock_client")
  /\ client = NULL
  /\ client' = t
  /\ UNCHANGED <<filters, mtx, readers, writer, threads, simulation, changes, access>>

\* With a source location the data structure is registered, else nothing.
UnlockClient(t) ==
  /\ \E place \in {"register", "write_unlock"} : Move(t, "unlock_client", place)
  /\ client' = NULL
  /\ UNCHANGED <<filters, mtx, readers, writer, threads, simulation, changes, access>>

\* register_datastruct(), or on_region_entry() and on_region_exit().
Change(t) ==
  /\ \E place \in {"register", "mark"} : Move(t, place, "write_unlock")
  /\ changes' = changes + 1
  /\ UNCHANGED <<filters, locks, threads, simulation, access>>

WriteUnlock(t) ==
  /\ Move(t, "write_unlock", "run")
  /\ writer' = NULL
  /\ UNCHANGED <<filters, mtx, readers, client, threads, simulation, changes, access>>

\* Pin holds the client lock while Instruction() instruments new code for a
\* thread; Instruction() takes no lock.
Instrument(t) ==
  /\ Move(t, "run", "instrument")
  /\ UNCHANGED <<filters, locks, threads, simulation, changes, access>>

TakeClient(t) ==
  /\ Move(t, "instrument", "instrumenting")
  /\ client = NULL
  /\ client' = t
  /\ UNCHANGED <<filters, mtx, readers, writer, threads, simulation, changes, access>>

Instrumented(t) ==
  /\ Move(t, "instrumenting", "run")
  /\ client' = NULL
  /\ UNCHANGED <<filters, mtx, readers, writer, threads, simulation, changes, access>>

MemAccess(t) ==
  \/ \E acc \in Accesses : Begin(t, acc)
  \/ LockMtx(t) \/ ReadLock(t) \/ Enter(t) \/ AccessFirst(t) \/ AccessSecond(t)
  \/ Leave(t) \/ ReadUnlock(t) \/ UnlockMtx(t)

Handler(t) ==
  \/ CallHandler(t, "alloc") \/ WriteLock(t, "alloc", "lock_client")
  \/ CallHandler(t, "region") \/ WriteLock(t, "region", "mark")
  \/ LockClient(t) \/ UnlockClient(t) \/ Change(t) \/ WriteUnlock(t)

Pin(t) == Instrument(t) \/ TakeClient(t) \/ Instrumented(t)

Next == \E t \in Threads : MemAccess(t) \/ Handler(t) \/ Pin(t)

Spec == Init /\ [][Next]_vars

-----------------------------------------------------------------------------
\* Type invariant of the callbacks.
TypeOK ==
  /\ addr_last \in [Threads -> Blocks \cup {NULL_BLOCK}]
  /\ addr_last_rd \in [Threads -> Blocks \cup {NULL_BLOCK}]
  /\ mtx \in Threads \cup {NULL}
  /\ readers \subseteq Threads
  /\ writer \in Threads \cup {NULL}
  /\ client \in Threads \cup {NULL}
  /\ threads \in 0 .. 1
  /\ stack \subseteq Blocks
  /\ above \in [Blocks -> SUBSET stack]
  /\ \A a, b \in stack : a # b => (a \in above[b] <=> b \notin above[a])
  /\ changes \in Nat
  /\ access \in [Threads -> Accesses \cup {NULL}]
  /\ pc \in [Threads -> Places]
  /\ by \in [Blocks -> Threads \cup {NULL}]

(***************************************************************************)
(* "assert(threads == 1)", twice in memAccess(): one thread at a time is   *)
(* between the two assertions, and the counter says so.                    *)
(***************************************************************************)
ThreadsIsOne ==
  \A t \in Threads : pc[t] \in Simulating =>
    /\ threads = 1
    /\ \A u \in Threads : pc[u] \in Simulating => u = t

(***************************************************************************)
(* No handler changes the registry or a region while a thread simulates an *)
(* access, so both blocks of an access see the same simulations.           *)
(***************************************************************************)
HandlersExclude ==
  [][changes' # changes => \A t \in Threads : pc[t] \notin Reading]_vars

(***************************************************************************)
(* mtx, g_rwlock and the client lock are taken in an order: no set of      *)
(* threads waits for locks that only threads of the set hold.              *)
(***************************************************************************)
Holders(t) ==
  CASE pc[t] = "lock_mtx"                     -> {mtx}
    [] pc[t] = "read_lock"                    -> {writer}
    [] pc[t] \in {"alloc", "region"}          -> readers \cup {writer}
    [] pc[t] \in {"lock_client", "instrument"} -> {client}
    [] OTHER                                  -> {}

NoCircularWait ==
  \A S \in SUBSET Threads : S # {} => \E t \in S : Holders(t) \cap S = {}

\* The blocks whose next access by thread t would be filtered.
Repeated(t) == {a \in Blocks : pc[t] = "run" /\ a = addr_last[t]}

(***************************************************************************)
(* "Do not account for zero distance accesses?": an access is filtered     *)
(* only if its block is on top of the stack.                               *)
(***************************************************************************)
FilterIsZeroDistance ==
  \A t \in Threads : \A a \in Repeated(t) : a \in stack /\ above[a] = {}

\* The second block of the access that thread t made last, which began in a.
Second(t, a) ==
  IF access[t] # NULL /\ a = FirstBlock(access[t]) THEN {LastBlock(access[t])} ELSE {}

(***************************************************************************)
(* What both filters drop for all that: when memAccess() returns early,    *)
(* the block is on the stack, and what is above it was put there by other  *)
(* threads or is the second block of the thread's own last access.  Or it  *)
(* is the block at address 0, which the filters start with, and the thread *)
(* has put nothing on the stack yet but that second block.                 *)
(***************************************************************************)
FilterDropsOwnRepeats ==
  \A t \in Threads : \A a \in Repeated(t) :
    \/ a \in stack /\ \A b \in above[a] : by[b] # t \/ b \in Second(t, a)
    \/ a = NULL_BLOCK /\ \A b \in stack : by[b] # t \/ b \in Second(t, a)
=============================================================================
