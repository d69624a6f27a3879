------------------------------ MODULE PinTrace ------------------------------
(***************************************************************************)
(* The trace recorder pindist/pintrace.cpp: memAccess() hands the blocks   *)
(* of every access to accessBlock(), which collects them in a buffer and   *)
(* writes the buffer to the trace file when it finds it full.              *)
(*                                                                         *)
(* Pin runs the callbacks on the threads of the program, and nothing here  *)
(* takes a lock: each action is a load or a store of a shared variable     *)
(* with what the thread does alone.  The build keeps the value of ptr that *)
(* it compared in a register, so that ptr is loaded once in a call.        *)
(***************************************************************************)
EXTENDS MemBlocks, SequencesExt

CONSTANTS
  Threads,       \* threads of the program
  Accesses,      \* the accesses [addr, size] they make outside the stack
  CHUNKSIZE,
  MaxAccesses,   \* bound on the accesses outside the stack
  MaxStack       \* bound on the stack accesses

ASSUME PinTraceAssumption ==
  /\ Threads # {}
  /\ CHUNKSIZE \in Nat \ {0}
  /\ Accesses \subseteq [addr : Nat, size : Nat \ {0}]

VARIABLES
  mergeBuffer,   \* static in accessBlock()
  ptr,           \* static in accessBlock(): the elements used
  trace,         \* the file: what each fwrite() appended
  counter,       \* aCount, bCount and stackAccesses
  closed,        \* Exit() was called
  pc,            \* where a thread is
  blocks,        \* the blocks a thread still calls accessBlock() for
  loaded,        \* the value of a counter or of ptr a thread has loaded
  len,           \* the argument of writeChunk()
  accessed,      \* history: the blocks accessBlock() was called for
  made,          \* history: what the counters should have counted
  active         \* history: the threads that have made an access

vars == <<mergeBuffer, ptr, trace, counter, closed, pc, blocks, loaded, len,
          accessed, made, active>>

history == <<accessed, made, active>>

Counters == {"aCount", "bCount", "stackAccesses"}
Places   == {"run", "count", "count_stack", "test", "bump", "store", "write",
             "count_blocks", "reset"}

Blocks == {NULL_BLOCK} \cup UNION {Ends(acc) : acc \in Accesses}

Goto(t, place) == pc' = [pc EXCEPT ![t] = place]
Move(t, from, to) == ~closed /\ pc[t] = from /\ Goto(t, to)
Load(t, value) == loaded' = [loaded EXCEPT ![t] = value]

\* x += n for the counter x the thread has loaded.
Add(t, x, n) == counter' = [counter EXCEPT ![x] = loaded[t] + n]

Note(t, x, n) ==
  /\ made' = [made EXCEPT ![x] = @ + n]
  /\ active' = active \cup {t}

Init ==
  /\ mergeBuffer = [i \in 0 .. CHUNKSIZE - 1 |-> NULL_BLOCK]
  /\ ptr = 0
  /\ trace = << >>
  /\ counter = [x \in Counters |-> 0]
  /\ closed = FALSE
  /\ pc = [t \in Threads |-> "run"]
  /\ blocks = [t \in Threads |-> << >>]
  /\ loaded = [t \in Threads |-> 0]
  /\ len = [t \in Threads |-> 0]
  /\ accessed = << >>
  /\ made = [x \in Counters |-> 0]
  /\ active = {}

-----------------------------------------------------------------------------
\* stackAccess()
StackAccess(t) ==
  /\ Move(t, "run", "count_stack")
  /\ made["stackAccesses"] < MaxStack
  /\ Load(t, counter["stackAccesses"])
  /\ Note(t, "stackAccesses", 1)
  /\ UNCHANGED <<mergeBuffer, ptr, trace, counter, closed, blocks, len, accessed>>

CountStack(t) ==
  /\ Move(t, "count_stack", "run")
  /\ Add(t, "stackAccesses", 1)
  /\ UNCHANGED <<mergeBuffer, ptr, trace, closed, blocks, loaded, len, history>>

\* memAccess(): "single memory block accessed", or two.
MemAccess(t, acc) ==
  /\ Move(t, "run", "count")
  /\ made["aCount"] < MaxAccesses
  /\ Load(t, counter["aCount"])
  /\ Note(t, "aCount", 1)
  /\ blocks' = [blocks EXCEPT ![t] =
       IF FirstBlock(acc) = LastBlock(acc) THEN <<FirstBlock(acc)>>
       ELSE <<FirstBlock(acc), LastBlock(acc)>>]
  /\ UNCHANGED <<mergeBuffer, ptr, trace, counter, closed, len, accessed>>

Count(t) ==
  /\ Move(t, "count", "test")
  /\ Add(t, "aCount", 1)
  /\ UNCHANGED <<mergeBuffer, ptr, trace, closed, blocks, loaded, len, history>>

\* Mutant of HasRoom: one element too many.
HasRoomPastEnd(a) == a # NULL_BLOCK /\ ptr <= CHUNKSIZE

\* Mutant of HasRoom: the last element is never used.
HasRoomEarly(a) == a # NULL_BLOCK /\ ptr < CHUNKSIZE - 1

\* accessBlock(a) puts a into the buffer.  It does not when it finds the
\* buffer full, and accessBlock(0) only writes what is there.
HasRoom(a) == a # NULL_BLOCK /\ ptr < CHUNKSIZE

\* accessBlock() is called and loads ptr.
Test(t) ==
  LET a == Head(blocks[t])
  IN  /\ Move(t, "test", IF HasRoom(a) THEN "bump" ELSE "write")
      /\ Load(t, ptr)
      /\ len' = [len EXCEPT ![t] = IF a = NULL_BLOCK THEN ptr ELSE CHUNKSIZE]
      /\ accessed' = Append(accessed, a)
      /\ UNCHANGED <<mergeBuffer, ptr, trace, counter, closed, blocks, made, active>>

\* ptr++
Bump(t) ==
  /\ Move(t, "bump", "store")
  /\ ptr' = loaded[t] + 1
  /\ UNCHANGED <<mergeBuffer, trace, counter, closed, blocks, loaded, len, history>>

\* On to the next block of the access, if there is one.
Return(t) ==
  /\ Goto(t, IF Len(blocks[t]) = 1 THEN "run" ELSE "test")
  /\ blocks' = [blocks EXCEPT ![t] = Tail(@)]

\* mergeBuffer[ptr++] = a
Store(t) ==
  /\ ~closed /\ pc[t] = "store"
  /\ mergeBuffer' = [mergeBuffer EXCEPT ![loaded[t]] = Head(blocks[t])]
  /\ Return(t)
  /\ UNCHANGED <<ptr, trace, counter, closed, loaded, len, history>>

\* writeChunk(mergeBuffer, len): fwrite(), after which bCount is loaded.
Write(t) ==
  /\ Move(t, "write", "count_blocks")
  /\ trace' = Append(trace, [j \in 1 .. len[t] |-> mergeBuffer[j - 1]])
  /\ Load(t, counter["bCount"])
  /\ Note(t, "bCount", len[t])
  /\ UNCHANGED <<mergeBuffer, ptr, counter, closed, blocks, len, accessed>>

\* Mutant of CountBlocks: the size of the buffer in place of len.
CountBlocksOneMore(t) ==
  /\ Move(t, "count_blocks", "reset")
  /\ Add(t, "bCount", len[t] + 1)
  /\ UNCHANGED <<mergeBuffer, ptr, trace, closed, blocks, loaded, len, history>>

\* bCount += len
CountBlocks(t) ==
  /\ Move(t, "count_blocks", "reset")
  /\ Add(t, "bCount", len[t])
  /\ UNCHANGED <<mergeBuffer, ptr, trace, closed, blocks, loaded, len, history>>

\* ptr = 0
Reset(t) ==
  /\ ~closed /\ pc[t] = "reset"
  /\ ptr' = 0
  /\ Return(t)
  /\ UNCHANGED <<mergeBuffer, trace, counter, closed, loaded, len, history>>

\* Exit(): fclose().  No thread is in a callback any more.
Exit ==
  /\ ~closed
  /\ \A t \in Threads : pc[t] = "run"
  /\ closed' = TRUE
  /\ UNCHANGED <<mergeBuffer, ptr, trace, counter, pc, blocks, loaded, len, history>>

Step(t) ==
  \/ StackAccess(t) \/ CountStack(t)
  \/ \E acc \in Accesses : MemAccess(t, acc)
  \/ Count(t) \/ Test(t) \/ Bump(t) \/ Store(t) \/ Write(t) \/ CountBlocks(t) \/ Reset(t)

Next == (\E t \in Threads : Step(t)) \/ Exit

Spec == Init /\ [][Next]_vars

-----------------------------------------------------------------------------
(***************************************************************************)
(* Type invariant of the recorder.  With any number of threads ptr is at   *)
(* most CHUNKSIZE, and no element is stored past the end of the buffer.    *)
(***************************************************************************)
TypeOK ==
  /\ mergeBuffer \in [0 .. CHUNKSIZE - 1 -> Blocks]
  /\ ptr \in 0 .. CHUNKSIZE
  /\ \A c \in DOMAIN trace : Len(trace[c]) <= CHUNKSIZE
  /\ counter \in [Counters -> Nat]
  /\ closed \in BOOLEAN
  /\ pc \in [Threads -> Places]
  /\ blocks \in [Threads -> Seq(Blocks)]
  /\ loaded \in [Threads -> Nat]
  /\ len \in [Threads -> 0 .. CHUNKSIZE]
  /\ \A t \in Threads : pc[t] \in {"bump", "store"} => loaded[t] < CHUNKSIZE
  /\ made \in [Counters -> Nat]
  /\ active \subseteq Threads

(***************************************************************************)
(* Increments get lost when threads race, but never the other way round:   *)
(* no counter that Exit() prints is larger than what happened, and         *)
(* "number of block accesses" not larger than the entries of the file.     *)
(***************************************************************************)
CountsNeverExceed == \A x \in Counters : counter[x] <= made[x]

OneThread == \A t, u \in active : t = u
NoNull    == \A i \in DOMAIN accessed : accessed[i] # NULL_BLOCK

\* The calls of accessBlock() whose blocks are in the file, or were dropped.
Recorded == Len(trace) * (CHUNKSIZE + 1)

ChunksInOrder ==
  \A c \in DOMAIN trace : \A j \in 1 .. CHUNKSIZE :
    trace[c][j] = accessed[(c - 1) * (CHUNKSIZE + 1) + j]

\* The first n elements of the buffer.
Buffered(n) == \A i \in 0 .. n - 1 : mergeBuffer[i] = accessed[Recorded + i + 1]

(***************************************************************************)
(* What reaches the file: of a single thread's accesses, one block is      *)
(* dropped after each chunk, the one that found the buffer full, and the   *)
(* blocks since then are still in the buffer.  Nothing is reordered, and   *)
(* the counters are exact.                                                 *)
(***************************************************************************)
DropsOneOfEach ==
  OneThread /\ NoNull /\ (\A t \in Threads : pc[t] = "run") =>
    /\ Len(accessed) = Recorded + ptr
    /\ ChunksInOrder
    /\ Buffered(ptr)
    /\ counter = made

(***************************************************************************)
(* "Pin Tool for writing memory access stream to file": the file holds the *)
(* blocks a single thread accessed, up to those still in the buffer.       *)
(***************************************************************************)
WritesStream == IsPrefix(FlattenSeq(trace), accessed)
=============================================================================
