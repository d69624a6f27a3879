--------------------------- MODULE PinTraceProofs ---------------------------
(***************************************************************************)
(* Proofs about the trace recorder, for any threads, any accesses and any  *)
(* size of the buffer.                                                     *)
(***************************************************************************)
EXTENDS PinTrace, SequenceTheorems, TLAPS

Typed ==
  /\ mergeBuffer \in [0 .. CHUNKSIZE - 1 -> Blocks]
  /\ ptr \in 0 .. CHUNKSIZE
  /\ trace \in Seq(Seq(Blocks))
  /\ counter \in [Counters -> Nat]
  /\ closed \in BOOLEAN
  /\ pc \in [Threads -> Places]
  /\ blocks \in [Threads -> Seq(Blocks)]
  /\ loaded \in [Threads -> Nat]
  /\ len \in [Threads -> 0 .. CHUNKSIZE]
  /\ accessed \in Seq(Blocks)
  /\ made \in [Counters -> Nat]
  /\ active \subseteq Threads

\* A thread within memAccess() has a block to go on with, and what it will
\* store it at is in the buffer.
Within(t) ==
  /\ pc[t] \notin {"run", "count_stack"} => blocks[t] # << >>
  /\ pc[t] \in {"bump", "store"} => loaded[t] < CHUNKSIZE
  /\ pc[t] # "run" => t \in active

ShortChunks == \A c \in DOMAIN trace : Len(trace[c]) <= CHUNKSIZE

\* What a thread has loaded of a counter, with what it will add.
Pending(t) ==
  /\ pc[t] = "count" => loaded[t] + 1 <= made["aCount"]
  /\ pc[t] = "count_stack" => loaded[t] + 1 <= made["stackAccesses"]
  /\ pc[t] = "count_blocks" => loaded[t] + len[t] <= made["bCount"]

(***************************************************************************)
(* The counters while thread t, running alone, is about to add to one.     *)
(***************************************************************************)
Exact(t) ==
  /\ counter["aCount"] = IF pc[t] = "count" THEN loaded[t] ELSE made["aCount"]
  /\ pc[t] = "count" => made["aCount"] = loaded[t] + 1
  /\ counter["stackAccesses"] =
       IF pc[t] = "count_stack" THEN loaded[t] ELSE made["stackAccesses"]
  /\ pc[t] = "count_stack" => made["stackAccesses"] = loaded[t] + 1
  /\ counter["bCount"] = IF pc[t] = "count_blocks" THEN loaded[t] ELSE made["bCount"]
  /\ pc[t] = "count_blocks" => made["bCount"] = loaded[t] + len[t]

(***************************************************************************)
(* The buffer and the file while thread t runs alone: between calls of     *)
(* accessBlock(), after it has loaded ptr and found room, after ptr++,     *)
(* and from finding the buffer full to emptying it.                        *)
(***************************************************************************)
Between(t) == pc[t] \in {"run", "count", "count_stack", "test"} =>
  Len(accessed) = Recorded + ptr /\ Buffered(ptr)

Bumping(t) == pc[t] = "bump" =>
  /\ ptr < CHUNKSIZE /\ loaded[t] = ptr
  /\ Len(accessed) = Recorded + ptr + 1
  /\ Buffered(ptr)
  /\ accessed[Recorded + ptr + 1] = Head(blocks[t])

Storing(t) == pc[t] = "store" =>
  /\ ptr = loaded[t] + 1
  /\ Len(accessed) = Recorded + ptr
  /\ Buffered(loaded[t])
  /\ accessed[Recorded + ptr] = Head(blocks[t])

Full(t) ==
  /\ pc[t] \in {"write", "count_blocks", "reset"} => ptr = CHUNKSIZE
  /\ pc[t] \in {"write", "count_blocks"} => len[t] = CHUNKSIZE
  /\ pc[t] = "write" => Len(accessed) = Recorded + CHUNKSIZE + 1 /\ Buffered(CHUNKSIZE)
  /\ pc[t] \in {"count_blocks", "reset"} => Len(accessed) = Recorded

Stream(t) == Between(t) /\ Bumping(t) /\ Storing(t) /\ Full(t) /\ ChunksInOrder

Alone(t) == Exact(t) /\ Stream(t)

IInv ==
  /\ Typed
  /\ \A t \in Threads : Within(t)
  /\ ShortChunks
  /\ CountsNeverExceed
  /\ \A t \in Threads : Pending(t)
  /\ NoNull => \A t \in Threads : active \subseteq {t} => Alone(t)

-----------------------------------------------------------------------------
(***************************************************************************)
(* accessBlock() is only called for blocks of the accesses.                *)
(***************************************************************************)
LEMMA EndsAreBlocks ==
  ASSUME NEW acc \in Accesses
  PROVE  FirstBlock(acc) \in Blocks /\ LastBlock(acc) \in Blocks
BY DEF Blocks, Ends

(***************************************************************************)
(* Returning from accessBlock() leaves a thread with the rest of its       *)
(* blocks, or with none and out of memAccess().                            *)
(***************************************************************************)
LEMMA ReturnTyped ==
  ASSUME Typed, NEW t \in Threads, blocks[t] # << >>, Return(t)
  PROVE  /\ pc' = [pc EXCEPT ![t] = pc'[t]]
         /\ pc'[t] \in {"run", "test"}
         /\ blocks' \in [Threads -> Seq(Blocks)]
         /\ \A u \in Threads \ {t} : blocks'[u] = blocks[u]
         /\ pc'[t] = "test" => blocks'[t] # << >>
<1> USE DEF Typed, Return, Goto
<1>1. blocks[t] \in Seq(Blocks) /\ Len(blocks[t]) \in Nat
  BY LenProperties
<1>2. Tail(blocks[t]) \in Seq(Blocks) /\ Len(Tail(blocks[t])) = Len(blocks[t]) - 1
  BY <1>1, HeadTailProperties
<1>3. pc'[t] = IF Len(blocks[t]) = 1 THEN "run" ELSE "test"
  OBVIOUS
<1>4. blocks' = [blocks EXCEPT ![t] = Tail(blocks[t])] /\ blocks'[t] = Tail(blocks[t])
  OBVIOUS
<1>5. pc'[t] = "test" => Len(blocks'[t]) # 0
  BY <1>1, <1>2, <1>3, <1>4
<1>6. pc'[t] = "test" => blocks'[t] # << >>
  BY <1>5, LenProperties
<1> QED
  BY <1>2, <1>3, <1>4, <1>6

(***************************************************************************)
(* A step leaves what the other threads have alone.                        *)
(***************************************************************************)
LEMMA OthersStay ==
  ASSUME Typed, \A u \in Threads : Within(u), NEW t \in Threads, Step(t), NEW u \in Threads \ {t}
  PROVE  /\ pc'[u] = pc[u] /\ blocks'[u] = blocks[u]
         /\ loaded'[u] = loaded[u] /\ len'[u] = len[u]
<1> USE DEF Typed, history, Goto, Move, Load
<1>1. CASE StackAccess(t) \/ CountStack(t) \/ Count(t) \/ Test(t) \/ Bump(t)
  BY <1>1 DEF StackAccess, CountStack, Count, Test, Bump
<1>2. CASE Write(t) \/ CountBlocks(t)
  BY <1>2 DEF Write, CountBlocks
<1>3. ASSUME NEW acc \in Accesses, MemAccess(t, acc)
      PROVE  /\ pc'[u] = pc[u] /\ blocks'[u] = blocks[u]
             /\ loaded'[u] = loaded[u] /\ len'[u] = len[u]
  BY <1>3 DEF MemAccess
<1>4. CASE Store(t) \/ Reset(t)
  BY <1>4 DEF Store, Reset, Return
<1> QED
  BY <1>1, <1>2, <1>3, <1>4 DEF Step

(***************************************************************************)
(* Every step keeps the types.                                             *)
(***************************************************************************)
LEMMA TypedStep ==
  ASSUME Typed, \A u \in Threads : Within(u), NEW t \in Threads, Step(t)
  PROVE  Typed'
<1>0. CHUNKSIZE \in Nat \ {0}
  BY PinTraceAssumption
<1> USE <1>0 DEF history, Goto, Move, Load, Add, Note, Places, Counters
<1>1. CASE StackAccess(t)
  BY <1>1 DEF StackAccess, Typed
<1>2. CASE CountStack(t)
  BY <1>2 DEF CountStack, Typed
<1>3. ASSUME NEW acc \in Accesses, MemAccess(t, acc)
      PROVE  Typed'
  <2> DEFINE todo == IF FirstBlock(acc) = LastBlock(acc) THEN <<FirstBlock(acc)>>
                     ELSE <<FirstBlock(acc), LastBlock(acc)>>
  <2>1. todo \in Seq(Blocks)
    BY EndsAreBlocks
  <2>2. blocks' = [blocks EXCEPT ![t] = todo]
    BY <1>3 DEF MemAccess
  <2> HIDE DEF todo
  <2>3. blocks' \in [Threads -> Seq(Blocks)]
    BY <2>1, <2>2 DEF Typed
  <2>4. /\ pc' = [pc EXCEPT ![t] = "count"]
        /\ loaded' = [loaded EXCEPT ![t] = counter["aCount"]]
        /\ made' = [made EXCEPT !["aCount"] = @ + 1]
        /\ active' = active \cup {t}
        /\ UNCHANGED <<mergeBuffer, ptr, trace, counter, closed, len, accessed>>
    BY <1>3 DEF MemAccess
  <2> QED
    BY <2>3, <2>4 DEF Typed
<1>4. CASE Count(t)
  BY <1>4 DEF Count, Typed
<1>5. CASE Test(t)
  <2>1. Head(blocks[t]) \in Blocks
    BY <1>5, HeadTailProperties DEF Test, Typed, Within
  <2>2. accessed' \in Seq(Blocks)
    BY <1>5, <2>1, AppendProperties DEF Test, Typed
  <2> QED
    BY <1>5, <2>2 DEF Test, Typed
<1>6. CASE Bump(t)
  BY <1>6 DEF Bump, Typed, Within
<1>7. CASE Store(t)
  <2>1. blocks[t] # << >> /\ Return(t) /\ pc[t] = "store" /\ loaded[t] < CHUNKSIZE
    BY <1>7 DEF Store, Within
  <2>2. Head(blocks[t]) \in Blocks
    BY <2>1, HeadTailProperties DEF Typed
  <2>3. mergeBuffer' \in [0 .. CHUNKSIZE - 1 -> Blocks]
    BY <1>7, <2>2 DEF Store, Typed
  <2>4. pc' \in [Threads -> Places] /\ blocks' \in [Threads -> Seq(Blocks)]
    BY <2>1, ReturnTyped DEF Typed
  <2> QED
    BY <1>7, <2>3, <2>4 DEF Store, Typed
<1>8. CASE Write(t)
  <2> DEFINE chunk == [j \in 1 .. len[t] |-> mergeBuffer[j - 1]]
  <2>1. chunk \in Seq(Blocks)
    <3>1. len[t] \in Nat /\ \A j \in 1 .. len[t] : mergeBuffer[j - 1] \in Blocks
      BY DEF Typed
    <3>2. chunk \in [1 .. len[t] -> Blocks]
      BY <3>1
    <3> QED
      BY <3>1, <3>2, SeqDef
  <2> HIDE DEF chunk
  <2>2. trace' = Append(trace, chunk)
    BY <1>8 DEF Write, chunk
  <2>3. trace' \in Seq(Seq(Blocks))
    BY <2>1, <2>2, AppendProperties DEF Typed
  <2> QED
    BY <1>8, <2>3 DEF Write, Typed
<1>9. CASE CountBlocks(t)
  BY <1>9 DEF CountBlocks, Typed
<1>10. CASE Reset(t)
  <2>1. blocks[t] # << >> /\ Return(t)
    BY <1>10 DEF Reset, Within
  <2>2. pc' \in [Threads -> Places] /\ blocks' \in [Threads -> Seq(Blocks)]
    BY <2>1, ReturnTyped DEF Typed
  <2> QED
    BY <1>10, <2>2 DEF Reset, Typed
<1> QED
  BY <1>1, <1>2, <1>3, <1>4, <1>5, <1>6, <1>7, <1>8, <1>9, <1>10 DEF Step

(***************************************************************************)
(* A thread has what it needs wherever it is.                              *)
(***************************************************************************)
LEMMA WithinStep ==
  ASSUME Typed, \A u \in Threads : Within(u), NEW t \in Threads, Step(t), NEW u \in Threads
  PROVE  Within(u)'
<1> USE DEF history, Goto, Move, Load, Note, Places
<1>1. active \subseteq active'
  BY DEF Step, StackAccess, CountStack, MemAccess, Count, Test, Bump, Store, Write, CountBlocks, Reset
<1>2. CASE u # t
  BY <1>1, <1>2, OthersStay DEF Within
<1>3. CASE StackAccess(t) \/ CountStack(t) \/ Count(t) \/ Bump(t)
  BY <1>2, <1>3 DEF StackAccess, CountStack, Count, Bump, Typed, Within
<1>4. CASE Write(t) \/ CountBlocks(t)
  BY <1>2, <1>4 DEF Write, CountBlocks, Typed, Within
<1>5. ASSUME NEW acc \in Accesses, MemAccess(t, acc), u = t
      PROVE  Within(u)'
  <2>1. pc'[t] = "count" /\ blocks'[t] # << >> /\ t \in active'
    BY <1>5 DEF MemAccess, Typed
  <2> QED
    BY <1>5, <2>1 DEF Within
<1>6. CASE Test(t) /\ u = t
  <2>1. pc'[t] = (IF HasRoom(Head(blocks[t])) THEN "bump" ELSE "write") /\ loaded'[t] = ptr
    BY <1>6 DEF Test, Typed
  <2>2. blocks'[t] # << >> /\ t \in active'
    BY <1>1, <1>6 DEF Test, Within
  <2> QED
    BY <1>6, <2>1, <2>2 DEF HasRoom, Within
<1>7. CASE (Store(t) \/ Reset(t)) /\ u = t
  <2>1. blocks[t] # << >> /\ Return(t) /\ t \in active'
    BY <1>1, <1>7 DEF Store, Reset, Within
  <2>2. pc'[t] \in {"run", "test"} /\ (pc'[t] = "test" => blocks'[t] # << >>)
    BY <2>1, ReturnTyped
  <2> QED
    BY <1>7, <2>1, <2>2 DEF Within
<1> QED
  BY <1>2, <1>3, <1>4, <1>5, <1>6, <1>7 DEF Step

(***************************************************************************)
(* What a write appends to the file, and that no other step writes.        *)
(***************************************************************************)
LEMMA WriteAppends ==
  ASSUME Typed, NEW t \in Threads, Write(t)
  PROVE  /\ Len(trace) \in Nat /\ Len(trace') = Len(trace) + 1
         /\ \A c \in 1 .. Len(trace) : trace'[c] = trace[c]
         /\ DOMAIN trace' = 1 .. Len(trace) + 1 /\ DOMAIN trace = 1 .. Len(trace)
         /\ Len(trace'[Len(trace) + 1]) = len[t]
         /\ \A j \in 1 .. len[t] : trace'[Len(trace) + 1][j] = mergeBuffer[j - 1]
<1> DEFINE chunk == [j \in 1 .. len[t] |-> mergeBuffer[j - 1]]
<1>1. /\ len[t] \in Nat
      /\ \A j \in 1 .. len[t] : mergeBuffer[j - 1] \in Blocks /\ chunk[j] = mergeBuffer[j - 1]
  BY PinTraceAssumption DEF Typed
<1>2. chunk \in [1 .. len[t] -> Blocks]
  BY <1>1
<1>3. chunk \in Seq(Blocks) /\ DOMAIN chunk = 1 .. len[t]
  BY <1>1, <1>2, SeqDef
<1>4. Len(chunk) = len[t]
  BY <1>1, <1>3, LenProperties
<1> HIDE DEF chunk
<1>5. trace' = Append(trace, chunk)
  BY DEF Write, chunk
<1> QED
  BY <1>1, <1>3, <1>4, <1>5, AppendProperties, LenProperties DEF Typed

(***************************************************************************)
(* No chunk is longer than the buffer.                                     *)
(***************************************************************************)
LEMMA ShortChunksStep ==
  ASSUME Typed, ShortChunks, NEW t \in Threads, Step(t)
  PROVE  ShortChunks'
<1>1. CASE Write(t)
  <2>1. SUFFICES ASSUME NEW c \in 1 .. Len(trace) + 1
                 PROVE  Len(trace'[c]) <= CHUNKSIZE
    BY <1>1, WriteAppends DEF ShortChunks
  <2>2. CASE c = Len(trace) + 1
    BY <1>1, <2>2, WriteAppends DEF Typed
  <2>3. CASE c # Len(trace) + 1
    <3>1. Len(trace) \in Nat /\ DOMAIN trace = 1 .. Len(trace)
      BY <1>1, WriteAppends
    <3>2. c \in DOMAIN trace /\ trace'[c] = trace[c]
      BY <1>1, <2>3, <3>1, WriteAppends
    <3> QED
      BY <3>2 DEF ShortChunks
  <2> QED
    BY <2>2, <2>3
<1>2. CASE trace' = trace
  BY <1>2, Zenon DEF ShortChunks
<1> QED
  BY <1>1, <1>2 DEF Step, StackAccess, CountStack, MemAccess, Count, Test, Bump, Store, CountBlocks, Reset

(***************************************************************************)
(* A store to a counter writes less than the counter should be, however    *)
(* old the value is that was loaded.                                       *)
(***************************************************************************)
LEMMA CountersStep ==
  ASSUME Typed, \A u \in Threads : Within(u), CountsNeverExceed,
         \A u \in Threads : Pending(u), NEW t \in Threads, Step(t)
  PROVE  CountsNeverExceed' /\ \A u \in Threads : Pending(u)'
<1> USE DEF history, Goto, Move, Load, Add, Note, Counters
<1>1. /\ CountsNeverExceed'
      /\ \A x \in Counters : made'[x] >= made[x] /\ made'[x] \in Nat /\ made[x] \in Nat
      /\ Pending(t)'
  <2> USE DEF Typed, CountsNeverExceed, Pending
  <2>1. CASE StackAccess(t)
    BY <2>1 DEF StackAccess
  <2>2. CASE CountStack(t)
    BY <2>2 DEF CountStack
  <2>3. ASSUME NEW acc \in Accesses, MemAccess(t, acc)
        PROVE  /\ CountsNeverExceed'
               /\ \A x \in Counters : made'[x] >= made[x] /\ made'[x] \in Nat /\ made[x] \in Nat
               /\ Pending(t)'
    BY <2>3 DEF MemAccess
  <2>4. CASE Count(t)
    BY <2>4 DEF Count
  <2>5. CASE Test(t)
    BY <2>5 DEF Test
  <2>6. CASE Bump(t)
    BY <2>6 DEF Bump
  <2>7. CASE Store(t)
    BY <2>7 DEF Store, Return
  <2>8. CASE Write(t)
    BY <2>8 DEF Write
  <2>9. CASE CountBlocks(t)
    BY <2>9 DEF CountBlocks
  <2>10. CASE Reset(t)
    BY <2>10 DEF Reset, Return
  <2> QED
    BY <2>1, <2>2, <2>3, <2>4, <2>5, <2>6, <2>7, <2>8, <2>9, <2>10 DEF Step
<1>2. ASSUME NEW u \in Threads \ {t}
      PROVE  Pending(u)'
  <2>1. /\ pc'[u] = pc[u] /\ loaded'[u] = loaded[u] /\ len'[u] = len[u]
        /\ loaded[u] \in Nat /\ len[u] \in 0 .. CHUNKSIZE /\ CHUNKSIZE \in Nat
    BY OthersStay, PinTraceAssumption DEF Typed
  <2> QED
    BY <1>1, <2>1 DEF Pending
<1> QED
  BY <1>1, <1>2

(***************************************************************************)
(* Where the chunks of the file were in the stream of blocks: each is      *)
(* followed by a block that was dropped.                                   *)
(***************************************************************************)
LEMMA ChunkIndex ==
  ASSUME NEW L \in Nat, NEW N \in Nat, NEW c \in 1 .. L, NEW j \in 1 .. N
  PROVE  (c - 1) * (N + 1) + j \in 1 .. L * (N + 1)
<1>1. c - 1 \in Nat /\ L - c \in Nat
  OBVIOUS
<1>2. (c - 1) * (N + 1) \in Nat /\ (L - c) * (N + 1) \in Nat
  BY <1>1
<1>3. L * (N + 1) = (c - 1) * (N + 1) + (N + 1) + (L - c) * (N + 1)
  BY <1>1
<1> QED
  BY <1>2, <1>3

(***************************************************************************)
(* Recorded is a number, that only a write changes.                        *)
(***************************************************************************)
LEMMA RecordedNat ==
  ASSUME Typed
  PROVE  Recorded \in Nat /\ Len(accessed) \in Nat
<1>1. Len(trace) \in Nat /\ CHUNKSIZE + 1 \in Nat /\ Len(accessed) \in Nat
  BY PinTraceAssumption, LenProperties DEF Typed
<1> QED
  BY <1>1 DEF Recorded

(***************************************************************************)
(* A thread that makes a step has made an access.                          *)
(***************************************************************************)
LEMMA StepperActive ==
  ASSUME Typed, NEW t \in Threads, Within(t), Step(t)
  PROVE  t \in active' /\ active \subseteq active'
<1> USE DEF history, Move, Note, Within
<1>1. CASE StackAccess(t) \/ \E acc \in Accesses : MemAccess(t, acc)
  BY <1>1 DEF StackAccess, MemAccess
<1>2. CASE CountStack(t) \/ Count(t) \/ Test(t) \/ Bump(t) \/ Store(t) \/ CountBlocks(t) \/ Reset(t)
  BY <1>2 DEF CountStack, Count, Test, Bump, Store, CountBlocks, Reset
<1>3. CASE Write(t)
  BY <1>3 DEF Write
<1> QED
  BY <1>1, <1>2, <1>3 DEF Step

(***************************************************************************)
(* The counters of a thread that runs alone are exact.                     *)
(***************************************************************************)
LEMMA ExactStep ==
  ASSUME Typed, NEW t \in Threads, Exact(t), Step(t)
  PROVE  Exact(t)'
<1> USE DEF Typed, Exact, history, Goto, Move, Load, Add, Note, Counters
<1>1. CASE StackAccess(t)
  BY <1>1 DEF StackAccess
<1>2. CASE CountStack(t)
  BY <1>2 DEF CountStack
<1>3. ASSUME NEW acc \in Accesses, MemAccess(t, acc)
      PROVE  Exact(t)'
  BY <1>3 DEF MemAccess
<1>4. CASE Count(t)
  BY <1>4 DEF Count
<1>5. CASE Test(t)
  BY <1>5 DEF Test
<1>6. CASE Bump(t)
  BY <1>6 DEF Bump
<1>7. CASE Store(t)
  BY <1>7 DEF Store, Return
<1>8. CASE Write(t)
  BY <1>8 DEF Write
<1>9. CASE CountBlocks(t)
  BY <1>9 DEF CountBlocks
<1>10. CASE Reset(t)
  BY <1>10 DEF Reset, Return
<1> QED
  BY <1>1, <1>2, <1>3, <1>4, <1>5, <1>6, <1>7, <1>8, <1>9, <1>10 DEF Step

(***************************************************************************)
(* Finding the buffer with room, or full: the call is noted, and what is   *)
(* in the buffer and in the file stays what it was.                        *)
(***************************************************************************)
LEMMA TestStream ==
  ASSUME Typed, NEW t \in Threads, Within(t), Stream(t), Test(t), NoNull'
  PROVE  Stream(t)'
<1> DEFINE a == Head(blocks[t])
<1> DEFINE n == Len(accessed)
<1>1. a \in Blocks
  BY HeadTailProperties DEF Test, Typed, Within, Move
<1>2. /\ n \in Nat /\ Len(accessed') = n + 1
      /\ \A i \in 1 .. n : accessed'[i] = accessed[i]
      /\ accessed'[n + 1] = a
      /\ DOMAIN accessed' = 1 .. n + 1
  BY <1>1, AppendProperties, LenProperties DEF Test, Typed
<1>3. a # NULL_BLOCK
  BY <1>2 DEF NoNull
<1>4. /\ pc[t] = "test"
      /\ pc'[t] = IF ptr < CHUNKSIZE THEN "bump" ELSE "write"
      /\ loaded'[t] = ptr /\ len'[t] = CHUNKSIZE
      /\ ptr' = ptr /\ mergeBuffer' = mergeBuffer /\ trace' = trace /\ blocks' = blocks
  BY <1>3 DEF Test, HasRoom, Typed, Move, Goto, Load
<1>5. /\ Recorded \in Nat /\ Recorded' = Recorded
      /\ CHUNKSIZE \in Nat /\ ptr \in 0 .. CHUNKSIZE
  BY <1>4, RecordedNat, PinTraceAssumption DEF Recorded, Typed
<1> HIDE DEF a, n
<1>6. n = Recorded + ptr /\ Buffered(ptr)
  BY <1>4 DEF Stream, Between, n
<1>7. \A i \in 0 .. ptr - 1 : mergeBuffer[i] = accessed'[Recorded + i + 1]
  BY <1>2, <1>5, <1>6 DEF Buffered
<1>8. ChunksInOrder'
  <2>1. SUFFICES ASSUME NEW c \in DOMAIN trace, NEW j \in 1 .. CHUNKSIZE
                 PROVE  trace[c][j] = accessed'[(c - 1) * (CHUNKSIZE + 1) + j]
    BY <1>4 DEF ChunksInOrder
  <2>2. Len(trace) \in Nat /\ c \in 1 .. Len(trace)
    BY LenProperties DEF Typed
  <2>3. (c - 1) * (CHUNKSIZE + 1) + j \in 1 .. Recorded
    BY <1>5, <2>2, ChunkIndex DEF Recorded
  <2>4. (c - 1) * (CHUNKSIZE + 1) + j \in 1 .. n
    BY <1>2, <1>5, <1>6, <2>3
  <2> QED
    BY <1>2, <2>4 DEF Stream, ChunksInOrder
<1>9. CASE ptr < CHUNKSIZE
  <2>1. pc'[t] = "bump" /\ accessed'[Recorded + ptr + 1] = a
    BY <1>2, <1>4, <1>6, <1>9
  <2>2. Bumping(t)'
    BY <1>2, <1>4, <1>5, <1>6, <1>7, <1>9, <2>1 DEF Bumping, Buffered, a
  <2> QED
    BY <1>8, <2>1, <2>2 DEF Stream, Between, Storing, Full
<1>10. CASE ~(ptr < CHUNKSIZE)
  <2>1. pc'[t] = "write" /\ ptr = CHUNKSIZE
    BY <1>4, <1>5, <1>10
  <2>2. Full(t)'
    BY <1>2, <1>4, <1>5, <1>6, <1>7, <2>1 DEF Full, Buffered
  <2> QED
    BY <1>8, <2>1, <2>2 DEF Stream, Between, Bumping, Storing
<1> QED
  BY <1>9, <1>10

(***************************************************************************)
(* Storing a block: the buffer is what it was, with the block after it.    *)
(***************************************************************************)
LEMMA StoreStream ==
  ASSUME Typed, NEW t \in Threads, Within(t), Stream(t), Store(t)
  PROVE  Stream(t)'
<1>1. /\ pc[t] = "store" /\ blocks[t] # << >> /\ loaded[t] < CHUNKSIZE /\ Return(t)
      /\ mergeBuffer' = [mergeBuffer EXCEPT ![loaded[t]] = Head(blocks[t])]
      /\ ptr' = ptr /\ trace' = trace /\ accessed' = accessed
  BY DEF Store, Within, history
<1>2. pc'[t] \in {"run", "test"}
  BY <1>1, ReturnTyped
<1>3. /\ ptr = loaded[t] + 1 /\ Len(accessed) = Recorded + ptr
      /\ Buffered(loaded[t]) /\ accessed[Recorded + ptr] = Head(blocks[t])
  BY <1>1 DEF Stream, Storing
<1>4. /\ Recorded \in Nat /\ Recorded' = Recorded /\ CHUNKSIZE \in Nat
      /\ loaded[t] \in Nat /\ mergeBuffer \in [0 .. CHUNKSIZE - 1 -> Blocks]
  BY <1>1, RecordedNat, PinTraceAssumption DEF Recorded, Typed
<1>5. mergeBuffer'[loaded[t]] = Head(blocks[t])
  BY <1>1, <1>4
<1>6. \A i \in 0 .. loaded[t] - 1 : mergeBuffer'[i] = mergeBuffer[i]
  BY <1>1, <1>4
<1>7. \A i \in 0 .. ptr - 1 : mergeBuffer'[i] = accessed[Recorded + i + 1]
  <2>1. ASSUME NEW i \in 0 .. ptr - 1
        PROVE  mergeBuffer'[i] = accessed[Recorded + i + 1]
    <3>1. CASE i = loaded[t]
      <4>1. Recorded + i + 1 = Recorded + ptr
        BY <1>3, <1>4, <3>1
      <4> QED
        BY <1>3, <1>5, <3>1, <4>1
    <3>2. CASE i # loaded[t]
      <4>1. i \in 0 .. loaded[t] - 1
        BY <1>3, <1>4, <3>2
      <4> QED
        BY <1>3, <1>6, <4>1 DEF Buffered
    <3> QED
      BY <3>1, <3>2
  <2> QED
    BY <2>1
<1>8. Between(t)'
  BY <1>1, <1>3, <1>4, <1>7 DEF Between, Buffered
<1>9. ChunksInOrder'
  BY <1>1, Zenon DEF Stream, ChunksInOrder
<1> QED
  BY <1>2, <1>8, <1>9 DEF Stream, Bumping, Storing, Full

(***************************************************************************)
(* Writing the buffer: the block that found it full is in no chunk.        *)
(***************************************************************************)
LEMMA WriteStream ==
  ASSUME Typed, NEW t \in Threads, Stream(t), Write(t)
  PROVE  Stream(t)'
<1>1. /\ pc[t] = "write" /\ pc'[t] = "count_blocks"
      /\ ptr' = ptr /\ len' = len /\ accessed' = accessed
  BY DEF Write, Move, Goto, Typed
<1>2. /\ ptr = CHUNKSIZE /\ len[t] = CHUNKSIZE
      /\ Len(accessed) = Recorded + CHUNKSIZE + 1 /\ Buffered(CHUNKSIZE)
  BY <1>1 DEF Stream, Full
<1>3. CHUNKSIZE \in Nat /\ Recorded \in Nat /\ Len(trace) \in Nat
  BY RecordedNat, WriteAppends, PinTraceAssumption
<1>4. Recorded' = Recorded + CHUNKSIZE + 1
  <2>1. Recorded' = (Len(trace) + 1) * (CHUNKSIZE + 1)
    BY WriteAppends DEF Recorded
  <2>2. \A L, N \in Nat : (L + 1) * (N + 1) = L * (N + 1) + N + 1
    OBVIOUS
  <2> QED
    BY <1>3, <2>1, <2>2 DEF Recorded
<1>5. ChunksInOrder'
  <2>1. SUFFICES ASSUME NEW c \in 1 .. Len(trace) + 1, NEW j \in 1 .. CHUNKSIZE
                 PROVE  trace'[c][j] = accessed[(c - 1) * (CHUNKSIZE + 1) + j]
    BY <1>1, WriteAppends DEF ChunksInOrder
  <2>2. CASE c = Len(trace) + 1
    <3>1. (c - 1) * (CHUNKSIZE + 1) + j = Recorded + (j - 1) + 1
      BY <1>3, <2>2 DEF Recorded
    <3>2. trace'[c][j] = mergeBuffer[j - 1]
      BY <1>2, <2>2, WriteAppends
    <3>3. j - 1 \in 0 .. CHUNKSIZE - 1
      BY <1>3
    <3> QED
      BY <1>2, <3>1, <3>2, <3>3 DEF Buffered
  <2>3. CASE c # Len(trace) + 1
    <3>1. c \in 1 .. Len(trace) /\ c \in DOMAIN trace
      BY <1>3, <2>3, WriteAppends
    <3>2. trace'[c] = trace[c]
      BY <3>1, WriteAppends
    <3> QED
      BY <3>1, <3>2 DEF Stream, ChunksInOrder
  <2> QED
    BY <2>2, <2>3
<1>6. Full(t)'
  BY <1>1, <1>2, <1>3, <1>4 DEF Full
<1> QED
  BY <1>1, <1>5, <1>6 DEF Stream, Between, Bumping, Storing

(***************************************************************************)
(* The stream of a thread that runs alone, over any of its steps.          *)
(***************************************************************************)
LEMMA StreamStep ==
  ASSUME Typed, NEW t \in Threads, Within(t), Stream(t), Step(t), NoNull'
  PROVE  Stream(t)'
<1>1. CASE Test(t) \/ Store(t) \/ Write(t)
  BY <1>1, TestStream, StoreStream, WriteStream
<1>2. CASE StackAccess(t) \/ CountStack(t) \/ Count(t) \/ \E acc \in Accesses : MemAccess(t, acc)
  <2>1. /\ pc[t] \in {"run", "count", "count_stack"} /\ pc'[t] \in {"run", "count", "count_stack", "test"}
        /\ UNCHANGED <<mergeBuffer, ptr, trace, accessed>>
    BY <1>2 DEF StackAccess, CountStack, Count, MemAccess, Move, Goto, history, Typed
  <2>2. ChunksInOrder' /\ Between(t)'
    BY <2>1 DEF Stream, ChunksInOrder, Between, Buffered, Recorded
  <2> QED
    BY <2>1, <2>2 DEF Stream, Bumping, Storing, Full
<1>3. CASE Bump(t)
  <2>1. /\ pc[t] = "bump" /\ pc'[t] = "store" /\ ptr' = loaded[t] + 1
        /\ UNCHANGED <<mergeBuffer, trace, accessed, loaded, blocks>>
    BY <1>3 DEF Bump, Move, Goto, history, Typed
  <2>2. Recorded \in Nat /\ ptr \in Nat
    BY RecordedNat, PinTraceAssumption DEF Typed
  <2>3. ChunksInOrder' /\ Storing(t)'
    BY <2>1, <2>2 DEF Stream, ChunksInOrder, Bumping, Storing, Buffered, Recorded
  <2> QED
    BY <2>1, <2>3 DEF Stream, Between, Bumping, Full
<1>4. CASE CountBlocks(t)
  <2>1. /\ pc[t] = "count_blocks" /\ pc'[t] = "reset"
        /\ UNCHANGED <<mergeBuffer, ptr, trace, accessed, len>>
    BY <1>4 DEF CountBlocks, Move, Goto, history, Typed
  <2>2. ChunksInOrder' /\ Full(t)'
    BY <2>1 DEF Stream, ChunksInOrder, Full, Recorded
  <2> QED
    BY <2>1, <2>2 DEF Stream, Between, Bumping, Storing
<1>5. CASE Reset(t)
  <2>1. /\ pc[t] = "reset" /\ ptr' = 0 /\ blocks[t] # << >> /\ Return(t)
        /\ UNCHANGED <<mergeBuffer, trace, accessed>>
    BY <1>5 DEF Reset, Within, history
  <2>2. pc'[t] \in {"run", "test"}
    BY <2>1, ReturnTyped
  <2>3. Recorded \in Nat /\ Len(accessed) = Recorded
    BY <2>1, RecordedNat DEF Stream, Full
  <2>4. ChunksInOrder' /\ Between(t)'
    BY <2>1, <2>3 DEF Stream, ChunksInOrder, Between, Buffered, Recorded
  <2> QED
    BY <2>2, <2>4 DEF Stream, Bumping, Storing, Full
<1> QED
  BY <1>1, <1>2, <1>3, <1>4, <1>5 DEF Step

(***************************************************************************)
(* The invariant holds before the program starts, and over every step.     *)
(***************************************************************************)
LEMMA InitIInv == Init => IInv
<1> SUFFICES ASSUME Init
             PROVE  IInv
  OBVIOUS
<1> USE PinTraceAssumption DEF Init, Counters, Places
<1>1. NULL_BLOCK \in Blocks /\ 0 \in 0 .. CHUNKSIZE
  BY DEF Blocks
<1>2. Typed
  <2>1. << >> \in Seq(Blocks) /\ << >> \in Seq(Seq(Blocks))
    OBVIOUS
  <2>2. mergeBuffer \in [0 .. CHUNKSIZE - 1 -> Blocks]
    BY <1>1
  <2> QED
    BY <1>1, <2>1, <2>2 DEF Typed
<1>3. CountsNeverExceed /\ ShortChunks
  BY DEF CountsNeverExceed, ShortChunks
<1>4. ASSUME NEW t \in Threads
      PROVE  Within(t) /\ Pending(t) /\ Exact(t)
  BY DEF Within, Pending, Exact
<1>5. Recorded = 0 /\ Len(accessed) = 0
  BY DEF Recorded
<1>6. ASSUME NEW t \in Threads
      PROVE  Stream(t)
  BY <1>5 DEF Stream, Between, Bumping, Storing, Full, ChunksInOrder, Buffered
<1> QED
  BY <1>2, <1>3, <1>4, <1>6 DEF IInv, Alone

(***************************************************************************)
(* A step of a thread.                                                     *)
(***************************************************************************)
LEMMA StepIInv ==
  ASSUME IInv, NEW t \in Threads, Step(t)
  PROVE  IInv'
<1>1. Typed /\ ShortChunks /\ CountsNeverExceed
      /\ (\A u \in Threads : Within(u)) /\ \A u \in Threads : Pending(u)
  BY DEF IInv
<1>2. Typed' /\ (\A u \in Threads : Within(u)') /\ ShortChunks'
  BY <1>1, TypedStep, WithinStep, ShortChunksStep
<1>3. CountsNeverExceed' /\ \A u \in Threads : Pending(u)'
  BY <1>1, CountersStep
<1>4. ASSUME NoNull', NEW u \in Threads, active' \subseteq {u}
      PROVE  Alone(u)'
  <2>1. u = t /\ active \subseteq {t}
    BY <1>1, <1>4, StepperActive
  <2>2. NoNull
    <3>1. CASE accessed' = accessed
      BY <1>4, <3>1 DEF NoNull
    <3>2. CASE Test(t)
      <4>1. Head(blocks[t]) \in Blocks
        BY <1>1, <3>2, HeadTailProperties DEF Test, Typed, Within, Move
      <4>2. \A i \in DOMAIN accessed : i \in DOMAIN accessed' /\ accessed'[i] = accessed[i]
        BY <1>1, <3>2, <4>1, AppendProperties, LenProperties DEF Test, Typed
      <4> QED
        BY <1>4, <4>2 DEF NoNull
    <3> QED
      BY <3>1, <3>2 DEF Step, StackAccess, CountStack, MemAccess, Count, Bump, Store, Write,
                        CountBlocks, Reset, history
  <2>3. Alone(t)
    BY <2>1, <2>2 DEF IInv
  <2> QED
    BY <1>1, <1>4, <2>1, <2>3, ExactStep, StreamStep DEF Alone
<1> QED
  BY <1>2, <1>3, <1>4 DEF IInv

(***************************************************************************)
(* Exit() and steps of others change nothing the invariant is about.       *)
(***************************************************************************)
LEMMA StutterIInv ==
  ASSUME IInv, closed' \in BOOLEAN,
         UNCHANGED <<mergeBuffer, ptr, trace, counter, pc, blocks, loaded, len, history>>
  PROVE  IInv'
<1> USE DEF history
<1>1. Typed'
  BY DEF IInv, Typed
<1>2. ShortChunks' /\ CountsNeverExceed'
  BY DEF IInv, ShortChunks, CountsNeverExceed
<1>3. ASSUME NEW t \in Threads
      PROVE  Within(t)' /\ Pending(t)' /\ (Exact(t) => Exact(t)')
  BY DEF IInv, Within, Pending, Exact
<1>4. ASSUME NEW t \in Threads, Stream(t)
      PROVE  Stream(t)'
  BY <1>4 DEF Stream, Between, Bumping, Storing, Full, ChunksInOrder, Buffered, Recorded
<1>5. NoNull' => NoNull
  BY DEF NoNull
<1> QED
  BY <1>1, <1>2, <1>3, <1>4, <1>5 DEF IInv, Alone

(***************************************************************************)
(* The invariant, for any number of threads.                               *)
(***************************************************************************)
THEOREM Invariance == Spec => []IInv
<1>1. IInv /\ [Next]_vars => IInv'
  <2> SUFFICES ASSUME IInv, [Next]_vars
               PROVE  IInv'
    OBVIOUS
  <2>1. CASE \E t \in Threads : Step(t)
    BY <2>1, StepIInv
  <2>2. CASE Exit
    BY <2>2, StutterIInv DEF Exit
  <2>3. CASE UNCHANGED vars
    <3>1. closed' \in BOOLEAN
      BY <2>3 DEF vars, IInv, Typed
    <3> QED
      BY <2>3, <3>1, StutterIInv DEF vars, history
  <2> QED
    BY <2>1, <2>2, <2>3 DEF Next
<1> QED
  BY <1>1, InitIInv, PTL DEF Spec

(***************************************************************************)
(* No element is stored past the end of mergeBuffer, and no chunk is read  *)
(* past it, however many threads race for ptr.                             *)
(***************************************************************************)
THEOREM TypeCorrect == Spec => []TypeOK
<1>1. IInv => TypeOK
  BY DEF IInv, Typed, Within, ShortChunks, TypeOK
<1> QED
  BY <1>1, Invariance, PTL

(***************************************************************************)
(* What Exit() prints is never more than what happened.                    *)
(***************************************************************************)
THEOREM CountersBounded == Spec => []CountsNeverExceed
<1>1. IInv => CountsNeverExceed
  BY DEF IInv
<1> QED
  BY <1>1, Invariance, PTL

(***************************************************************************)
(* The file of a program with a single thread: chunks of its stream, with  *)
(* one block missing after each, and the last blocks still in the buffer.  *)
(***************************************************************************)
THEOREM StreamWithGaps == Spec => []DropsOneOfEach
<1>1. IInv => DropsOneOfEach
  <2> SUFFICES ASSUME IInv, OneThread, NoNull, \A t \in Threads : pc[t] = "run"
               PROVE  /\ Len(accessed) = Recorded + ptr /\ ChunksInOrder
                      /\ Buffered(ptr) /\ counter = made
    BY DEF DropsOneOfEach
  <2>1. PICK t \in Threads : active \subseteq {t}
    BY PinTraceAssumption DEF OneThread, IInv, Typed
  <2>2. Alone(t) /\ pc[t] = "run"
    BY <2>1 DEF IInv
  <2>3. counter = made
    <3>1. counter \in [Counters -> Nat] /\ made \in [Counters -> Nat]
      BY DEF IInv, Typed
    <3>2. \A x \in Counters : counter[x] = made[x]
      BY <2>2 DEF Alone, Exact, Counters
    <3> QED
      BY <3>1, <3>2
  <2> QED
    BY <2>2, <2>3 DEF Alone, Stream, Between
<1> QED
  BY <1>1, Invariance, PTL
=============================================================================
