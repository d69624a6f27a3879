----------------------------- MODULE PinPredict -----------------------------
(***************************************************************************)
(* The stride prediction tool pinpredict.cpp.  Pin calls Trace() for new   *)
(* code; it reserves a predictor for every memory access of the trace and  *)
(* a counter for every exit.  While the trace runs, its accesses store     *)
(* their addresses by way of the tool register predReg, and at the exit    *)
(* that is taken all accesses done are checked against their predictors.   *)
(* Fini() computes the statistics from the exit counters.                  *)
(***************************************************************************)
EXTENDS Predictor, Sequences, FiniteSetsExt, SequencesExt

CONSTANTS
  Threads,          \* Pin thread ids, fewer than MAX_THREADS
  Shapes,           \* the traces of the program
  Addresses,        \* what it accesses
  MAX_PREDS, MAX_EXITS,
  MAX_ADDROFFSET,   \* store functions there are, 30
  MAX_AFTEREXIT,    \* the largest N of afterExitN<N>, 9
  MaxRuns,          \* bound on the traces run
  NULL

VARIABLES
  nextAPred,
  exits,            \* exit_from, exit_to, exit_stackAccs; nextExit is the length
  cache,            \* the instrumented traces
  exited,           \* the tool has ended with an error
  tdata,            \* predictors and exit counters of each thread
  predReg,          \* the tool register of each thread
  run,              \* where a thread is in a trace
  stored,           \* history: the addresses accessed in the trace
  executed,         \* history: how often each access of the cache was executed
  stackExecuted,    \* history: how many stack accesses were
  hits              \* history: how many addresses were predicted right

vars == <<nextAPred, exits, cache, exited, tdata, predReg, run, stored, executed,
          stackExecuted, hits>>

tables  == <<nextAPred, exits, cache, exited>>
history == <<executed, stackExecuted, hits>>

Preds == 0 .. MAX_PREDS - 1
ExitIds == 1 .. MAX_EXITS

ThreadData == [apreds : [Preds -> AddrPredict], exit_counter : [ExitIds -> Nat]]

\* Traces, as sequences of basic blocks: each with its number of accesses,
\* of stack accesses, and whether it ends in a branch or call; and whether
\* the last one can be left downwards.
BasicBlock == [accs : Nat, stack : Nat, branch : BOOLEAN]
TraceShape == [bbls : Seq(BasicBlock) \ {<< >>}, fallThrough : BOOLEAN]

\* Where a thread is in a trace: in a block, or at an exit it takes, before
\* the checks or before the counter.
Runs == [trace : Nat, block : Nat, at : {"block"}]
          \cup [trace : Nat, block : Nat, at : {"check", "count"}, exit : Nat]

ASSUME PinPredictAssumption ==
  /\ Addresses \subseteq Int
  /\ NULL \notin ThreadData \cup Runs

ASSUME TracesAssumption ==
  /\ Shapes \subseteq TraceShape
  /\ {MAX_PREDS, MAX_EXITS, MAX_AFTEREXIT, MaxRuns} \subseteq Nat
  /\ MAX_ADDROFFSET \in Nat \ {0}

-----------------------------------------------------------------------------
\* f[1] + ... + f[n]
SumTo(f, n) ==
  LET sum[i \in 0 .. n] == IF i = 0 THEN 0 ELSE sum[i - 1] + f[i]
  IN  sum[n]

\* The accesses, and those to the stack, of the first b basic blocks.
AccsUpTo(shape, b)  == SumTo([i \in DOMAIN shape.bbls |-> shape.bbls[i].accs], b)
StackUpTo(shape, b) == SumTo([i \in DOMAIN shape.bbls |-> shape.bbls[i].stack], b)
LastBlock(shape)    == Len(shape.bbls)

\* An exit is named by its basic block, the fall through by 0.
ExitsOf(shape) ==
  {b \in 1 .. LastBlock(shape) : shape.bbls[b].branch}
    \cup (IF shape.fallThrough THEN {0} ELSE {})

ExitBlock(shape, x) == IF x = 0 THEN LastBlock(shape) ELSE x

\* The exits in the order in which Trace() calls getExit().
ExitOrder(shape) ==
  LET branches[b \in 0 .. LastBlock(shape)] ==
        IF b = 0 THEN << >>
        ELSE IF shape.bbls[b].branch THEN Append(branches[b - 1], b) ELSE branches[b - 1]
  IN  branches[LastBlock(shape)] \o (IF shape.fallThrough THEN << 0 >> ELSE << >>)

\* accBase once n accesses were instrumented.
AccBase(n) == IF n = 0 THEN 0 ELSE MAX_ADDROFFSET * ((n - 1) \div MAX_ADDROFFSET)

Init ==
  /\ nextAPred = 0
  /\ exits = << >>
  /\ cache = << >>
  /\ exited = FALSE
  /\ tdata = [t \in Threads |-> NULL]
  /\ predReg = [t \in Threads |-> 0]
  /\ run = [t \in Threads |-> NULL]
  /\ stored = [t \in Threads |-> << >>]
  /\ executed = [t \in Threads |-> [j \in Preds |-> 0]]
  /\ stackExecuted = [t \in Threads |-> 0]
  /\ hits = [t \in Threads |-> 0]

NewThreadData ==
  [apreds |-> [j \in Preds |-> NewAddrPredict], exit_counter |-> [e \in ExitIds |-> 0]]

ThreadStart(t) ==
  /\ ~exited
  /\ tdata[t] = NULL
  /\ tdata' = [tdata EXCEPT ![t] = NewThreadData]
  /\ UNCHANGED <<tables, predReg, run, stored, history>>

\* getExit() for exit x of a trace with its first predictor at first.
NewExit(shape, first, x) ==
  LET b == ExitBlock(shape, x)
  IN  [from |-> first, to |-> first + AccsUpTo(shape, b), stackAccs |-> StackUpTo(shape, b)]

\* Mutant of Fits: the arrays are found full one entry too late.
FitsLate(shape) ==
  /\ nextAPred + AccsUpTo(shape, LastBlock(shape)) <= MAX_PREDS + 1
  /\ Len(exits) + Len(ExitOrder(shape)) <= MAX_EXITS + 1

\* No getAPred() and no getExit() of the trace finds its array full.
Fits(shape) ==
  /\ nextAPred + AccsUpTo(shape, LastBlock(shape)) <= MAX_PREDS
  /\ Len(exits) + Len(ExitOrder(shape)) <= MAX_EXITS

\* Trace()
Instrument(shape) ==
  /\ ~exited
  /\ Fits(shape)
  /\ LET order == ExitOrder(shape)
     IN  /\ exits' = exits \o [i \in DOMAIN order |-> NewExit(shape, nextAPred, order[i])]
         /\ cache' = Append(cache,
              [shape |-> shape, first |-> nextAPred,
               exit |-> [x \in ExitsOf(shape) |->
                           Len(exits) + (CHOOSE i \in DOMAIN order : order[i] = x)]])
  /\ nextAPred' = nextAPred + AccsUpTo(shape, LastBlock(shape))
  /\ UNCHANGED <<exited, tdata, predReg, run, stored, history>>

\* "ERROR: Too many predictors needed", or "trace exit counters"
TooMany(shape) ==
  /\ ~exited
  /\ ~Fits(shape)
  /\ exited' = TRUE
  /\ UNCHANGED <<nextAPred, exits, cache, tdata, predReg, run, stored, history>>

-----------------------------------------------------------------------------
Trace(t)   == cache[run[t].trace]
Done(t)    == Len(stored[t])
InBlock(t) == ~exited /\ run[t] # NULL /\ run[t].at = "block"
AtEnd(t)   == InBlock(t) /\ Done(t) = AccsUpTo(Trace(t).shape, run[t].block)

Enter(t, i) ==
  /\ ~exited
  /\ tdata[t] # NULL
  /\ run[t] = NULL
  /\ MapThenSumSet(LAMBDA u : MapThenSumSet(LAMBDA e : tdata[u].exit_counter[e], ExitIds),
                   {u \in Threads : tdata[u] # NULL}) < MaxRuns
  /\ run' = [run EXCEPT ![t] = [trace |-> i, block |-> 1, at |-> "block"]]
  /\ stored' = [stored EXCEPT ![t] = << >>]
  /\ UNCHANGED <<tables, tdata, predReg, history>>

\* What predReg is when the next access stores its address: set by
\* returnPredPtr() for the first one, moved on by returnPredPtrN().
PredReg(t) ==
  CASE Done(t) = 0                                       -> Trace(t).first
    [] Done(t) # 0 /\ Done(t) % MAX_ADDROFFSET = 0       -> predReg[t] + MAX_ADDROFFSET
    [] OTHER                                             -> predReg[t]

\* Mutant of Access: predReg is moved on, the offset is not taken back.
AccessOffset(t, a) ==
  /\ InBlock(t) /\ ~AtEnd(t)
  /\ predReg' = [predReg EXCEPT ![t] = PredReg(t)]
  /\ tdata' = [tdata EXCEPT ![t].apreds[PredReg(t) + Done(t)].currentAddr = a]
  /\ stored' = [stored EXCEPT ![t] = Append(@, a)]
  /\ UNCHANGED <<tables, run, history>>

\* An access of the trace, with the calls Instruction() inserted before it.
Access(t, a) ==
  /\ InBlock(t) /\ ~AtEnd(t)
  /\ predReg' = [predReg EXCEPT ![t] = PredReg(t)]
  /\ tdata' = [tdata EXCEPT ![t].apreds[PredReg(t) + (Done(t) % MAX_ADDROFFSET)].currentAddr = a]
  /\ stored' = [stored EXCEPT ![t] = Append(@, a)]
  /\ UNCHANGED <<tables, run, history>>

\* The branch at the end of the block, if there is one, is not taken.
NextBlock(t) ==
  /\ AtEnd(t)
  /\ run[t].block < LastBlock(Trace(t).shape)
  /\ run' = [run EXCEPT ![t].block = @ + 1]
  /\ UNCHANGED <<tables, tdata, predReg, stored, history>>

\* The trace is left by a branch taken, or downwards.
TakeExit(t) ==
  /\ AtEnd(t)
  /\ \E x \in ExitsOf(Trace(t).shape) :
       /\ ExitBlock(Trace(t).shape, x) = run[t].block
       /\ run' = [run EXCEPT ![t] = [trace |-> @.trace, block |-> @.block, at |-> "check",
                                     exit |-> Trace(t).exit[x]]]
  /\ UNCHANGED <<tables, tdata, predReg, stored, history>>

Exit(t)  == exits[run[t].exit]
Count(t) == Exit(t).to - Exit(t).from

\* afterExitN() is called for few accesses, with predReg set again if need be.
Inlined(t)  == Count(t) \in 1 .. MAX_AFTEREXIT
SetAgain(t) == AccBase(Count(t)) > 0

\* The predictors that are checked at the exit.
Checked(t) ==
  LET off == IF Inlined(t) /\ ~SetAgain(t) THEN predReg[t] ELSE Exit(t).from
  IN  off .. off + Count(t) - 1

\* afterExit(), afterExitN()
CheckAll(t) ==
  /\ ~exited /\ run[t] # NULL /\ run[t].at = "check"
  /\ predReg' = [predReg EXCEPT ![t] = IF Inlined(t) /\ SetAgain(t) THEN Exit(t).from ELSE @]
  /\ tdata' = [tdata EXCEPT ![t].apreds =
       [j \in Preds |-> IF j \in Checked(t) THEN Check(@[j], @[j].currentAddr) ELSE @[j]]]
  /\ run' = [run EXCEPT ![t].at = "count"]
  /\ hits' = [hits EXCEPT ![t] = @ +
       Cardinality({j \in Checked(t) : tdata[t].apreds[j].currentAddr
                                         = tdata[t].apreds[j].predictedAddr})]
  /\ UNCHANGED <<tables, stored, executed, stackExecuted>>

\* incExitCounter()
CountExit(t) ==
  /\ ~exited /\ run[t] # NULL /\ run[t].at = "count"
  /\ tdata' = [tdata EXCEPT ![t].exit_counter[run[t].exit] = @ + 1]
  /\ run' = [run EXCEPT ![t] = NULL]
  /\ executed' = [executed EXCEPT ![t] =
       [j \in Preds |-> IF j - Trace(t).first \in 0 .. Done(t) - 1 THEN @[j] + 1 ELSE @[j]]]
  /\ stackExecuted' = [stackExecuted EXCEPT ![t] =
       @ + StackUpTo(Trace(t).shape, run[t].block)]
  /\ stored' = [stored EXCEPT ![t] = << >>]
  /\ UNCHANGED <<tables, predReg, hits>>

Next ==
  \/ \E shape \in Shapes : Instrument(shape) \/ TooMany(shape)
  \/ \E t \in Threads :
       \/ ThreadStart(t)
       \/ \E i \in DOMAIN cache : Enter(t, i)
       \/ \E a \in Addresses : Access(t, a)
       \/ NextBlock(t) \/ TakeExit(t) \/ CheckAll(t) \/ CountExit(t)

Spec == Init /\ [][Next]_vars

-----------------------------------------------------------------------------
(***************************************************************************)
(* The statistics of Fini() for a thread.                                  *)
(***************************************************************************)
NextExits == 1 .. Len(exits)
Covers(e, j) == exits[e].from <= j /\ j < exits[e].to

\* Mutant of PredCount: the bounds are those of exit_to[i - 1].
PredCountInclusive(t, j) ==
  SumTo([e \in NextExits |-> IF exits[e].from <= j /\ j <= exits[e].to
                             THEN tdata[t].exit_counter[e] ELSE 0], Len(exits)) % CounterSize

\* The counters of the exits that cover predictor j, without overflow.
Executions(t, j) ==
  SumTo([e \in NextExits |-> IF Covers(e, j) THEN tdata[t].exit_counter[e] ELSE 0], Len(exits))

\* AddrPredict::count, a UINT32
PredCount(t, j) == Executions(t, j) % CounterSize

threadMissCount(t) ==
  SumTo([i \in 1 .. nextAPred |-> tdata[t].apreds[i - 1].missCount], nextAPred)

threadCount(t) == SumTo([i \in 1 .. nextAPred |-> PredCount(t, i - 1)], nextAPred)

threadHitCount(t) == threadCount(t) - threadMissCount(t)

\* Each exit adds accs * counter, and then counter once more for every access.
threadCount2(t) ==
  SumTo([e \in NextExits |->
           LET n == exits[e].to - exits[e].from
           IN  (n + exits[e].stackAccs + n) * tdata[t].exit_counter[e]], Len(exits))

Running(t) == tdata[t] # NULL
Outside(t) == Running(t) /\ run[t] = NULL

-----------------------------------------------------------------------------
\* Type invariant of the tool.
TypeOK ==
  /\ nextAPred \in 0 .. MAX_PREDS
  /\ Len(exits) <= MAX_EXITS
  /\ \A e \in NextExits : exits[e].from \in 0 .. exits[e].to /\ exits[e].to <= nextAPred
  /\ exited \in BOOLEAN
  /\ tdata \in [Threads -> ThreadData \cup {NULL}]
  /\ run \in [Threads -> Runs \cup {NULL}]

(***************************************************************************)
(* At an exit each predictor of the accesses that were executed, and no    *)
(* other, is checked, against the address its access has stored.           *)
(***************************************************************************)
ChecksOwnAccesses ==
  \A t \in Threads : run[t] # NULL /\ run[t].at = "check" =>
    /\ Checked(t) = {Trace(t).first + k : k \in 0 .. Done(t) - 1}
    /\ \A k \in 1 .. Done(t) :
         tdata[t].apreds[Trace(t).first + k - 1].currentAddr = stored[t][k]

(***************************************************************************)
(* The number of executions Fini() derives for an access from the exits of *)
(* its trace is how often it was executed, as far as a UINT32 can count.   *)
(***************************************************************************)
CountsAddUp ==
  \A t \in Threads : Outside(t) =>
    \A j \in Preds : PredCount(t, j) = executed[t][j] % CounterSize

(***************************************************************************)
(* "predicted" reports the addresses that were predicted right, as long as *)
(* no counter wraps around and the thread is not between check and count.  *)
(***************************************************************************)
HitsAddUp ==
  \A t \in Threads : Outside(t) /\ (\A j \in Preds : executed[t][j] < CounterSize) =>
    threadHitCount(t) = hits[t]

(***************************************************************************)
(* Every predictor in use learns the stride of its access after few        *)
(* misses, unless the stride is too large.                                 *)
(***************************************************************************)
LearnsStride ==
  \A t \in Threads : Running(t) =>
    \A j \in Preds : \A a, b \in Addresses :
      b - a \in 1 - MAXDIFF .. MAXDIFF - 1 => Learns(tdata[t].apreds[j], a, b - a)

(***************************************************************************)
(* "all accesses": threadCount2 is the number of accesses of the thread,   *)
(* those to the stack included.                                            *)
(***************************************************************************)
AllAccesses ==
  \A t \in Threads : Outside(t) =>
    threadCount2(t) = MapThenSumSet(LAMBDA j : executed[t][j], Preds) + stackExecuted[t]
=============================================================================
