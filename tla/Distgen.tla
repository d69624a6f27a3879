------------------------------ MODULE Distgen ------------------------------
(***************************************************************************)
(* The load generator distgen.c: main() collects distances, sets up the    *)
(* chain of blocks and has all threads do iterations, in chunks after      *)
(* which it prints statistics.  SIGUSR1 ends a chunk early: its handler    *)
(* runs on some thread, and each thread looks at sigCounter after an       *)
(* iteration.  All buffers are alike, so there is one chain.               *)
(***************************************************************************)
EXTENDS Traversal, SequencesExt

CONSTANTS
  Sizes,          \* distances given on the command line, in bytes
  Options,        \* records of the other options
  BLOCKLEN, MAXDISTCOUNT,
  tcount,         \* number of threads
  MaxSignals,     \* bound on the signals sent
  MaxCount,       \* where counts of iterations saturate, beyond any reached
  NULL

ASSUME DistgenAssumption ==
  /\ BLOCKLEN \in Nat \ {0} /\ MAXDISTCOUNT \in Nat \ {0}
  /\ Sizes \subseteq Nat \ {0}
  /\ tcount \in Nat \ {0}
  /\ MaxSignals \in Nat /\ MaxCount \in Nat
  /\ Options \subseteq [pseudoRandom : BOOLEAN, depChain : BOOLEAN, doWrite : BOOLEAN,
                         stopOnSigUSR1 : BOOLEAN, iter : Nat \ {0}, iters_perstat : Nat]
  /\ \A o \in Options : o.iter + MaxSignals <= MaxCount
  /\ NULL \notin Nat

Threads == 0 .. tcount - 1
Master == 0

VARIABLES
  phase,          \* "options", "init", "running", "end", "aborted", "overrun"
  distSize,       \* distances, the code's index d is position d + 1
  options,
  blocks, blockDiff, next,
  ii, iiTodo,
  aCount,         \* in units of the accesses of an iteration
  bench,          \* runBench() of each thread
  sigCounter,
  handler,        \* what siginfo_handler() has read on a thread, or NULL
  given,          \* history: distances given
  done,           \* history: iterations finished by each thread
  sent            \* signals sent

vars == <<phase, distSize, options, blocks, blockDiff, next, ii, iiTodo, aCount, bench,
          sigCounter, handler, given, done, sent>>

setup   == <<distSize, options, blocks, blockDiff, next, given>>
signals == <<sigCounter, handler, sent>>

NoBench == [at |-> "none", i |-> 0, oldSigCounter |-> 0, aCount |-> 0]

Init ==
  /\ phase = "options"
  /\ distSize = << >>
  /\ options = NULL
  /\ blocks = 0 /\ blockDiff = 0 /\ next = << >>
  /\ ii = 0 /\ iiTodo = 0 /\ aCount = 0
  /\ bench = [t \in Threads |-> NoBench]
  /\ sigCounter = 0
  /\ handler = [t \in Threads |-> NULL]
  /\ given = {}
  /\ done = [t \in Threads |-> 0]
  /\ sent = 0

distBlocks(d) == (distSize[d] + BLOCKLEN - 1) \div BLOCKLEN

\* A run that went on for ever would come back to a state it has been in.
CountUp(n, k) == Min({n + k, MaxCount})

-----------------------------------------------------------------------------
(***************************************************************************)
(* Command line                                                            *)
(***************************************************************************)
Place(size) == Min({d \in DOMAIN distSize : distSize[d] <= size} \cup {Len(distSize) + 1})

\* Mutant of Inserted: a distance given twice is there twice.
InsertedTwice(size) ==
  IF Len(distSize) < MAXDISTCOUNT THEN InsertAt(distSize, Place(size), size) ELSE distSize

\* The distances after addDist(), which keeps them sorted and each once.
Inserted(size) ==
  IF size \in Range(distSize) \/ Len(distSize) >= MAXDISTCOUNT
  THEN distSize
  ELSE InsertAt(distSize, Place(size), size)

addDist(size) ==
  /\ phase = "options"
  /\ distSize' = Inserted(size)
  /\ phase' = IF size \notin Range(distSize) /\ Len(distSize) = MAXDISTCOUNT
              THEN "aborted" ELSE phase
  /\ given' = given \cup {size}
  /\ UNCHANGED <<options, blocks, blockDiff, next, ii, iiTodo, aCount, bench, signals, done>>

\* No count of iterations between statistics means one chunk.
parseOptions(o) ==
  /\ phase = "options"
  /\ distSize # << >>
  /\ phase' = "init"
  /\ options' = [o EXCEPT !.iters_perstat = IF @ = 0 THEN o.iter ELSE @]
  /\ UNCHANGED <<distSize, blocks, blockDiff, next, ii, iiTodo, aCount, bench, signals,
                 given, done>>

-----------------------------------------------------------------------------
(***************************************************************************)
(* main()                                                                  *)
(***************************************************************************)
\* Mutant of Fork: sigCounter is read once, before the first chunk.
ForkOnce(from) ==
  /\ iiTodo' = Min({options.iter - from, options.iters_perstat})
  /\ bench' = [t \in Threads |-> [NoBench EXCEPT !.at = "running"]]

\* All threads get the next chunk.
Fork(from) ==
  /\ iiTodo' = Min({options.iter - from, options.iters_perstat})
  /\ bench' = [t \in Threads |-> [NoBench EXCEPT !.at = "ready"]]

\* A size beyond INT_MAX overruns the int: it comes back from adjustSize()
\* negative, which is 2^64 more in the u64, or far below the distance.  What the
\* program does with such a buffer, if it gets one, is not followed any further.
Setup ==
  /\ phase = "init"
  /\ LET size == distBlocks(1)
         diff == BlockDiff(size, options.pseudoRandom)
     IN  /\ blockDiff' = diff
         /\ blocks' = adjustSize(size, diff)
         /\ IF Adjusted(size, diff) <= INT_MAX
            THEN phase' = "running" /\ next' = Chain(adjustSize(size, diff), diff) /\ Fork(0)
            ELSE phase' = "overrun" /\ UNCHANGED <<next, iiTodo, bench>>
  /\ UNCHANGED <<distSize, options, ii, aCount, signals, given, done>>

\* lastprivate: the value of the loop's last iteration
iiDone == bench[tcount - 1].i

\* The sum of what f has for every thread.
SumOf(f) ==
  LET Sum[n \in 0 .. tcount] == IF n = 0 THEN 0 ELSE Sum[n - 1] + f[n - 1]
  IN  Sum[tcount]

\* Mutant of Reduced: every thread is taken to have done what the last one did.
ReducedLast == CountUp(aCount, tcount * bench[tcount - 1].aCount)

\* aCount after the reduction of all threads'.
Reduced == CountUp(aCount, SumOf([t \in Threads |-> bench[t].aCount]))

\* Mutant of Stops: any chunk that was cut short is the last.
StopsShort == ii + iiDone >= options.iter \/ iiDone < iiTodo

\* Mutant of Stops: ii may reach iter.
StopsLate == ii + iiDone > options.iter \/ (options.stopOnSigUSR1 /\ iiDone < iiTodo)

\* No further chunk.
Stops == ii + iiDone >= options.iter \/ (options.stopOnSigUSR1 /\ iiDone < iiTodo)

\* The end of a chunk, which comes when all threads are there.
Join ==
  /\ phase = "running" /\ handler[Master] = NULL
  /\ \A t \in Threads : bench[t].at = "returned"
  /\ ii' = ii + iiDone
  /\ aCount' = Reduced
  /\ IF Stops
     THEN phase' = "end" /\ UNCHANGED <<iiTodo, bench>>
     ELSE Fork(ii + iiDone) /\ UNCHANGED phase
  /\ UNCHANGED <<setup, signals, done>>

-----------------------------------------------------------------------------
(***************************************************************************)
(* runBench() and siginfo_handler()                                        *)
(***************************************************************************)
StartBench(t) ==
  /\ handler[t] = NULL
  /\ bench[t].at = "ready"
  /\ bench' = [bench EXCEPT ![t].at = "running", ![t].oldSigCounter = sigCounter]
  /\ UNCHANGED <<phase, setup, ii, iiTodo, aCount, signals, done>>

\* An iteration, and the look at sigCounter after it, which leaves i as it is.
Iterate(t) ==
  /\ handler[t] = NULL
  /\ bench[t].at = "running"
  /\ LET signalled == sigCounter > bench[t].oldSigCounter
         i == IF signalled THEN bench[t].i ELSE bench[t].i + 1
     IN  bench' = [bench EXCEPT ![t].i = i,
                                ![t].aCount = CountUp(@, 1),
                                ![t].at = IF signalled \/ i >= iiTodo THEN "returned" ELSE @]
  /\ done' = [done EXCEPT ![t] = CountUp(@, 1)]
  /\ UNCHANGED <<phase, setup, ii, iiTodo, aCount, signals>>

\* SIGUSR1 is delivered to t, whose handler reads sigCounter.
Signal(t) ==
  /\ phase = "running" /\ sent < MaxSignals
  /\ handler[t] = NULL
  /\ handler' = [handler EXCEPT ![t] = sigCounter]
  /\ sent' = sent + 1
  /\ UNCHANGED <<phase, setup, ii, iiTodo, aCount, bench, sigCounter, done>>

\* The handler writes sigCounter, whoever has counted meanwhile.
CountSignal(t) ==
  /\ handler[t] # NULL
  /\ sigCounter' = handler[t] + 1
  /\ handler' = [handler EXCEPT ![t] = NULL]
  /\ UNCHANGED <<phase, setup, ii, iiTodo, aCount, bench, sent, done>>

Step(t) == StartBench(t) \/ Iterate(t) \/ CountSignal(t)

Next ==
  \/ \E size \in Sizes : addDist(size)
  \/ \E o \in Options : parseOptions(o)
  \/ Setup \/ Join
  \/ \E t \in Threads : Step(t) \/ Signal(t)

Spec == Init /\ [][Next]_vars

\* The operating system runs the threads.
Fairness ==
  /\ WF_vars(Setup) /\ WF_vars(Join)
  /\ \A t \in Threads : WF_vars(Step(t))

FairSpec == Spec /\ Fairness

-----------------------------------------------------------------------------
\* Type invariant of the generator.
TypeOK ==
  /\ phase \in {"options", "init", "running", "end", "aborted", "overrun"}
  /\ distSize \in Seq(Nat) /\ Len(distSize) <= MAXDISTCOUNT
  /\ ii \in Nat /\ iiTodo \in Nat /\ aCount \in Nat /\ sigCounter \in Nat
  /\ \A t \in Threads : bench[t].at \in {"ready", "running"} => bench[t].i \in 0 .. iiTodo - 1
  /\ phase = "running" => ii < options.iter /\ iiTodo \in 1 .. options.iters_perstat

(***************************************************************************)
(* The distances are those given, in descending order, each once           *)
(* (addDist(): "one dist only once").                                      *)
(***************************************************************************)
DistancesDescend ==
  /\ \A d \in 1 .. Len(distSize) - 1 : distSize[d] > distSize[d + 1]
  /\ phase # "aborted" => Range(distSize) = given

(***************************************************************************)
(* The dependency chain goes through all blocks of the buffer and back to  *)
(* the first one, so that no entry gets a second successor, as long as the *)
(* number of blocks is an int.                                             *)
(***************************************************************************)
ChainVisitsAll ==
  phase = "running" =>
    LET way == Walk(next, blocks + 1)
    IN  /\ {way[k] : k \in 1 .. blocks} = 0 .. blocks - 1
        /\ way[blocks + 1] = 0

(***************************************************************************)
(* "each memory block of cacheline size gets accessed": a traversal for a  *)
(* distance follows the chain for distBlocks blocks.  Without chain and    *)
(* without writes it may touch one more.                                   *)
(***************************************************************************)
TraversesItsBlocks ==
  phase = "running" =>
    \A d \in DOMAIN distSize :
      LET v == Visits(distBlocks(d), blocks, blockDiff, next, options.depChain, options.doWrite)
      IN  /\ v = Walk(next, Len(v))
          /\ Cardinality(Range(v)) >= distBlocks(d)
          /\ Len(v) - distBlocks(d) \in
               IF options.depChain \/ options.doWrite THEN {0} ELSE {0, 1}

(***************************************************************************)
(* aCount accounts for all iterations of all threads, however they were    *)
(* cut into chunks and whoever has seen a signal when, up to where the     *)
(* model's counts end.                                                     *)
(***************************************************************************)
AccessesAccounted == phase = "end" => aCount = CountUp(0, SumOf(done))

(***************************************************************************)
(* Unless -b was given, the last thread, the one that is counted, does the *)
(* iterations asked for, and one more at most for every signal.            *)
(***************************************************************************)
IterationsDone ==
  phase = "end" /\ ~options.stopOnSigUSR1 =>
    done[tcount - 1] \in options.iter .. options.iter + sent

(***************************************************************************)
(* The run comes to its end, whenever signals arrive and whichever get     *)
(* lost, as long as there are finitely many.                               *)
(***************************************************************************)
Terminates == phase = "running" ~> phase = "end"
=============================================================================
