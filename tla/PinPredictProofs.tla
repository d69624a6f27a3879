-------------------------- MODULE PinPredictProofs --------------------------
(***************************************************************************)
(* Proofs about the stride prediction tool.  Whatever it has seen before,  *)
(* a predictor learns a stride, and so does every predictor of every       *)
(* thread.  The tables Trace() fills tell at every exit which predictors   *)
(* the accesses done have used, so that these are checked and counted; and *)
(* the statistics of Fini() agree with what was executed and predicted.    *)
(***************************************************************************)
EXTENDS PinPredict, FiniteSetTheorems, WellFoundedInduction, TLAPS

(***************************************************************************)
(* The result of check() on a hit.                                         *)
(***************************************************************************)
LEMMA OnHit ==
  ASSUME NEW p \in AddrPredict, NEW a \in Int, a = p.predictedAddr
  PROVE  /\ Check(p, a) \in AddrPredict
         /\ Check(p, a).predictedAddr = a + p.predictedStride
         /\ Check(p, a).predictedStride = p.predictedStride
         /\ Check(p, a).lastStride = p.lastStride
         /\ Check(p, a).lastAddr = p.lastAddr
BY DEF Check, AddrPredict

(***************************************************************************)
(* The fields and the type of a predictor after a miss.                    *)
(***************************************************************************)
LEMMA AfterMiss ==
  ASSUME NEW p \in AddrPredict, NEW a \in Int, NEW l \in Int, NEW s \in Int
  PROVE  /\ Missed(p, a, l, s) \in AddrPredict
         /\ Missed(p, a, l, s).predictedAddr = a + s
         /\ Missed(p, a, l, s).predictedStride = s
         /\ Missed(p, a, l, s).lastStride = l
         /\ Missed(p, a, l, s).lastAddr = a
<1>0. p.missCount + 1 \in Int /\ CounterSize \in Nat \ {0}
  BY PredictorAssumption DEF AddrPredict
<1> DEFINE count == (p.missCount + 1) % CounterSize
<1>1. count \in 0 .. CounterSize - 1
  BY <1>0
<1>2. Missed(p, a, l, s) = [p EXCEPT !.missCount = count, !.lastAddr = a, !.lastStride = l,
                                     !.predictedStride = s, !.predictedAddr = a + s]
  BY DEF Missed
<1> HIDE DEF count
<1>3. Missed(p, a, l, s) = [currentAddr |-> p.currentAddr, predictedAddr |-> a + s,
                            predictedStride |-> s, lastStride |-> l, lastAddr |-> a,
                            missCount |-> count]
  BY <1>2 DEF AddrPredict
<1>4. p.currentAddr \in Int /\ a + s \in Int
  BY DEF AddrPredict
<1> QED
  BY <1>1, <1>3, <1>4 DEF AddrPredict

(***************************************************************************)
(* The result of check() on a miss with the same stride as the miss        *)
(* before: the stride is predicted from now on.                            *)
(***************************************************************************)
LEMMA OnSameStride ==
  ASSUME NEW p \in AddrPredict, NEW a \in Int, a # p.predictedAddr,
         p.lastStride = a - p.lastAddr
  PROVE  /\ Check(p, a) \in AddrPredict
         /\ Check(p, a).predictedAddr = a + (a - p.lastAddr)
         /\ Check(p, a).predictedStride = a - p.lastAddr
         /\ Check(p, a).lastStride = a - p.lastAddr
         /\ Check(p, a).lastAddr = a
<1>1. a - p.lastAddr \in Int
  BY DEF AddrPredict
<1>2. Check(p, a) = Missed(p, a, a - p.lastAddr, a - p.lastAddr)
  BY DEF Check
<1> QED
  BY <1>1, <1>2, AfterMiss

(***************************************************************************)
(* The result of check() on a miss with another stride, which is           *)
(* remembered if it is small, while the old one is predicted still.        *)
(***************************************************************************)
LEMMA OnOtherStride ==
  ASSUME NEW p \in AddrPredict, NEW a \in Int, a # p.predictedAddr,
         p.lastStride # a - p.lastAddr
  PROVE  /\ Check(p, a) \in AddrPredict
         /\ Check(p, a).predictedAddr = a + p.predictedStride
         /\ Check(p, a).predictedStride = p.predictedStride
         /\ Check(p, a).lastStride = LearnedStride(a - p.lastAddr)
         /\ Check(p, a).lastAddr = a
<1>1. LearnedStride(a - p.lastAddr) \in Int /\ p.predictedStride \in Int
  BY DEF AddrPredict, LearnedStride
<1>2. Check(p, a) = Missed(p, a, LearnedStride(a - p.lastAddr), p.predictedStride)
  BY DEF Check
<1> QED
  BY <1>1, <1>2, AfterMiss

(***************************************************************************)
(* check() yields a predictor.                                             *)
(***************************************************************************)
LEMMA CheckTyped ==
  ASSUME NEW p \in AddrPredict, NEW a \in Int
  PROVE  Check(p, a) \in AddrPredict
BY OnHit, OnSameStride, OnOtherStride

(***************************************************************************)
(* A predictor that is right about an address and has the stride stays so. *)
(***************************************************************************)
LEMMA StaysRight ==
  ASSUME NEW p \in AddrPredict, NEW a \in Int, NEW s \in Int,
         p.predictedAddr = a, p.predictedStride = s
  PROVE  /\ Check(p, a) \in AddrPredict
         /\ Check(p, a).predictedAddr = a + s
         /\ Check(p, a).predictedStride = s
BY OnHit

\* A predictor that has just missed address a.
Missing(p, a) == p.lastAddr = a /\ p.predictedAddr = a + p.predictedStride

(***************************************************************************)
(* After a miss, the predictor has the address it missed, and predicts     *)
(* from there.                                                             *)
(***************************************************************************)
LEMMA MissesOnce ==
  ASSUME NEW p \in AddrPredict, NEW a \in Int, a # p.predictedAddr
  PROVE  Check(p, a) \in AddrPredict /\ Missing(Check(p, a), a)
BY OnSameStride, OnOtherStride DEF Missing

(***************************************************************************)
(* From a miss on, two more accesses are enough to learn their stride: it  *)
(* is seen twice, or was known before.                                     *)
(***************************************************************************)
LEMMA Catches ==
  ASSUME NEW p \in AddrPredict, NEW a \in Int, Missing(p, a),
         NEW s \in Int, -MAXDIFF < s, s < MAXDIFF,
         NEW q, q = Check(p, a + s),
         NEW r, r = Check(q, a + 2 * s)
  PROVE  r \in AddrPredict /\ r.predictedAddr = a + 3 * s /\ r.predictedStride = s
<1>1. p.predictedStride \in Int /\ p.lastStride \in Int
  BY DEF AddrPredict
<1>2. q \in AddrPredict
  BY CheckTyped
<1>3. CASE p.predictedStride = s
  <2>1. q.predictedAddr = a + 2 * s /\ q.predictedStride = s
    BY <1>3, StaysRight DEF Missing
  <2> QED
    BY <1>2, <2>1, StaysRight
<1>4. CASE p.predictedStride # s
  <2>1. a + s # p.predictedAddr /\ (a + s) - p.lastAddr = s
    BY <1>1, <1>4 DEF Missing
  <2>2. CASE p.lastStride = s
    <3>1. q.predictedAddr = a + 2 * s /\ q.predictedStride = s
      BY <2>1, <2>2, OnSameStride
    <3> QED
      BY <1>2, <3>1, StaysRight
  <2>3. CASE p.lastStride # s
    <3>1. /\ q.predictedAddr = (a + s) + p.predictedStride
          /\ q.lastStride = LearnedStride(s)
          /\ q.lastAddr = a + s
      BY <2>1, <2>3, OnOtherStride
    <3>2. LearnedStride(s) = s
      BY DEF LearnedStride
    <3>3. a + 2 * s # q.predictedAddr /\ (a + 2 * s) - q.lastAddr = s
      BY <1>1, <1>4, <3>1
    <3> QED
      BY <1>2, <3>1, <3>2, <3>3, OnSameStride
  <2> QED
    BY <2>2, <2>3
<1> QED
  BY <1>3, <1>4

(***************************************************************************)
(* check() learns every stride below MAXDIFF: of the accesses at a, a + s, *)
(* and so on, three at most are missed, whatever the predictor has seen    *)
(* before.                                                                 *)
(***************************************************************************)
THEOREM StrideLearned ==
  ASSUME NEW p \in AddrPredict, NEW a \in Int,
         NEW s \in Int, -MAXDIFF < s, s < MAXDIFF
  PROVE  Learns(p, a, s)
<1> DEFINE p1 == Check(p, a)
           p2 == Check(p1, a + s)
           p3 == Check(p2, a + 2 * s)
           p4 == Check(p3, a + 3 * s)
<1>1. p1 \in AddrPredict /\ p2 \in AddrPredict /\ p3 \in AddrPredict
  BY CheckTyped
<1>2. SUFFICES /\ p4.predictedAddr = a + 4 * s /\ p4.predictedStride = s
               /\ p.predictedAddr = a \/ p3.predictedAddr = a + 3 * s
  BY DEF Learns
<1>3. CASE p.predictedAddr # a
  <2>1. Missing(p1, a)
    BY <1>3, MissesOnce
  <2>2. p3.predictedAddr = a + 3 * s /\ p3.predictedStride = s
    BY <1>1, <2>1, Catches
  <2> HIDE DEF p3
  <2> QED
    BY <1>1, <2>2, StaysRight
<1>4. CASE p.predictedAddr = a /\ p.predictedStride = s
  <2>1. p1.predictedAddr = a + s /\ p1.predictedStride = s
    BY <1>4, StaysRight
  <2>2. p2.predictedAddr = a + 2 * s /\ p2.predictedStride = s
    <3> HIDE DEF p1
    <3> QED
      BY <1>1, <2>1, StaysRight
  <2>3. p3.predictedAddr = a + 3 * s /\ p3.predictedStride = s
    <3> HIDE DEF p2
    <3> QED
      BY <1>1, <2>2, StaysRight
  <2> HIDE DEF p3
  <2> QED
    BY <1>1, <1>4, <2>3, StaysRight
<1>5. CASE p.predictedAddr = a /\ p.predictedStride # s
  <2>1. p1.predictedAddr = a + p.predictedStride /\ p.predictedStride \in Int
    BY <1>5, OnHit DEF AddrPredict
  <2>2. Missing(p2, a + s)
    <3> HIDE DEF p1
    <3>1. a + s # p1.predictedAddr /\ a + s \in Int
      BY <1>5, <2>1
    <3> QED
      BY <1>1, <3>1, MissesOnce
  <2>3. p4.predictedAddr = (a + s) + 3 * s /\ p4.predictedStride = s
    <3>1. /\ p3 = Check(p2, (a + s) + s)
          /\ p4 = Check(p3, (a + s) + 2 * s)
      <4> HIDE DEF p2
      <4> QED
        OBVIOUS
    <3> HIDE DEF p2, p3, p4
    <3> QED
      BY <1>1, <2>2, <3>1, Catches
  <2> QED
    BY <1>5, <2>3
<1> QED
  BY <1>3, <1>4, <1>5

-----------------------------------------------------------------------------
(***************************************************************************)
(* The inductive invariant: the data of threads is well typed, and a       *)
(* thread in a trace has data, so that no step updates a thread's data     *)
(* before it is there.                                                     *)
(***************************************************************************)
Typed ==
  /\ tdata \in [Threads -> ThreadData \cup {NULL}]
  /\ DOMAIN run = Threads
  /\ \A t \in Threads : run[t] # NULL => tdata[t] \in ThreadData

(***************************************************************************)
(* A thread starts with predictors of the right type.                      *)
(***************************************************************************)
LEMMA NewTyped == NewThreadData \in ThreadData
<1>1. NewAddrPredict \in AddrPredict
  BY PredictorAssumption DEF NewAddrPredict, AddrPredict
<1> QED
  BY <1>1 DEF NewThreadData, ThreadData

(***************************************************************************)
(* An access of a thread stores an address in one of its predictors.       *)
(***************************************************************************)
LEMMA StoredTyped ==
  ASSUME NEW d \in ThreadData, NEW j, NEW a \in Addresses
  PROVE  [d EXCEPT !.apreds[j].currentAddr = a] \in ThreadData
<1>1. a \in Int
  BY PinPredictAssumption
<1>2. \A p \in AddrPredict : [p EXCEPT !.currentAddr = a] \in AddrPredict
  BY <1>1 DEF AddrPredict
<1>3. d.apreds \in [Preds -> AddrPredict]
  BY DEF ThreadData
<1>4. [d.apreds EXCEPT ![j] = [d.apreds[j] EXCEPT !.currentAddr = a]] \in [Preds -> AddrPredict]
  BY <1>2, <1>3
<1> QED
  BY <1>4 DEF ThreadData

(***************************************************************************)
(* The checks at an exit keep the types.                                   *)
(***************************************************************************)
LEMMA CheckedTyped ==
  ASSUME NEW d \in ThreadData, NEW S
  PROVE  [d EXCEPT !.apreds =
            [j \in Preds |-> IF j \in S THEN Check(@[j], @[j].currentAddr) ELSE @[j]]]
           \in ThreadData
<1>1. d.apreds \in [Preds -> AddrPredict]
  BY DEF ThreadData
<1>2. \A p \in AddrPredict : Check(p, p.currentAddr) \in AddrPredict
  BY CheckTyped DEF AddrPredict
<1>3. [j \in Preds |-> IF j \in S THEN Check(d.apreds[j], d.apreds[j].currentAddr)
                                  ELSE d.apreds[j]] \in [Preds -> AddrPredict]
  BY <1>1, <1>2
<1> QED
  BY <1>3 DEF ThreadData

(***************************************************************************)
(* A counted exit keeps the types.                                         *)
(***************************************************************************)
LEMMA CountedTyped ==
  ASSUME NEW d \in ThreadData, NEW e
  PROVE  [d EXCEPT !.exit_counter[e] = @ + 1] \in ThreadData
<1>1. d.exit_counter \in [ExitIds -> Nat]
  BY DEF ThreadData
<1>2. [d.exit_counter EXCEPT ![e] = d.exit_counter[e] + 1] \in [ExitIds -> Nat]
  <2> DEFINE f == d.exit_counter
             g == [f EXCEPT ![e] = f[e] + 1]
  <2>1. DOMAIN g = ExitIds /\ g = [x \in ExitIds |-> g[x]]
    BY <1>1
  <2>2. \A x \in ExitIds : g[x] = IF x = e THEN f[x] + 1 ELSE f[x]
    BY <1>1
  <2>3. \A x \in ExitIds : g[x] \in Nat
    BY <1>1, <2>2
  <2>4. g \in [ExitIds -> Nat]
    <3> HIDE DEF g
    <3> QED
      BY <2>1, <2>3
  <2> QED
    BY <2>4
<1> QED
  BY <1>2 DEF ThreadData

(***************************************************************************)
(* Every step of the tool keeps the invariant.                             *)
(***************************************************************************)
LEMMA TypedStep == Typed /\ [Next]_vars => Typed'
<1> SUFFICES ASSUME Typed, [Next]_vars
             PROVE  Typed'
  OBVIOUS
<1> USE DEF Typed
<1>1. CASE UNCHANGED vars
  BY <1>1 DEF vars
<1>2. ASSUME NEW shape \in Shapes, Instrument(shape) \/ TooMany(shape)
      PROVE  Typed'
  BY <1>2 DEF Instrument, TooMany
<1>3. ASSUME NEW t \in Threads, ThreadStart(t)
      PROVE  Typed'
  BY <1>3, NewTyped, PinPredictAssumption DEF ThreadStart
<1>4. ASSUME NEW t \in Threads, NEW i \in DOMAIN cache, Enter(t, i)
      PROVE  Typed'
  BY <1>4 DEF Enter
<1>5. ASSUME NEW t \in Threads, NEW a \in Addresses, Access(t, a)
      PROVE  Typed'
  <2> DEFINE j == PredReg(t) + (Done(t) % MAX_ADDROFFSET)
  <2>1. tdata[t] \in ThreadData
    BY <1>5 DEF Access, InBlock
  <2>2. tdata' = [tdata EXCEPT ![t] = [tdata[t] EXCEPT !.apreds[j].currentAddr = a]]
    BY <1>5 DEF Access
  <2>3. UNCHANGED run
    BY <1>5 DEF Access
  <2> HIDE DEF j
  <2>4. [tdata[t] EXCEPT !.apreds[j].currentAddr = a] \in ThreadData
    BY <2>1, StoredTyped
  <2> QED
    BY <2>2, <2>3, <2>4
<1>6. ASSUME NEW t \in Threads, NextBlock(t) \/ TakeExit(t)
      PROVE  Typed'
  BY <1>6 DEF NextBlock, TakeExit, AtEnd, InBlock
<1>7. ASSUME NEW t \in Threads, CheckAll(t)
      PROVE  Typed'
  <2> DEFINE S == Checked(t)
             d == [tdata[t] EXCEPT !.apreds =
                     [j \in Preds |-> IF j \in S THEN Check(@[j], @[j].currentAddr) ELSE @[j]]]
  <2>1. tdata[t] \in ThreadData
    BY <1>7 DEF CheckAll
  <2>2. tdata' = [tdata EXCEPT ![t] = d] /\ run' = [run EXCEPT ![t].at = "count"]
    BY <1>7 DEF CheckAll
  <2>3. d \in ThreadData
    <3> HIDE DEF S
    <3> QED
      BY <2>1, CheckedTyped
  <2> HIDE DEF d
  <2> QED
    BY <2>2, <2>3
<1>8. ASSUME NEW t \in Threads, CountExit(t)
      PROVE  Typed'
  <2> DEFINE d == [tdata[t] EXCEPT !.exit_counter[run[t].exit] = @ + 1]
  <2>1. tdata[t] \in ThreadData
    BY <1>8 DEF CountExit
  <2>2. tdata' = [tdata EXCEPT ![t] = d] /\ run' = [run EXCEPT ![t] = NULL]
    BY <1>8 DEF CountExit
  <2>3. d \in ThreadData
    BY <2>1, CountedTyped
  <2> HIDE DEF d
  <2> QED
    BY <2>2, <2>3
<1> QED
  BY <1>1, <1>2, <1>3, <1>4, <1>5, <1>6, <1>7, <1>8 DEF Next

(***************************************************************************)
(* Typed is an invariant of the tool.                                       *)
(***************************************************************************)
THEOREM TypedAlways == Spec => []Typed
<1>1. Init => Typed
  BY DEF Init, Typed
<1> QED
  BY <1>1, TypedStep, PTL DEF Spec

(***************************************************************************)
(* Whatever a thread has executed, each of its predictors learns any       *)
(* stride below MAXDIFF with three misses at most.                         *)
(***************************************************************************)
THEOREM PredictorsLearn == Spec => []LearnsStride
<1>1. Typed => LearnsStride
  <2> SUFFICES ASSUME Typed,
                      NEW t \in Threads, Running(t), NEW j \in Preds,
                      NEW a \in Addresses, NEW b \in Addresses,
                      b - a \in 1 - MAXDIFF .. MAXDIFF - 1
               PROVE  Learns(tdata[t].apreds[j], a, b - a)
    BY DEF LearnsStride
  <2>1. a \in Int /\ b - a \in Int /\ -MAXDIFF < b - a /\ b - a < MAXDIFF
    BY PinPredictAssumption, PredictorAssumption
  <2>2. tdata[t] \in ThreadData
    BY DEF Typed, Running
  <2>3. tdata[t].apreds[j] \in AddrPredict
    BY <2>2 DEF ThreadData
  <2> QED
    BY <2>1, <2>3, StrideLearned
<1> QED
  BY <1>1, TypedAlways, PTL

-----------------------------------------------------------------------------
\* Sums.

\* Induction on the natural numbers, for sets.
LEMMA Induction ==
  ASSUME NEW S \in SUBSET Nat, 0 \in S, \A n \in S : n + 1 \in S
  PROVE  S = Nat
<1> DEFINE Less == OpToRel(<, Nat)
           Rest == Nat \ S
<1>1. IsWellFoundedOn(Less, Nat)
  BY NatLessThanWellFounded, Zenon
<1>2. \A x, y \in Nat : y < x => <<y, x>> \in Less
  BY DEF OpToRel
<1> HIDE DEF Less
<1>3. CASE Rest # {}
  <2>1. PICK x \in Rest : \A y \in Rest : ~ (<<y, x>> \in Less)
    BY <1>1, <1>3, WFMin, Zenon
  <2>2. x \in Nat /\ x \notin S /\ x # 0
    OBVIOUS
  <2>3. x - 1 \in Nat /\ x - 1 < x /\ (x - 1) + 1 = x
    BY <2>2
  <2>4. x - 1 \notin S
    BY <2>2, <2>3
  <2> QED
    BY <1>2, <2>1, <2>2, <2>3, <2>4
<1> QED
  BY <1>3

\* s is the function SumTo() is defined by.
Sums(s, f, n) == s = [i \in 0 .. n |-> IF i = 0 THEN 0 ELSE s[i - 1] + f[i]]

\* One step of the sum SumTo() stands for.
LEMMA SumsFacts ==
  ASSUME NEW s, NEW f, NEW n \in Nat, Sums(s, f, n)
  PROVE  /\ s[0] = 0
         /\ \A m \in Nat : m + 1 <= n => s[m + 1] = s[m] + f[m + 1]
<1>1. s[0] = 0
  BY DEF Sums
<1>2. ASSUME NEW m \in Nat, m + 1 <= n
      PROVE  s[m + 1] = s[m] + f[m + 1]
  <2>1. m + 1 \in 0 .. n /\ m + 1 # 0 /\ (m + 1) - 1 = m
    BY <1>2
  <2> QED
    BY <2>1 DEF Sums
<1> QED
  BY <1>1, <1>2

\* SumTo() is the value of that sum.
LEMMA SumToSums ==
  ASSUME NEW f, NEW n \in Nat
  PROVE  \E s : Sums(s, f, n) /\ SumTo(f, n) = s[n]
<1> DEFINE Sum(g, i) == IF i = 0 THEN 0 ELSE g[i - 1] + f[i]
           Some == {m \in Nat : \E g : \A i \in 0 .. m : g[i] = Sum(g, i)}
<1>1. ASSUME NEW g, NEW h, NEW i \in Nat, i # 0 => h[i - 1] = g[i - 1]
      PROVE  Sum(h, i) = Sum(g, i)
  BY <1>1
<1>2. 0 \in Some
  <2>1. PICK g : g = [i \in {0} |-> 0]
    OBVIOUS
  <2>2. g[0] = Sum(g, 0)
    BY <2>1
  <2>3. \A i \in 0 .. 0 : i = 0
    OBVIOUS
  <2>4. \A i \in 0 .. 0 : g[i] = Sum(g, i)
    BY <2>2, <2>3
  <2> QED
    BY <2>4
<1> HIDE DEF Sum
<1>3. ASSUME NEW m \in Some
      PROVE  m + 1 \in Some
  <2>1. PICK g : \A i \in 0 .. m : g[i] = Sum(g, i)
    OBVIOUS
  <2>2. PICK h : h = [i \in 0 .. m + 1 |-> IF i = m + 1 THEN Sum(g, i) ELSE g[i]]
    OBVIOUS
  <2>3. \A i \in 0 .. m : h[i] = g[i]
    BY <2>2
  <2>4. ASSUME NEW i \in 0 .. m + 1
        PROVE  h[i] = Sum(h, i)
    <3>1. i # 0 => i - 1 \in 0 .. m
      OBVIOUS
    <3>2. Sum(h, i) = Sum(g, i)
      BY <1>1, <2>3, <3>1
    <3>3. i = m + 1 \/ i \in 0 .. m
      OBVIOUS
    <3>4. CASE i = m + 1
      BY <2>2, <3>2, <3>4
    <3>5. CASE i \in 0 .. m
      BY <2>1, <2>3, <3>2, <3>5
    <3> QED
      BY <3>3, <3>4, <3>5
  <2> QED
    BY <2>4
<1>4. Some = Nat
  <2>1. Some \in SUBSET Nat
    OBVIOUS
  <2> HIDE DEF Some
  <2> QED
    BY <1>2, <1>3, <2>1, Induction
<1>5. PICK g : \A i \in 0 .. n : g[i] = Sum(g, i)
  BY <1>4
<1>6. PICK s : s = [i \in 0 .. n |-> g[i]]
  OBVIOUS
<1>7. \A i \in 0 .. n : g[i] = Sum(s, i)
  <2>1. ASSUME NEW i \in 0 .. n
        PROVE  Sum(s, i) = Sum(g, i)
    <3>1. i # 0 => s[i - 1] = g[i - 1]
      BY <1>6
    <3> QED
      BY <1>1, <3>1
  <2> QED
    BY <1>5, <2>1
<1>8. s = [i \in 0 .. n |-> Sum(s, i)]
  BY <1>6, <1>7
<1>9. Sums(s, f, n)
  BY <1>8 DEF Sums, Sum
<1>10. SumTo(f, n) = (CHOOSE h : Sums(h, f, n))[n]
  BY DEF SumTo, Sums
<1> QED
  BY <1>9, <1>10

\* Sums over more elements agree on the first ones.
LEMMA SumsAgree ==
  ASSUME NEW f, NEW n \in Nat, NEW s, Sums(s, f, n),
         NEW k \in Nat, NEW r, Sums(r, f, k)
  PROVE  \A m \in Nat : m <= n /\ m <= k => s[m] = r[m]
<1>1. PICK S : S = {m \in Nat : m <= n /\ m <= k => s[m] = r[m]}
  OBVIOUS
<1>2. 0 \in S
  BY <1>1, SumsFacts
<1>3. ASSUME NEW m \in S PROVE m + 1 \in S
  <2>1. m \in Nat /\ (m <= n /\ m <= k => s[m] = r[m])
    BY <1>1
  <2>2. ASSUME m + 1 <= n, m + 1 <= k PROVE s[m + 1] = r[m + 1]
    <3>1. s[m + 1] = s[m] + f[m + 1]
      BY <2>1, <2>2, SumsFacts
    <3>2. r[m + 1] = r[m] + f[m + 1]
      BY <2>1, <2>2, SumsFacts
    <3>3. s[m] = r[m]
      BY <2>1, <2>2
    <3> QED
      BY <3>1, <3>2, <3>3
  <2> QED
    BY <1>1, <2>1, <2>2
<1>4. S = Nat
  <2>1. S \in SUBSET Nat
    BY <1>1
  <2> QED
    BY <1>2, <1>3, <2>1, Induction
<1> QED
  BY <1>1, <1>4

\* A sum, one element at a time.
LEMMA SumToFacts ==
  ASSUME NEW f
  PROVE  /\ SumTo(f, 0) = 0
         /\ \A n \in Nat : SumTo(f, n + 1) = SumTo(f, n) + f[n + 1]
<1>1. SumTo(f, 0) = 0
  <2>1. 0 \in Nat
    OBVIOUS
  <2>2. PICK s : Sums(s, f, 0) /\ SumTo(f, 0) = s[0]
    BY <2>1, SumToSums
  <2> QED
    BY <2>1, <2>2, SumsFacts
<1>2. ASSUME NEW n \in Nat
      PROVE  SumTo(f, n + 1) = SumTo(f, n) + f[n + 1]
  <2>1. n + 1 \in Nat /\ n + 1 <= n + 1 /\ n <= n /\ n <= n + 1
    OBVIOUS
  <2>2. PICK s : Sums(s, f, n) /\ SumTo(f, n) = s[n]
    BY SumToSums
  <2>3. PICK r : Sums(r, f, n + 1) /\ SumTo(f, n + 1) = r[n + 1]
    BY <2>1, SumToSums
  <2>4. r[n + 1] = r[n] + f[n + 1]
    BY <2>1, <2>3, SumsFacts
  <2>5. s[n] = r[n]
    BY <2>1, <2>2, <2>3, SumsAgree
  <2> QED
    BY <2>2, <2>3, <2>4, <2>5
<1> QED
  BY <1>1, <1>2

\* The sum of natural numbers is one, and grows with their number.
LEMMA SumToNat ==
  ASSUME NEW n \in Nat, NEW f, \A i \in 1 .. n : f[i] \in Nat
  PROVE  \A m \in 0 .. n : SumTo(f, m) \in Nat /\ SumTo(f, m) <= SumTo(f, n)
<1>1. PICK S : S = {m \in Nat : m <= n => SumTo(f, m) \in Nat}
  OBVIOUS
<1>2. 0 \in S
  BY <1>1, SumToFacts
<1>3. ASSUME NEW m \in S PROVE m + 1 \in S
  <2>1. m \in Nat /\ (m <= n => SumTo(f, m) \in Nat)
    BY <1>1
  <2>2. SumTo(f, m + 1) = SumTo(f, m) + f[m + 1]
    BY <2>1, SumToFacts
  <2>3. m + 1 <= n => f[m + 1] \in Nat
    BY <2>1
  <2> QED
    BY <1>1, <2>1, <2>2, <2>3
<1>4. S = Nat
  <2>1. S \in SUBSET Nat
    BY <1>1
  <2> QED
    BY <1>2, <1>3, <2>1, Induction
<1>5. \A m \in 0 .. n : SumTo(f, m) \in Nat
  BY <1>1, <1>4
<1>6. ASSUME NEW m \in 0 .. n
      PROVE  SumTo(f, m) <= SumTo(f, n)
  <2>1. PICK T : T = {k \in Nat : m + k <= n => SumTo(f, m) <= SumTo(f, m + k)}
    OBVIOUS
  <2>2. 0 \in T
    BY <1>5, <2>1
  <2>3. ASSUME NEW k \in T PROVE k + 1 \in T
    <3>1. k \in Nat /\ (m + k <= n => SumTo(f, m) <= SumTo(f, m + k))
      BY <2>1
    <3>2. m + k \in Nat /\ m + (k + 1) = (m + k) + 1
      BY <3>1
    <3>3. SumTo(f, m + (k + 1)) = SumTo(f, m + k) + f[m + (k + 1)]
      BY <3>2, SumToFacts
    <3>4. ASSUME m + (k + 1) <= n
          PROVE  SumTo(f, m) <= SumTo(f, m + (k + 1))
      <4>1. m + k \in 0 .. n /\ m + (k + 1) \in 1 .. n /\ m + k <= n
        BY <3>1, <3>4
      <4>2. PICK x \in Nat, y \in Nat, z \in Nat :
              x = SumTo(f, m + k) /\ y = f[m + (k + 1)] /\ z = SumTo(f, m)
        BY <1>5, <4>1
      <4> QED
        BY <3>1, <3>3, <4>1, <4>2
    <3> QED
      BY <2>1, <3>1, <3>4
  <2>4. T = Nat
    <3>1. T \in SUBSET Nat
      BY <2>1
    <3> QED
      BY <2>2, <2>3, <3>1, Induction
  <2>5. n - m \in Nat /\ m + (n - m) = n /\ n <= n
    OBVIOUS
  <2>6. m + (n - m) <= n => SumTo(f, m) <= SumTo(f, m + (n - m))
    BY <2>1, <2>4, <2>5
  <2> QED
    BY <2>5, <2>6
<1> QED
  BY <1>5, <1>6

\* Each of the n elements of h is the sum of those of f and g.
AddsUp(n, f, g, h) == \A i \in 1 .. n : f[i] \in Int /\ g[i] \in Int /\ h[i] = f[i] + g[i]

\* Sums add up element by element.
LEMMA SumToAdds ==
  ASSUME NEW n \in Nat, NEW f, NEW g, NEW h, AddsUp(n, f, g, h)
  PROVE  /\ SumTo(f, n) \in Int /\ SumTo(g, n) \in Int
         /\ SumTo(h, n) = SumTo(f, n) + SumTo(g, n)
<1> DEFINE Adds(m) == /\ SumTo(f, m) \in Int /\ SumTo(g, m) \in Int
                      /\ SumTo(h, m) = SumTo(f, m) + SumTo(g, m)
<1>1. PICK S : S = {m \in Nat : m <= n => Adds(m)}
  OBVIOUS
<1>2. 0 \in S
  BY <1>1, SumToFacts
<1>3. ASSUME NEW m \in S PROVE m + 1 \in S
  <2>1. m \in Nat /\ (m <= n => Adds(m))
    BY <1>1
  <2>2. ASSUME m + 1 <= n PROVE Adds(m + 1)
    <3>1. m + 1 \in 1 .. n /\ m <= n
      BY <2>1, <2>2
    <3>2. /\ SumTo(f, m + 1) = SumTo(f, m) + f[m + 1]
          /\ SumTo(g, m + 1) = SumTo(g, m) + g[m + 1]
          /\ SumTo(h, m + 1) = SumTo(h, m) + h[m + 1]
      BY <2>1, SumToFacts
    <3>3. PICK x \in Int, y \in Int, u \in Int, v \in Int :
            /\ x = SumTo(f, m) /\ y = SumTo(g, m)
            /\ u = f[m + 1] /\ v = g[m + 1]
            /\ h[m + 1] = u + v /\ SumTo(h, m) = x + y
      BY <2>1, <3>1 DEF AddsUp
    <3>4. SumTo(h, m + 1) = (x + y) + (u + v)
      BY <3>2, <3>3
    <3>5. SumTo(f, m + 1) = x + u /\ SumTo(g, m + 1) = y + v
      BY <3>2, <3>3
    <3> QED
      BY <3>4, <3>5
  <2> HIDE DEF Adds
  <2> QED
    BY <1>1, <2>1, <2>2
<1>4. S = Nat
  <2>1. S \in SUBSET Nat
    BY <1>1
  <2> QED
    BY <1>2, <1>3, <2>1, Induction
<1>5. Adds(n)
  <2> HIDE DEF Adds
  <2> QED
    BY <1>1, <1>4
<1> QED
  BY <1>5

\* A sum depends on its elements only.
LEMMA SumToSame ==
  ASSUME NEW n \in Nat, NEW f, NEW g, \A i \in 1 .. n : f[i] = g[i]
  PROVE  SumTo(f, n) = SumTo(g, n)
<1>1. PICK S : S = {m \in Nat : m <= n => SumTo(f, m) = SumTo(g, m)}
  OBVIOUS
<1>2. 0 \in S
  BY <1>1, SumToFacts
<1>3. ASSUME NEW m \in S PROVE m + 1 \in S
  <2>1. m \in Nat /\ (m <= n => SumTo(f, m) = SumTo(g, m))
    BY <1>1
  <2>2. /\ SumTo(f, m + 1) = SumTo(f, m) + f[m + 1]
        /\ SumTo(g, m + 1) = SumTo(g, m) + g[m + 1]
    BY <2>1, SumToFacts
  <2>3. m + 1 <= n => f[m + 1] = g[m + 1] /\ m <= n
    BY <2>1
  <2> QED
    BY <1>1, <2>1, <2>2, <2>3
<1>4. S = Nat
  <2>1. S \in SUBSET Nat
    BY <1>1
  <2> QED
    BY <1>2, <1>3, <2>1, Induction
<1> QED
  BY <1>1, <1>4

\* Elements that are zero add nothing at the end.
LEMMA SumToExtended ==
  ASSUME NEW m \in Nat, NEW n \in Nat, m <= n, NEW f, SumTo(f, m) \in Int,
         \A i \in m + 1 .. n : f[i] = 0
  PROVE  SumTo(f, n) = SumTo(f, m)
<1>1. PICK S : S = {k \in Nat : m + k <= n => SumTo(f, m + k) = SumTo(f, m)}
  OBVIOUS
<1>2. 0 \in S
  BY <1>1
<1>3. ASSUME NEW k \in S PROVE k + 1 \in S
  <2>1. k \in Nat /\ (m + k <= n => SumTo(f, m + k) = SumTo(f, m))
    BY <1>1
  <2>2. m + k \in Nat /\ m + (k + 1) = (m + k) + 1
    BY <2>1
  <2>3. SumTo(f, m + (k + 1)) = SumTo(f, m + k) + f[m + (k + 1)]
    BY <2>2, SumToFacts
  <2>4. m + (k + 1) <= n => f[m + (k + 1)] = 0 /\ m + k <= n
    BY <2>1
  <2> QED
    BY <1>1, <2>1, <2>3, <2>4
<1>4. S = Nat
  <2>1. S \in SUBSET Nat
    BY <1>1
  <2> QED
    BY <1>2, <1>3, <2>1, Induction
<1>5. n - m \in Nat /\ m + (n - m) = n /\ n <= n
  OBVIOUS
<1>6. m + (n - m) <= n => SumTo(f, m + (n - m)) = SumTo(f, m)
  BY <1>1, <1>4, <1>5
<1> QED
  BY <1>5, <1>6

\* The elements of f mark the numbers below n that are in S.
Marks(n, S, f) == \A i \in 1 .. n : f[i] = IF i - 1 \in S THEN 1 ELSE 0

\* One for each element of a set of numbers is the size of the set.
LEMMA SumToCounts ==
  ASSUME NEW n \in Nat, NEW S, NEW f, Marks(n, S, f)
  PROVE  IsFiniteSet(S \cap 0 .. n - 1) /\ SumTo(f, n) = Cardinality(S \cap 0 .. n - 1)
<1> DEFINE Part(m) == S \cap 0 .. m - 1
           Counts(m) == IsFiniteSet(Part(m)) /\ SumTo(f, m) = Cardinality(Part(m))
<1>1. PICK T : T = {m \in Nat : m <= n => Counts(m)}
  OBVIOUS
<1>2. 0 \in T
  <2>1. Part(0) = {}
    OBVIOUS
  <2> QED
    BY <1>1, <2>1, FS_EmptySet, SumToFacts
<1>3. ASSUME NEW m \in T PROVE m + 1 \in T
  <2>1. m \in Nat /\ (m <= n => Counts(m))
    BY <1>1
  <2>2. ASSUME m + 1 <= n PROVE Counts(m + 1)
    <3>1. m <= n /\ m + 1 \in 1 .. n /\ (m + 1) - 1 = m
      BY <2>1, <2>2
    <3>2. SumTo(f, m + 1) = SumTo(f, m) + f[m + 1]
      BY <2>1, SumToFacts
    <3>3. PICK P : P = Part(m) /\ IsFiniteSet(P) /\ SumTo(f, m) = Cardinality(P)
      BY <2>1, <3>1
    <3>4. Cardinality(P) \in Nat
      BY <3>3, FS_CardinalityType
    <3>5. CASE m \in S
      <4>1. Part(m + 1) = P \cup {m} /\ m \notin P
        BY <2>1, <3>3, <3>5
      <4>2. IsFiniteSet(P \cup {m}) /\ Cardinality(P \cup {m}) = Cardinality(P) + 1
        BY <3>3, <4>1, FS_AddElement
      <4>3. f[m + 1] = 1
        BY <3>1, <3>5 DEF Marks
      <4> QED
        BY <3>2, <3>3, <4>1, <4>2, <4>3
    <3>6. CASE m \notin S
      <4>1. Part(m + 1) = P
        BY <2>1, <3>3, <3>6
      <4>2. f[m + 1] = 0
        BY <3>1, <3>6 DEF Marks
      <4>3. SumTo(f, m + 1) = Cardinality(P)
        BY <3>2, <3>3, <3>4, <4>2
      <4> QED
        BY <3>3, <4>1, <4>3
    <3> QED
      BY <3>5, <3>6
  <2> HIDE DEF Counts
  <2> QED
    BY <1>1, <2>1, <2>2
<1>4. T = Nat
  <2>1. T \in SUBSET Nat
    BY <1>1
  <2> QED
    BY <1>2, <1>3, <2>1, Induction
<1>5. Counts(n)
  <2> HIDE DEF Counts
  <2> QED
    BY <1>1, <1>4
<1> QED
  BY <1>5

-----------------------------------------------------------------------------
\* Traces.

\* A trace has a block, and blocks have numbers of accesses.
LEMMA ShapeFacts ==
  ASSUME NEW shape \in Shapes
  PROVE  /\ LastBlock(shape) \in Nat \ {0}
         /\ DOMAIN shape.bbls = 1 .. LastBlock(shape)
         /\ \A b \in 1 .. LastBlock(shape) :
              shape.bbls[b].accs \in Nat /\ shape.bbls[b].stack \in Nat
<1>1. shape.bbls \in Seq(BasicBlock) /\ shape.bbls # << >>
  BY TracesAssumption DEF TraceShape
<1>2. PICK s \in Seq(BasicBlock) : s = shape.bbls /\ s # << >>
  BY <1>1
<1>3. Len(s) \in Nat /\ DOMAIN s = 1 .. Len(s) /\ Len(s) # 0
  BY <1>2
<1>4. \A b \in 1 .. Len(s) : s[b] \in BasicBlock
  BY <1>2
<1>5. \A b \in BasicBlock : b.accs \in Nat /\ b.stack \in Nat
  BY DEF BasicBlock
<1> QED
  BY <1>2, <1>3, <1>4, <1>5 DEF LastBlock

\* The accesses up to a block.
LEMMA AccsFacts ==
  ASSUME NEW shape \in Shapes
  PROVE  /\ AccsUpTo(shape, 0) = 0
         /\ \A b \in 0 .. LastBlock(shape) :
              /\ AccsUpTo(shape, b) \in Nat
              /\ AccsUpTo(shape, b) <= AccsUpTo(shape, LastBlock(shape))
         /\ \A b \in 1 .. LastBlock(shape) : AccsUpTo(shape, b - 1) <= AccsUpTo(shape, b)
<1>0. PICK n \in Nat : n = LastBlock(shape)
  BY ShapeFacts
<1>1. PICK f : n = LastBlock(shape) /\ f = [i \in DOMAIN shape.bbls |-> shape.bbls[i].accs]
  BY <1>0
<1>2. \A i \in 1 .. n : f[i] \in Nat
  BY <1>1, ShapeFacts
<1>3. \A b : AccsUpTo(shape, b) = SumTo(f, b)
  BY <1>1 DEF AccsUpTo
<1>4. \A b \in 0 .. n : SumTo(f, b) \in Nat /\ SumTo(f, b) <= SumTo(f, n)
  BY <1>2, SumToNat
<1>5. SumTo(f, 0) = 0
  BY SumToFacts
<1>6. ASSUME NEW b \in 1 .. n
      PROVE  SumTo(f, b - 1) <= SumTo(f, b)
  <2>1. b \in Nat /\ b - 1 \in 0 .. b /\ \A i \in 1 .. b : f[i] \in Nat
    BY <1>2
  <2> QED
    BY <2>1, SumToNat
<1> QED
  BY <1>1, <1>3, <1>4, <1>5, <1>6

\* The stack accesses up to a block.
LEMMA StackFacts ==
  ASSUME NEW shape \in Shapes
  PROVE  \A b \in 0 .. LastBlock(shape) : StackUpTo(shape, b) \in Nat
<1>0. PICK n \in Nat : n = LastBlock(shape)
  BY ShapeFacts
<1>1. PICK f : n = LastBlock(shape) /\ f = [i \in DOMAIN shape.bbls |-> shape.bbls[i].stack]
  BY <1>0
<1>2. \A i \in 1 .. n : f[i] \in Nat
  BY <1>1, ShapeFacts
<1>3. \A b : StackUpTo(shape, b) = SumTo(f, b)
  BY <1>1 DEF StackUpTo
<1>4. \A b \in 0 .. n : SumTo(f, b) \in Nat
  BY <1>2, SumToNat
<1> QED
  BY <1>1, <1>3, <1>4

\* An exit is at a block.
LEMMA ExitBlockFacts ==
  ASSUME NEW shape \in Shapes, NEW x \in ExitsOf(shape)
  PROVE  ExitBlock(shape, x) \in 1 .. LastBlock(shape) /\ x \in Nat
BY ShapeFacts DEF ExitsOf, ExitBlock

\* s is the function ExitOrder() is defined by.
Branches(s, shape, n) ==
  s = [b \in 0 .. n |-> IF b = 0 THEN << >>
                        ELSE IF shape.bbls[b].branch THEN Append(s[b - 1], b) ELSE s[b - 1]]

\* There is such a function.
LEMMA BranchesExist ==
  ASSUME NEW shape, NEW n \in Nat
  PROVE  \E s : Branches(s, shape, n)
<1> DEFINE Step(g, i) == IF i = 0 THEN << >>
                         ELSE IF shape.bbls[i].branch THEN Append(g[i - 1], i) ELSE g[i - 1]
           Some == {m \in Nat : \E g : \A i \in 0 .. m : g[i] = Step(g, i)}
<1>1. ASSUME NEW g, NEW h, NEW i \in Nat, i # 0 => h[i - 1] = g[i - 1]
      PROVE  Step(h, i) = Step(g, i)
  BY <1>1
<1>2. 0 \in Some
  <2>1. PICK g : g = [i \in {0} |-> << >>]
    OBVIOUS
  <2>2. g[0] = Step(g, 0)
    BY <2>1
  <2>3. \A i \in 0 .. 0 : i = 0
    OBVIOUS
  <2>4. \A i \in 0 .. 0 : g[i] = Step(g, i)
    BY <2>2, <2>3
  <2> QED
    BY <2>4
<1> HIDE DEF Step
<1>3. ASSUME NEW m \in Some
      PROVE  m + 1 \in Some
  <2>1. PICK g : \A i \in 0 .. m : g[i] = Step(g, i)
    OBVIOUS
  <2>2. PICK h : h = [i \in 0 .. m + 1 |-> IF i = m + 1 THEN Step(g, i) ELSE g[i]]
    OBVIOUS
  <2>3. \A i \in 0 .. m : h[i] = g[i]
    BY <2>2
  <2>4. ASSUME NEW i \in 0 .. m + 1
        PROVE  h[i] = Step(h, i)
    <3>1. i # 0 => i - 1 \in 0 .. m
      OBVIOUS
    <3>2. Step(h, i) = Step(g, i)
      BY <1>1, <2>3, <3>1
    <3>3. i = m + 1 \/ i \in 0 .. m
      OBVIOUS
    <3>4. CASE i = m + 1
      BY <2>2, <3>2, <3>4
    <3>5. CASE i \in 0 .. m
      BY <2>1, <2>3, <3>2, <3>5
    <3> QED
      BY <3>3, <3>4, <3>5
  <2> QED
    BY <2>4
<1>4. Some = Nat
  <2>1. Some \in SUBSET Nat
    OBVIOUS
  <2> HIDE DEF Some
  <2> QED
    BY <1>2, <1>3, <2>1, Induction
<1>5. PICK g : \A i \in 0 .. n : g[i] = Step(g, i)
  BY <1>4
<1>6. PICK s : s = [i \in 0 .. n |-> g[i]]
  OBVIOUS
<1>7. \A i \in 0 .. n : g[i] = Step(s, i)
  <2>1. ASSUME NEW i \in 0 .. n
        PROVE  Step(s, i) = Step(g, i)
    <3>1. i # 0 => s[i - 1] = g[i - 1]
      BY <1>6
    <3> QED
      BY <1>1, <3>1
  <2> QED
    BY <1>5, <2>1
<1>8. s = [i \in 0 .. n |-> Step(s, i)]
  BY <1>6, <1>7
<1> QED
  BY <1>8 DEF Branches, Step

\* Appending to a sequence.
LEMMA AppendFacts ==
  ASSUME NEW S, NEW s \in Seq(S), NEW x \in S
  PROVE  /\ Append(s, x) \in Seq(S) /\ Len(s) \in Nat /\ Len(Append(s, x)) = Len(s) + 1
         /\ Append(s, x)[Len(s) + 1] = x
         /\ \A i \in 1 .. Len(s) : Append(s, x)[i] = s[i]
  OBVIOUS

\* A sequence whose elements are exactly those of a set.
Lists(s, S) ==
  /\ s \in Seq(Nat)
  /\ \A i \in 1 .. Len(s) : s[i] \in S
  /\ \A x \in S : \E i \in 1 .. Len(s) : s[i] = x

\* Appending one element more.
LEMMA ListsAppend ==
  ASSUME NEW s, NEW S, Lists(s, S), NEW x \in Nat
  PROVE  Lists(Append(s, x), S \cup {x})
<1>1. s \in Seq(Nat)
  BY DEF Lists
<1>2. PICK r : r = Append(s, x)
  OBVIOUS
<1>3. /\ r \in Seq(Nat) /\ Len(s) \in Nat /\ Len(r) = Len(s) + 1 /\ r[Len(s) + 1] = x
      /\ \A i \in 1 .. Len(s) : r[i] = s[i]
  BY <1>1, <1>2, AppendFacts
<1>4. \A i \in 1 .. Len(r) : i = Len(s) + 1 \/ i \in 1 .. Len(s)
  BY <1>3
<1>5. \A i \in 1 .. Len(r) : r[i] \in S \cup {x}
  BY <1>3, <1>4 DEF Lists
<1>6. Len(s) + 1 \in 1 .. Len(r) /\ \A i \in 1 .. Len(s) : i \in 1 .. Len(r)
  BY <1>3
<1>7. \A y \in S \cup {x} : \E i \in 1 .. Len(r) : r[i] = y
  BY <1>3, <1>6 DEF Lists
<1> QED
  BY <1>2, <1>3, <1>5, <1>7 DEF Lists

\* ExitOrder() lists the exits of a trace.
LEMMA ExitOrderFacts ==
  ASSUME NEW shape \in Shapes
  PROVE  Lists(ExitOrder(shape), ExitsOf(shape))
<1>1. PICK n \in Nat : n = LastBlock(shape)
  BY ShapeFacts
<1> DEFINE s == CHOOSE s : Branches(s, shape, n)
           Taken(m) == {b \in 1 .. m : shape.bbls[b].branch}
<1>2. ExitOrder(shape) = s[n] \o (IF shape.fallThrough THEN << 0 >> ELSE << >>)
  BY <1>1 DEF ExitOrder, Branches
<1>3. Branches(s, shape, n)
  BY BranchesExist
<1> HIDE DEF s
<1>4. PICK S : S = {m \in Nat : m <= n => Lists(s[m], Taken(m))}
  OBVIOUS
<1>5. 0 \in S
  <2>1. s[0] = << >>
    BY <1>3 DEF Branches
  <2>2. Taken(0) = {}
    OBVIOUS
  <2>3. Lists(<< >>, {})
    BY DEF Lists
  <2> QED
    BY <1>4, <2>1, <2>2, <2>3
<1>6. ASSUME NEW m \in S PROVE m + 1 \in S
  <2>1. m \in Nat /\ (m <= n => Lists(s[m], Taken(m)))
    BY <1>4
  <2>2. ASSUME m + 1 <= n PROVE Lists(s[m + 1], Taken(m + 1))
    <3>1. m <= n /\ m + 1 \in 0 .. n /\ m + 1 # 0 /\ (m + 1) - 1 = m
      BY <2>1, <2>2
    <3>2. s[m + 1] = IF shape.bbls[m + 1].branch THEN Append(s[m], m + 1) ELSE s[m]
      BY <1>3, <3>1 DEF Branches
    <3>3. CASE shape.bbls[m + 1].branch
      <4>1. Taken(m + 1) = Taken(m) \cup {m + 1}
        BY <2>1, <3>3
      <4>2. m + 1 \in Nat
        BY <2>1
      <4> HIDE DEF Taken
      <4> QED
        BY <2>1, <3>1, <3>2, <3>3, <4>1, <4>2, ListsAppend
    <3>4. CASE ~shape.bbls[m + 1].branch
      <4>1. Taken(m + 1) = Taken(m)
        BY <2>1, <3>4
      <4> HIDE DEF Taken
      <4> QED
        BY <2>1, <3>1, <3>2, <3>4, <4>1
    <3> QED
      BY <3>3, <3>4
  <2> HIDE DEF Taken
  <2> QED
    BY <1>4, <2>1, <2>2
<1>7. S = Nat
  <2>1. S \in SUBSET Nat
    BY <1>4
  <2> QED
    BY <1>5, <1>6, <2>1, Induction
<1>8. Lists(s[n], Taken(n))
  <2> HIDE DEF Taken
  <2> QED
    BY <1>4, <1>7
<1>9. PICK r \in Seq(Nat) : r = s[n] /\ Lists(r, Taken(n))
  BY <1>8 DEF Lists
<1>10. CASE shape.fallThrough
  <2>1. r \o << 0 >> = Append(r, 0)
    OBVIOUS
  <2>2. ExitsOf(shape) = Taken(n) \cup {0}
    BY <1>1, <1>10 DEF ExitsOf
  <2> HIDE DEF Taken
  <2>3. Lists(Append(r, 0), Taken(n) \cup {0})
    BY <1>9, ListsAppend
  <2>4. ExitOrder(shape) = Append(r, 0)
    BY <1>2, <1>9, <1>10, <2>1
  <2> QED
    BY <2>2, <2>3, <2>4
<1>11. CASE ~shape.fallThrough
  <2>1. r \o << >> = r
    OBVIOUS
  <2>2. ExitsOf(shape) = Taken(n)
    BY <1>1, <1>11 DEF ExitsOf
  <2> HIDE DEF Taken
  <2> QED
    BY <1>2, <1>9, <1>11, <2>1, <2>2
<1> QED
  BY <1>10, <1>11

\* predReg after n accesses: it is moved on by MAX_ADDROFFSET before every
\* access that many after the last time.
LEMMA AccBaseFacts ==
  ASSUME NEW n \in Nat
  PROVE  /\ AccBase(n) \in Nat
         /\ AccBase(n + 1) + (n % MAX_ADDROFFSET) = n
         /\ n # 0 => AccBase(n + 1) = IF n % MAX_ADDROFFSET = 0 THEN AccBase(n) + MAX_ADDROFFSET
                                                                ELSE AccBase(n)
<1>1. PICK M \in Nat \ {0} : M = MAX_ADDROFFSET
  BY TracesAssumption
<1>2. \A k \in Nat : k \div M \in Nat /\ k % M \in 0 .. M - 1 /\ k = M * (k \div M) + (k % M)
  OBVIOUS
<1>3. AccBase(n + 1) = M * (n \div M)
  <2>1. n + 1 # 0 /\ (n + 1) - 1 = n
    OBVIOUS
  <2> QED
    BY <1>1, <1>2, <2>1 DEF AccBase
<1>4. PICK q \in Nat, r \in 0 .. M - 1 : q = n \div M /\ r = n % M /\ n = M * q + r
  BY <1>2
<1>5. ASSUME n # 0
      PROVE  /\ AccBase(n) \in Nat
             /\ AccBase(n + 1) = IF n % M = 0 THEN AccBase(n) + M ELSE AccBase(n)
  <2>1. n - 1 \in Nat
    BY <1>5
  <2>2. PICK p \in Nat, k \in 0 .. M - 1 :
          p = (n - 1) \div M /\ k = (n - 1) % M /\ n - 1 = M * p + k
    BY <1>2, <2>1
  <2>3. AccBase(n) = M * p
    BY <1>1, <1>5, <2>2 DEF AccBase
  <2>4. M * (q - p) = 1 + k - r
    BY <1>4, <2>2
  <2>5. CASE r = 0
    <3>1. M * (q - p) >= 1 /\ M * (q - p) <= M
      BY <2>4, <2>5
    <3>2. q - p = 1
      BY <3>1
    <3>3. M * q = M * p + M
      BY <3>2
    <3> QED
      BY <1>3, <1>4, <2>3, <2>5, <3>3
  <2>6. CASE r # 0
    <3>1. M * (q - p) > -M /\ M * (q - p) < M
      BY <2>4, <2>6
    <3>2. q = p
      BY <3>1
    <3> QED
      BY <1>3, <1>4, <2>3, <2>6, <3>2
  <2> QED
    BY <2>5, <2>6
<1>6. AccBase(0) = 0
  BY DEF AccBase
<1> QED
  BY <1>1, <1>3, <1>4, <1>5, <1>6

-----------------------------------------------------------------------------
\* The tables of the tool, and where threads are in traces.

ExitRecord  == [from : Nat, to : Nat, stackAccs : Nat]
CachedTrace == [shape : Shapes, first : Nat, exit : UNION {[X -> Nat] : X \in SUBSET Nat}]

\* A trace in the cache has its predictors and its exits, with next predictors
\* reserved and the exits ex.
Cached(c, next, ex) ==
  /\ c.first + AccsUpTo(c.shape, LastBlock(c.shape)) <= next
  /\ \A x \in ExitsOf(c.shape) :
       c.exit[x] \in 1 .. Len(ex) /\ ex[c.exit[x]] = NewExit(c.shape, c.first, x)

Tables(next, ex, traces) ==
  /\ next \in 0 .. MAX_PREDS
  /\ ex \in Seq(ExitRecord) /\ Len(ex) <= MAX_EXITS
  /\ \A e \in 1 .. Len(ex) : ex[e].from <= ex[e].to /\ ex[e].to <= next
  /\ traces \in Seq(CachedTrace)
  /\ \A i \in 1 .. Len(traces) : Cached(traces[i], next, ex)

\* A thread is at r in trace c after n accesses.
Within(c, r, n) ==
  /\ r.block \in 1 .. LastBlock(c.shape)
  /\ n \in AccsUpTo(c.shape, r.block - 1) .. AccsUpTo(c.shape, r.block)
  /\ r.at # "block" =>
       /\ n = AccsUpTo(c.shape, r.block)
       /\ \E x \in ExitsOf(c.shape) : ExitBlock(c.shape, x) = r.block /\ r.exit = c.exit[x]

\* The accesses of s have stored their addresses by way of predReg, p.
Loaded(c, p, d, s) ==
  /\ Len(s) # 0 => p = c.first + AccBase(Len(s))
  /\ \A k \in 1 .. Len(s) : d.apreds[c.first + k - 1].currentAddr = s[k]

InTrace(r, d, traces, s, p) == r # NULL =>
  /\ r \in Runs /\ d \in ThreadData
  /\ r.trace \in 1 .. Len(traces)
  /\ Within(traces[r.trace], r, Len(s))
  /\ r.at # "count" => Loaded(traces[r.trace], p, d, s)

Following ==
  /\ Tables(nextAPred, exits, cache)
  /\ exited \in BOOLEAN
  /\ run \in [Threads -> Runs \cup {NULL}] /\ DOMAIN predReg = Threads
  /\ stored \in [Threads -> Seq(Addresses)]
  /\ \A t \in Threads : InTrace(run[t], tdata[t], cache, stored[t], predReg[t])

-----------------------------------------------------------------------------
\* An exit a trace takes.
LEMMA NewExitFacts ==
  ASSUME NEW shape \in Shapes, NEW first \in Nat, NEW x \in ExitsOf(shape)
  PROVE  /\ NewExit(shape, first, x) \in ExitRecord
         /\ NewExit(shape, first, x).from = first
         /\ NewExit(shape, first, x).to = first + AccsUpTo(shape, ExitBlock(shape, x))
         /\ NewExit(shape, first, x).to <= first + AccsUpTo(shape, LastBlock(shape))
         /\ NewExit(shape, first, x).from <= NewExit(shape, first, x).to
<1>1. PICK b \in Nat : b = ExitBlock(shape, x) /\ b \in 0 .. LastBlock(shape)
  BY ExitBlockFacts
<1>2. PICK n \in Nat : n = AccsUpTo(shape, b)
  BY <1>1, AccsFacts
<1>3. n <= AccsUpTo(shape, LastBlock(shape)) /\ AccsUpTo(shape, LastBlock(shape)) \in Nat
  BY <1>1, <1>2, AccsFacts, ShapeFacts
<1>4. PICK m \in Nat : m = StackUpTo(shape, b)
  BY <1>1, StackFacts
<1>5. NewExit(shape, first, x) = [from |-> first, to |-> first + n, stackAccs |-> m]
  BY <1>1, <1>2, <1>4 DEF NewExit
<1> QED
  BY <1>1, <1>2, <1>3, <1>5 DEF ExitRecord

\* Two sequences, one behind the other.
LEMMA ConcatFacts ==
  ASSUME NEW S, NEW s \in Seq(S), NEW r \in Seq(S)
  PROVE  /\ s \o r \in Seq(S) /\ Len(s) \in Nat /\ Len(r) \in Nat
         /\ Len(s \o r) = Len(s) + Len(r)
         /\ \A i \in 1 .. Len(s) : (s \o r)[i] = s[i]
         /\ \A i \in 1 .. Len(r) : (s \o r)[Len(s) + i] = r[i]
  OBVIOUS

\* ex2 has the exits of ex and perhaps others.
Extends(ex2, ex) == Len(ex) <= Len(ex2) /\ \A e \in 1 .. Len(ex) : ex2[e] = ex[e]

\* Traces stay cached.
LEMMA CachedStays ==
  ASSUME NEW c, NEW next \in Int, NEW next2 \in Int, next <= next2,
         NEW ex, NEW ex2, Len(ex) \in Nat, Len(ex2) \in Nat, Extends(ex2, ex),
         c.first + AccsUpTo(c.shape, LastBlock(c.shape)) \in Int,
         Cached(c, next, ex)
  PROVE  Cached(c, next2, ex2)
BY DEF Cached, Extends

\* A cached trace.
LEMMA CachedFacts ==
  ASSUME NEW c \in CachedTrace
  PROVE  /\ c.shape \in Shapes /\ c.first \in Nat
         /\ AccsUpTo(c.shape, LastBlock(c.shape)) \in Nat
<1>1. c.shape \in Shapes /\ c.first \in Nat
  BY DEF CachedTrace
<1>2. LastBlock(c.shape) \in 0 .. LastBlock(c.shape)
  BY <1>1, ShapeFacts
<1> QED
  BY <1>1, <1>2, AccsFacts

\* Trace() adds a trace to the cache, and predictors and exits for it.
LEMMA InstrumentTables ==
  ASSUME Tables(nextAPred, exits, cache), NEW shape \in Shapes, Instrument(shape)
  PROVE  /\ Tables(nextAPred, exits, cache)'
         /\ Extends(exits', exits)
         /\ Len(cache) <= Len(cache')
         /\ \A i \in 1 .. Len(cache) : cache'[i] = cache[i]
<1>1. PICK order \in Seq(Nat) : order = ExitOrder(shape) /\ Lists(order, ExitsOf(shape))
  BY ExitOrderFacts DEF Lists
<1>2. PICK acc \in Nat : acc = AccsUpTo(shape, LastBlock(shape))
  BY AccsFacts, ShapeFacts
<1>3. PICK n \in Nat : n = nextAPred
  BY DEF Tables
<1>4. PICK ex \in Seq(ExitRecord) : ex = exits
  BY DEF Tables
<1>5. PICK new : new = [i \in DOMAIN order |-> NewExit(shape, n, order[i])]
  OBVIOUS
<1>6. DOMAIN order = 1 .. Len(order) /\ Len(order) \in Nat
  BY <1>1
<1>7. /\ new \in Seq(ExitRecord) /\ Len(new) = Len(order)
      /\ \A i \in 1 .. Len(new) :
           /\ order[i] \in ExitsOf(shape)
           /\ new[i] = NewExit(shape, n, order[i])
           /\ new[i].from <= new[i].to /\ new[i].to <= n + acc
  <2>1. ASSUME NEW i \in 1 .. Len(order)
        PROVE  /\ order[i] \in ExitsOf(shape)
               /\ new[i] = NewExit(shape, n, order[i])
               /\ new[i] \in ExitRecord
               /\ new[i].from <= new[i].to /\ new[i].to <= n + acc
    <3>1. order[i] \in ExitsOf(shape)
      BY <1>1 DEF Lists
    <3>2. new[i] = NewExit(shape, n, order[i])
      BY <1>5, <1>6
    <3>3. PICK x \in ExitsOf(shape) : x = order[i]
      BY <3>1
    <3>4. /\ NewExit(shape, n, x) \in ExitRecord
          /\ NewExit(shape, n, x).to <= n + AccsUpTo(shape, LastBlock(shape))
          /\ NewExit(shape, n, x).from <= NewExit(shape, n, x).to
      BY NewExitFacts
    <3> QED
      BY <1>2, <3>1, <3>2, <3>3, <3>4
  <2>2. new \in [1 .. Len(order) -> ExitRecord]
    BY <1>5, <1>6, <2>1
  <2>3. new \in Seq(ExitRecord) /\ Len(new) = Len(order)
    BY <1>6, <2>2
  <2> QED
    BY <2>1, <2>3
<1>8. PICK ex2 \in Seq(ExitRecord) :
        /\ ex2 = ex \o new /\ Len(ex) \in Nat /\ Len(new) \in Nat
        /\ Len(ex2) = Len(ex) + Len(new)
        /\ \A i \in 1 .. Len(ex) : ex2[i] = ex[i]
        /\ \A i \in 1 .. Len(new) : ex2[Len(ex) + i] = new[i]
  <2>1. new \in Seq(ExitRecord)
    BY <1>7
  <2>2. /\ ex \o new \in Seq(ExitRecord) /\ Len(ex) \in Nat /\ Len(new) \in Nat
        /\ Len(ex \o new) = Len(ex) + Len(new)
    BY <2>1, ConcatFacts
  <2>3. \A i \in 1 .. Len(ex) : (ex \o new)[i] = ex[i]
    BY <2>1, ConcatFacts
  <2>4. \A i \in 1 .. Len(new) : (ex \o new)[Len(ex) + i] = new[i]
    BY <2>1, ConcatFacts
  <2> QED
    BY <2>2, <2>3, <2>4
<1>9. exits' = ex2
  BY <1>1, <1>3, <1>4, <1>5, <1>8 DEF Instrument
<1>10. Extends(ex2, ex)
  BY <1>8 DEF Extends
<1>11. nextAPred' = n + acc /\ n + acc <= MAX_PREDS /\ Len(ex2) <= MAX_EXITS
  BY <1>1, <1>2, <1>3, <1>4, <1>7, <1>8 DEF Instrument, Fits
<1>12. \A e \in 1 .. Len(ex2) : ex2[e].from <= ex2[e].to /\ ex2[e].to <= n + acc
  <2>1. SUFFICES ASSUME NEW e \in 1 .. Len(ex2)
                 PROVE  ex2[e].from <= ex2[e].to /\ ex2[e].to <= n + acc
    OBVIOUS
  <2>2. CASE e \in 1 .. Len(ex)
    <3>1. ex2[e] = ex[e] /\ ex[e].from <= ex[e].to /\ ex[e].to <= n
      BY <1>3, <1>4, <1>8, <2>2 DEF Tables
    <3>2. ex[e] \in ExitRecord
      BY <2>2
    <3>3. ex[e].to \in Nat
      BY <3>2 DEF ExitRecord
    <3> QED
      BY <3>1, <3>3
  <2>3. CASE e \notin 1 .. Len(ex)
    <3>1. e - Len(ex) \in 1 .. Len(new) /\ Len(ex) + (e - Len(ex)) = e
      BY <1>8, <2>3
    <3>2. ex2[e] = new[e - Len(ex)]
      BY <1>8, <3>1
    <3> QED
      BY <1>7, <3>1, <3>2
  <2> QED
    BY <2>2, <2>3
<1>13. PICK at : at = [x \in ExitsOf(shape) |->
                         Len(ex) + (CHOOSE i \in DOMAIN order : order[i] = x)]
  OBVIOUS
<1>14. ASSUME NEW x \in ExitsOf(shape)
       PROVE  /\ at[x] \in 1 .. Len(ex2) /\ at[x] \in Nat
              /\ ex2[at[x]] = NewExit(shape, n, x)
  <2>1. \E i \in DOMAIN order : order[i] = x
    BY <1>1, <1>6 DEF Lists
  <2>2. PICK i : i = CHOOSE j \in DOMAIN order : order[j] = x
    OBVIOUS
  <2>3. i \in 1 .. Len(order) /\ order[i] = x
    BY <1>6, <2>1, <2>2
  <2>4. at[x] = Len(ex) + i
    BY <1>13, <2>2
  <2>5. ex2[Len(ex) + i] = new[i] /\ new[i] = NewExit(shape, n, x)
    BY <1>7, <1>8, <2>3
  <2> QED
    BY <1>7, <1>8, <2>3, <2>4, <2>5
<1>15. PICK c : c = [shape |-> shape, first |-> n, exit |-> at]
  OBVIOUS
<1>16. c.shape = shape /\ c.first = n /\ c.exit = at
  BY <1>15
<1>17. c \in CachedTrace
  <2>1. ExitsOf(shape) \in SUBSET Nat
    BY ExitBlockFacts
  <2>2. at \in [ExitsOf(shape) -> Nat]
    BY <1>13, <1>14
  <2> QED
    BY <1>15, <2>1, <2>2 DEF CachedTrace
<1>18. Cached(c, n + acc, ex2)
  BY <1>2, <1>14, <1>16 DEF Cached
<1>19. PICK traces \in Seq(CachedTrace) : traces = cache
  BY DEF Tables
<1>20. cache' = Append(traces, c)
  BY <1>1, <1>3, <1>4, <1>13, <1>15, <1>19 DEF Instrument
<1>21. PICK traces2 \in Seq(CachedTrace) :
         /\ traces2 = Append(traces, c) /\ Len(traces) \in Nat
         /\ Len(traces2) = Len(traces) + 1
         /\ traces2[Len(traces) + 1] = c
         /\ \A i \in 1 .. Len(traces) : traces2[i] = traces[i]
  <2>1. /\ Append(traces, c) \in Seq(CachedTrace) /\ Len(traces) \in Nat
        /\ Len(Append(traces, c)) = Len(traces) + 1
    BY <1>17, AppendFacts
  <2>2. Append(traces, c)[Len(traces) + 1] = c
    BY <1>17, AppendFacts
  <2>3. \A i \in 1 .. Len(traces) : Append(traces, c)[i] = traces[i]
    BY <1>17, AppendFacts
  <2> QED
    BY <2>1, <2>2, <2>3
<1>22. \A i \in 1 .. Len(traces2) : Cached(traces2[i], n + acc, ex2)
  <2>1. SUFFICES ASSUME NEW i \in 1 .. Len(traces2)
                 PROVE  Cached(traces2[i], n + acc, ex2)
    OBVIOUS
  <2>2. CASE i = Len(traces) + 1
    BY <1>18, <1>21, <2>2
  <2>3. CASE i # Len(traces) + 1
    <3>1. i \in 1 .. Len(traces)
      BY <1>21, <2>3
    <3>2. Cached(traces[i], n, ex)
      BY <1>3, <1>4, <1>19, <3>1 DEF Tables
    <3>3. PICK d \in CachedTrace : d = traces[i]
      BY <3>1
    <3>4. d.first + AccsUpTo(d.shape, LastBlock(d.shape)) \in Int
      BY CachedFacts
    <3>5. n + acc \in Int /\ n <= n + acc /\ n \in Int /\ Len(ex2) \in Nat
      OBVIOUS
    <3>6. Cached(d, n + acc, ex2)
      BY <1>8, <1>10, <3>2, <3>3, <3>4, <3>5, CachedStays
    <3> QED
      BY <1>21, <3>1, <3>3, <3>6
  <2> QED
    BY <2>2, <2>3
<1>23. Tables(n + acc, ex2, traces2)
  <2>1. n + acc \in 0 .. MAX_PREDS
    BY <1>11, TracesAssumption
  <2> QED
    BY <1>11, <1>12, <1>22, <2>1 DEF Tables
<1>24. cache' = traces2
  BY <1>20, <1>21
<1>25. Tables(nextAPred, exits, cache)' = Tables(nextAPred', exits', cache')
  BY DEF Tables, Cached, AccsUpTo, SumTo
<1> QED
  BY <1>4, <1>9, <1>10, <1>11, <1>19, <1>21, <1>23, <1>24

-----------------------------------------------------------------------------
\* Steps of threads in traces.

\* Where a thread is does not depend on traces that are cached later.
LEMMA InTraceStays ==
  ASSUME NEW r, NEW d, NEW s, NEW p, NEW traces, NEW traces2,
         Len(traces) \in Nat, Len(traces2) \in Nat, Len(traces) <= Len(traces2),
         \A i \in 1 .. Len(traces) : traces2[i] = traces[i],
         InTrace(r, d, traces, s, p)
  PROVE  InTrace(r, d, traces2, s, p)
BY DEF InTrace

\* The tables depend on nothing a thread changes, and the place of a thread
\* on nothing another one changes.
LEMMA PrimedTables ==
  /\ Tables(nextAPred, exits, cache)' = Tables(nextAPred', exits', cache')
  /\ \A t \in Threads : InTrace(run[t], tdata[t], cache, stored[t], predReg[t])'
                          = InTrace(run'[t], tdata'[t], cache', stored'[t], predReg'[t])
BY DEF Tables, Cached, InTrace, Within, Loaded, ExitsOf, LastBlock, AccsUpTo, SumTo, NewExit,
       ExitBlock, StackUpTo, AccBase

\* At the start.
LEMMA InitFollowing == Init => Following
<1> SUFFICES ASSUME Init PROVE Following
  OBVIOUS
<1>1. Tables(0, << >>, << >>)
  <2>1. << >> \in Seq(ExitRecord) /\ << >> \in Seq(CachedTrace) /\ Len(<< >>) = 0
    OBVIOUS
  <2> QED
    BY <2>1, TracesAssumption DEF Tables
<1>2. \A t \in Threads : InTrace(run[t], tdata[t], cache, stored[t], predReg[t])
  BY DEF Init, InTrace
<1>3. nextAPred = 0 /\ exits = << >> /\ cache = << >> /\ exited = FALSE
  BY DEF Init
<1>4. run \in [Threads -> Runs \cup {NULL}] /\ DOMAIN predReg = Threads
  BY DEF Init
<1>5. stored \in [Threads -> Seq(Addresses)]
  BY DEF Init
<1> QED
  BY <1>1, <1>2, <1>3, <1>4, <1>5 DEF Following

\* A step of thread t, within the tables there are.
StepOf(t) ==
  /\ UNCHANGED <<nextAPred, exits, cache, exited>>
  /\ run' \in [Threads -> Runs \cup {NULL}] /\ DOMAIN predReg' = Threads
  /\ stored' \in [Threads -> Seq(Addresses)]
  /\ \A u \in Threads \ {t} :
       /\ run'[u] = run[u] /\ tdata'[u] = tdata[u]
       /\ stored'[u] = stored[u] /\ predReg'[u] = predReg[u]

\* The step concerns the place of t only.
LEMMA ThreadSteps ==
  ASSUME Following, NEW t \in Threads, StepOf(t),
         InTrace(run'[t], tdata'[t], cache, stored'[t], predReg'[t])
  PROVE  Following'
<1>1. Tables(nextAPred, exits, cache)'
  BY PrimedTables DEF Following, StepOf
<1>2. ASSUME NEW u \in Threads
      PROVE  InTrace(run'[u], tdata'[u], cache', stored'[u], predReg'[u])
  <2>1. cache' = cache
    BY DEF StepOf
  <2>2. CASE u = t
    BY <2>1, <2>2
  <2>3. CASE u # t
    <3>1. InTrace(run[u], tdata[u], cache, stored[u], predReg[u])
      BY DEF Following
    <3> QED
      BY <2>1, <2>3, <3>1 DEF StepOf
  <2> QED
    BY <2>2, <2>3
<1> QED
  BY <1>1, <1>2, PrimedTables DEF Following, StepOf

\* The trace a thread is in.
LEMMA InTraceFacts ==
  ASSUME Following, NEW t \in Threads, run[t] # NULL
  PROVE  /\ Trace(t) \in CachedTrace
         /\ Cached(Trace(t), nextAPred, exits)
         /\ run[t] \in Runs /\ tdata[t] \in ThreadData
         /\ stored[t] \in Seq(Addresses) /\ Done(t) \in Nat
         /\ Within(Trace(t), run[t], Done(t))
         /\ run[t].at # "count" => Loaded(Trace(t), predReg[t], tdata[t], stored[t])
<1>1. PICK traces \in Seq(CachedTrace) : traces = cache
  BY DEF Following, Tables
<1>2. InTrace(run[t], tdata[t], traces, stored[t], predReg[t])
  BY <1>1 DEF Following
<1>3. run[t].trace \in 1 .. Len(traces)
  BY <1>2 DEF InTrace
<1>4. traces[run[t].trace] \in CachedTrace
  BY <1>3
<1>5. Cached(traces[run[t].trace], nextAPred, exits)
  BY <1>1, <1>3 DEF Following, Tables
<1>6. PICK s \in Seq(Addresses) : s = stored[t]
  BY DEF Following
<1> QED
  BY <1>1, <1>2, <1>4, <1>5, <1>6 DEF InTrace, Trace, Done

\* A thread stays where another value has the same trace, block and accesses.
LEMMA InTraceAt ==
  ASSUME Following, NEW t \in Threads, run[t] # NULL,
         NEW r \in Runs, r.trace = run[t].trace, NEW d \in ThreadData, NEW s, NEW p,
         Within(Trace(t), r, Len(s)),
         r.at # "count" => Loaded(Trace(t), p, d, s)
  PROVE  InTrace(r, d, cache, s, p)
<1>1. r.trace \in 1 .. Len(cache)
  BY DEF Following, InTrace
<1> QED
  BY <1>1 DEF InTrace, Trace

-----------------------------------------------------------------------------
\* d2 is d with address a stored in predictor j.
Stores(d2, d, j, a) ==
  /\ d2 \in ThreadData
  /\ d2.apreds[j].currentAddr = a
  /\ \A i \in Preds : i # j => d2.apreds[i] = d.apreds[i]
  /\ \A i \in Preds : d2.apreds[i].missCount = d.apreds[i].missCount
  /\ d2.exit_counter = d.exit_counter

\* An address is stored where the predictor of its access is.
LEMMA StoredAt ==
  ASSUME NEW d \in ThreadData, NEW j \in Preds, NEW a \in Addresses
  PROVE  Stores([d EXCEPT !.apreds[j].currentAddr = a], d, j, a)
<1>0. PICK d2 : d2 = [d EXCEPT !.apreds[j].currentAddr = a]
  OBVIOUS
<1>1. d2 \in ThreadData
  BY <1>0, StoredTyped
<1>2. PICK f \in [Preds -> AddrPredict] : f = d.apreds
  BY DEF ThreadData
<1>3. PICK q : q = [f[j] EXCEPT !.currentAddr = a]
  OBVIOUS
<1>4. d2.apreds = [f EXCEPT ![j] = q] /\ d2.exit_counter = d.exit_counter
  BY <1>0, <1>2, <1>3 DEF ThreadData
<1>5. f[j] \in AddrPredict
  BY <1>2
<1>6. q.currentAddr = a /\ q.missCount = f[j].missCount
  BY <1>3, <1>5 DEF AddrPredict
<1> QED
  BY <1>0, <1>1, <1>2, <1>4, <1>6 DEF Stores

\* Access() stores the next address in the next predictor of the trace.
LEMMA AccessEffect ==
  ASSUME Following, Typed, NEW t \in Threads, NEW a \in Addresses, Access(t, a)
  PROVE  LET j  == Trace(t).first + Done(t)
             d2 == [tdata[t] EXCEPT !.apreds[j].currentAddr = a]
         IN  /\ run[t] # NULL /\ j \in Preds
             /\ tdata' = [tdata EXCEPT ![t] = d2]
             /\ Done(t) < AccsUpTo(Trace(t).shape, run[t].block)
             /\ Done(t) + 1 \in AccsUpTo(Trace(t).shape, run[t].block - 1) ..
                                  AccsUpTo(Trace(t).shape, run[t].block)
             /\ PredReg(t) = Trace(t).first + AccBase(Done(t) + 1)
<1>1. run[t] # NULL /\ run[t].at = "block" /\ Done(t) # AccsUpTo(Trace(t).shape, run[t].block)
  BY DEF Access, InBlock, AtEnd
<1>2. PICK c \in CachedTrace : c = Trace(t)
  BY <1>1, InTraceFacts
<1>3. /\ Cached(c, nextAPred, exits)
      /\ Within(c, run[t], Done(t))
      /\ Loaded(c, predReg[t], tdata[t], stored[t])
  BY <1>1, <1>2, InTraceFacts
<1>4. PICK n \in Nat : n = Done(t)
  BY <1>1, InTraceFacts
<1>5. c.shape \in Shapes /\ c.first \in Nat
  BY CachedFacts
<1>6. PICK b : b = run[t].block /\ b \in 1 .. LastBlock(c.shape)
  BY <1>3 DEF Within
<1>7. /\ LastBlock(c.shape) \in Nat /\ b \in 0 .. LastBlock(c.shape)
      /\ b - 1 \in 0 .. LastBlock(c.shape)
  BY <1>5, <1>6, ShapeFacts
<1>8. /\ AccsUpTo(c.shape, b) \in Nat
      /\ AccsUpTo(c.shape, b) <= AccsUpTo(c.shape, LastBlock(c.shape))
      /\ AccsUpTo(c.shape, b - 1) \in Nat
  BY <1>5, <1>7, AccsFacts
<1>9. /\ n < AccsUpTo(c.shape, b)
      /\ n + 1 \in AccsUpTo(c.shape, b - 1) .. AccsUpTo(c.shape, b)
  <2>1. n \in AccsUpTo(c.shape, b - 1) .. AccsUpTo(c.shape, b)
    BY <1>3, <1>4, <1>6 DEF Within
  <2>2. n # AccsUpTo(c.shape, b)
    BY <1>1, <1>2, <1>4, <1>6
  <2> QED
    BY <1>8, <2>1, <2>2
<1>10. c.first + n \in Preds
  <2>1. c.first + AccsUpTo(c.shape, LastBlock(c.shape)) <= nextAPred
    BY <1>3 DEF Cached
  <2>2. nextAPred \in Nat /\ nextAPred <= MAX_PREDS /\ MAX_PREDS \in Nat
    BY TracesAssumption DEF Following, Tables
  <2>3. AccsUpTo(c.shape, LastBlock(c.shape)) \in Nat
    BY CachedFacts
  <2> QED
    BY <1>5, <1>8, <1>9, <2>1, <2>2, <2>3 DEF Preds
<1>11. PICK M \in Nat : M = MAX_ADDROFFSET
  BY TracesAssumption
<1>12. /\ AccBase(n) \in Nat
       /\ n # 0 => AccBase(n + 1) = IF n % M = 0 THEN AccBase(n) + M ELSE AccBase(n)
  BY <1>11, AccBaseFacts
<1>13. AccBase(n + 1) + (n % M) = n /\ AccBase(n + 1) \in Nat
  <2>1. n + 1 \in Nat
    OBVIOUS
  <2> QED
    BY <1>11, <2>1, AccBaseFacts
<1>14. PredReg(t) = c.first + AccBase(n + 1)
  <2>1. CASE n = 0
    <3>1. 0 % M = 0
      BY <1>11, TracesAssumption
    <3>2. AccBase(n + 1) = 0
      BY <1>13, <2>1, <3>1
    <3> QED
      BY <1>2, <1>4, <1>5, <2>1, <3>2 DEF PredReg
  <2>2. CASE n # 0
    <3>1. predReg[t] = c.first + AccBase(n)
      BY <1>3, <1>4, <2>2 DEF Loaded, Done
    <3>2. PICK z \in Nat : z = AccBase(n)
      BY <1>12
    <3>3. CASE n % M = 0
      <4>1. PredReg(t) = predReg[t] + M
        BY <1>4, <1>11, <2>2, <3>3 DEF PredReg
      <4>2. AccBase(n + 1) = z + M
        BY <1>12, <2>2, <3>2, <3>3
      <4> QED
        BY <1>5, <3>1, <3>2, <4>1, <4>2
    <3>4. CASE n % M # 0
      <4>1. PredReg(t) = predReg[t]
        BY <1>4, <1>11, <2>2, <3>4 DEF PredReg
      <4>2. AccBase(n + 1) = z
        BY <1>12, <2>2, <3>2, <3>4
      <4> QED
        BY <3>1, <3>2, <4>1, <4>2
    <3> QED
      BY <3>3, <3>4
  <2> QED
    BY <2>1, <2>2
<1>15. PredReg(t) + (n % M) = c.first + n
  <2>1. n % M \in Nat
    BY <1>11, TracesAssumption
  <2>2. PICK x \in Nat, y \in Nat, z \in Nat : x = AccBase(n + 1) /\ y = n % M /\ z = c.first
    BY <1>5, <1>13, <2>1
  <2> QED
    BY <1>13, <1>14, <2>2
<1>16. tdata' = [tdata EXCEPT ![t].apreds[c.first + n].currentAddr = a]
  BY <1>4, <1>11, <1>15 DEF Access
<1> QED
  BY <1>1, <1>2, <1>4, <1>6, <1>9, <1>10, <1>14, <1>16

\* Trace() moves no thread.
LEMMA InstrumentFollowing ==
  ASSUME Following, NEW shape \in Shapes, Instrument(shape)
  PROVE  Following'
<1>1. /\ Tables(nextAPred, exits, cache)'
      /\ Len(cache) <= Len(cache')
      /\ \A i \in 1 .. Len(cache) : cache'[i] = cache[i]
  BY InstrumentTables DEF Following
<1>2. Len(cache) \in Nat /\ Len(cache') \in Nat
  <2>1. PICK traces \in Seq(CachedTrace) : traces = cache
    BY DEF Following, Tables
  <2>2. PICK traces2 \in Seq(CachedTrace) : traces2 = cache'
    BY <1>1, PrimedTables DEF Tables
  <2> QED
    BY <2>1, <2>2
<1>3. UNCHANGED <<exited, tdata, predReg, run, stored>>
  BY DEF Instrument
<1>4. ASSUME NEW t \in Threads
      PROVE  InTrace(run'[t], tdata'[t], cache', stored'[t], predReg'[t])
  <2>1. InTrace(run[t], tdata[t], cache, stored[t], predReg[t])
    BY DEF Following
  <2>2. InTrace(run[t], tdata[t], cache', stored[t], predReg[t])
    BY <1>1, <1>2, <2>1, InTraceStays
  <2> QED
    BY <1>3, <2>2
<1> QED
  BY <1>1, <1>3, <1>4, PrimedTables DEF Following

\* A thread enters a trace.
LEMMA EnterFollowing ==
  ASSUME Following, Typed, NEW t \in Threads, NEW i \in DOMAIN cache, Enter(t, i)
  PROVE  StepOf(t) /\ Following'
<1> DEFINE r == [trace |-> i, block |-> 1, at |-> "block"]
<1>1. PICK traces \in Seq(CachedTrace) : traces = cache
  BY DEF Following, Tables
<1>2. i \in 1 .. Len(traces) /\ i \in Nat
  BY <1>1
<1>3. PICK c \in CachedTrace : c = traces[i]
  BY <1>2
<1>4. /\ 1 \in 1 .. LastBlock(c.shape) /\ 0 \in 0 .. LastBlock(c.shape)
      /\ 1 \in 0 .. LastBlock(c.shape)
  BY CachedFacts, ShapeFacts
<1>5. AccsUpTo(c.shape, 0) = 0 /\ AccsUpTo(c.shape, 1) \in Nat
  BY <1>4, CachedFacts, AccsFacts
<1>6. r.block = 1 /\ r.at = "block" /\ r.trace = i /\ r \in Runs
  BY <1>2 DEF Runs
<1>7. Len(<< >>) = 0 /\ << >> \in Seq(Addresses)
  OBVIOUS
<1>8. run' = [run EXCEPT ![t] = r] /\ stored' = [stored EXCEPT ![t] = << >>]
  BY DEF Enter
<1> HIDE DEF r
<1>9. Within(c, r, 0)
  BY <1>4, <1>5, <1>6 DEF Within
<1>10. tdata[t] \in ThreadData
  BY DEF Enter, Typed
<1>11. InTrace(r, tdata[t], cache, << >>, predReg[t])
  <2>1. Loaded(c, predReg[t], tdata[t], << >>)
    BY <1>7 DEF Loaded
  <2> QED
    BY <1>1, <1>2, <1>3, <1>6, <1>7, <1>9, <1>10, <2>1 DEF InTrace
<1>12. UNCHANGED <<nextAPred, exits, cache, exited, tdata, predReg>>
  BY DEF Enter, tables
<1>13. StepOf(t) /\ run'[t] = r /\ stored'[t] = << >>
  BY <1>6, <1>7, <1>8, <1>12 DEF StepOf, Following
<1> QED
  BY <1>11, <1>12, <1>13, ThreadSteps

\* An access of a thread.
LEMMA AccessFollowing ==
  ASSUME Following, Typed, NEW t \in Threads, NEW a \in Addresses, Access(t, a)
  PROVE  StepOf(t) /\ Following'
<1>1. PICK j : j = Trace(t).first + Done(t)
  OBVIOUS
<1>2. PICK d2 : d2 = [tdata[t] EXCEPT !.apreds[j].currentAddr = a]
  OBVIOUS
<1>3. /\ run[t] # NULL /\ j \in Preds
      /\ tdata' = [tdata EXCEPT ![t] = d2]
      /\ Done(t) + 1 \in AccsUpTo(Trace(t).shape, run[t].block - 1) ..
                           AccsUpTo(Trace(t).shape, run[t].block)
      /\ PredReg(t) = Trace(t).first + AccBase(Done(t) + 1)
  BY <1>1, <1>2, AccessEffect
<1>4. run[t].at = "block"
  BY DEF Access, InBlock
<1>5. PICK c \in CachedTrace : c = Trace(t)
  BY <1>3, InTraceFacts
<1>6. /\ run[t] \in Runs /\ Within(c, run[t], Done(t))
      /\ Loaded(c, predReg[t], tdata[t], stored[t])
  BY <1>3, <1>4, <1>5, InTraceFacts
<1>7. PICK s \in Seq(Addresses) : s = stored[t] /\ Len(s) = Done(t)
  BY DEF Following, Done
<1>8. PICK s2 \in Seq(Addresses) :
        /\ s2 = Append(s, a) /\ Len(s) \in Nat /\ Len(s2) = Len(s) + 1
        /\ s2[Len(s) + 1] = a
        /\ \A i \in 1 .. Len(s) : s2[i] = s[i]
  <2>1. /\ Append(s, a) \in Seq(Addresses) /\ Len(s) \in Nat
        /\ Len(Append(s, a)) = Len(s) + 1
    BY AppendFacts
  <2>2. Append(s, a)[Len(s) + 1] = a
    BY AppendFacts
  <2>3. \A i \in 1 .. Len(s) : Append(s, a)[i] = s[i]
    BY AppendFacts
  <2> QED
    BY <2>1, <2>2, <2>3
<1>9. c.first \in Nat
  BY CachedFacts
<1>10. tdata[t] \in ThreadData
  BY <1>3, InTraceFacts
<1>11. /\ d2 \in ThreadData
       /\ d2.apreds[j].currentAddr = a
       /\ \A i \in Preds : i # j => d2.apreds[i] = tdata[t].apreds[i]
  <2>1. Stores(d2, tdata[t], j, a)
    BY <1>2, <1>3, <1>10, StoredAt
  <2> QED
    BY <2>1 DEF Stores
<1>12. Within(c, run[t], Len(s2))
  BY <1>3, <1>4, <1>5, <1>6, <1>7, <1>8 DEF Within
<1>13. Loaded(c, PredReg(t), d2, s2)
  <2>1. PredReg(t) = c.first + AccBase(Len(s2))
    BY <1>3, <1>5, <1>7, <1>8
  <2>2. ASSUME NEW k \in 1 .. Len(s2)
        PROVE  d2.apreds[c.first + k - 1].currentAddr = s2[k]
    <3>1. CASE k = Len(s) + 1
      <4>1. c.first + k - 1 = j
        BY <1>1, <1>5, <1>7, <1>8, <1>9, <3>1
      <4> QED
        BY <1>8, <1>11, <3>1, <4>1
    <3>2. CASE k # Len(s) + 1
      <4>1. k \in 1 .. Len(s)
        BY <1>8, <3>2
      <4>2. c.first + k - 1 \in Preds /\ c.first + k - 1 # j
        <5>1. PICK n \in Nat, l \in Nat : n = Len(s) /\ l = k /\ l \in 1 .. n
          BY <1>8, <4>1
        <5>2. PICK f \in Nat : f = c.first
          BY <1>9
        <5>3. j = f + n /\ j \in 0 .. MAX_PREDS - 1 /\ MAX_PREDS \in Nat
          BY <1>1, <1>3, <1>5, <1>7, <5>1, <5>2, TracesAssumption DEF Preds
        <5>4. f + l - 1 \in 0 .. MAX_PREDS - 1 /\ f + l - 1 # j
          BY <5>1, <5>2, <5>3
        <5> QED
          BY <5>1, <5>2, <5>4 DEF Preds
      <4>3. tdata[t].apreds[c.first + k - 1].currentAddr = s[k]
        BY <1>6, <1>7, <4>1 DEF Loaded
      <4> QED
        BY <1>8, <1>11, <4>1, <4>2, <4>3
    <3> QED
      BY <3>1, <3>2
  <2> QED
    BY <2>1, <2>2 DEF Loaded
<1>14. InTrace(run[t], d2, cache, s2, PredReg(t))
  BY <1>3, <1>5, <1>6, <1>11, <1>12, <1>13, InTraceAt
<1>15. UNCHANGED <<nextAPred, exits, cache, exited, run>>
  BY DEF Access, tables
<1>16. predReg' = [predReg EXCEPT ![t] = PredReg(t)] /\ stored' = [stored EXCEPT ![t] = s2]
  BY <1>7, <1>8 DEF Access
<1>17. StepOf(t) /\ predReg'[t] = PredReg(t) /\ stored'[t] = s2 /\ tdata'[t] = d2
  BY <1>3, <1>15, <1>16 DEF StepOf, Following, Typed
<1> QED
  BY <1>14, <1>15, <1>17, ThreadSteps

\* A thread goes on to the next block.
LEMMA NextBlockFollowing ==
  ASSUME Following, Typed, NEW t \in Threads, NextBlock(t)
  PROVE  StepOf(t) /\ Following'
<1>1. /\ run[t] # NULL /\ run[t].at = "block"
      /\ Done(t) = AccsUpTo(Trace(t).shape, run[t].block)
      /\ run[t].block < LastBlock(Trace(t).shape)
  BY DEF NextBlock, AtEnd, InBlock
<1>2. PICK c \in CachedTrace : c = Trace(t)
  BY <1>1, InTraceFacts
<1>3. /\ run[t] \in Runs /\ tdata[t] \in ThreadData /\ Within(c, run[t], Done(t))
      /\ Loaded(c, predReg[t], tdata[t], stored[t])
  BY <1>1, <1>2, InTraceFacts
<1>4. PICK b \in Nat : b = run[t].block /\ b \in 1 .. LastBlock(c.shape)
  BY <1>3, CachedFacts, ShapeFacts DEF Within
<1>5. PICK r : r = [run[t] EXCEPT !.block = @ + 1]
  OBVIOUS
<1>6. r \in Runs /\ r.block = b + 1 /\ r.at = "block" /\ r.trace = run[t].trace
  BY <1>1, <1>3, <1>4, <1>5 DEF Runs
<1>7. c.shape \in Shapes
  BY CachedFacts
<1>8. b + 1 \in 1 .. LastBlock(c.shape) /\ (b + 1) - 1 = b /\ b \in 0 .. LastBlock(c.shape)
      /\ b + 1 \in 0 .. LastBlock(c.shape)
  BY <1>1, <1>2, <1>4, <1>7, ShapeFacts
<1>9. /\ AccsUpTo(c.shape, b) <= AccsUpTo(c.shape, b + 1)
      /\ AccsUpTo(c.shape, b) \in Nat /\ AccsUpTo(c.shape, b + 1) \in Nat
  <2>1. AccsUpTo(c.shape, (b + 1) - 1) <= AccsUpTo(c.shape, b + 1)
    BY <1>7, <1>8, AccsFacts
  <2>2. AccsUpTo(c.shape, b) \in Nat /\ AccsUpTo(c.shape, b + 1) \in Nat
    BY <1>7, <1>8, AccsFacts
  <2> QED
    BY <1>8, <2>1, <2>2
<1>10. Within(c, r, Done(t))
  BY <1>1, <1>2, <1>4, <1>6, <1>8, <1>9 DEF Within
<1>11. InTrace(r, tdata[t], cache, stored[t], predReg[t])
  BY <1>1, <1>2, <1>3, <1>6, <1>10, InTraceAt DEF Done
<1>12. run' = [run EXCEPT ![t] = r]
  BY <1>5 DEF NextBlock, Following
<1>13. UNCHANGED <<nextAPred, exits, cache, exited, tdata, predReg, stored>>
  BY DEF NextBlock, tables
<1>14. StepOf(t) /\ run'[t] = r
  BY <1>6, <1>12, <1>13 DEF StepOf, Following
<1> QED
  BY <1>11, <1>13, <1>14, ThreadSteps

\* A thread leaves the trace.
LEMMA TakeExitFollowing ==
  ASSUME Following, Typed, NEW t \in Threads, TakeExit(t)
  PROVE  StepOf(t) /\ Following'
<1>1. /\ run[t] # NULL /\ run[t].at = "block"
      /\ Done(t) = AccsUpTo(Trace(t).shape, run[t].block)
  BY DEF TakeExit, AtEnd, InBlock
<1>2. PICK c \in CachedTrace : c = Trace(t)
  BY <1>1, InTraceFacts
<1>3. /\ run[t] \in Runs /\ tdata[t] \in ThreadData /\ Within(c, run[t], Done(t))
      /\ Loaded(c, predReg[t], tdata[t], stored[t])
  BY <1>1, <1>2, InTraceFacts
<1>4. PICK x \in ExitsOf(c.shape) :
        /\ ExitBlock(c.shape, x) = run[t].block
        /\ run' = [run EXCEPT ![t] = [trace |-> @.trace, block |-> @.block, at |-> "check",
                                      exit |-> c.exit[x]]]
  BY <1>2 DEF TakeExit
<1>5. PICK r : r = [trace |-> run[t].trace, block |-> run[t].block, at |-> "check",
                    exit |-> c.exit[x]]
  OBVIOUS
<1>6. run' = [run EXCEPT ![t] = r]
  BY <1>4, <1>5 DEF Following
<1>7. c.exit[x] \in Nat
  <2>1. c.exit[x] \in 1 .. Len(exits)
    BY <1>1, <1>2, InTraceFacts DEF Cached
  <2>2. PICK ex \in Seq(ExitRecord) : ex = exits
    BY DEF Following, Tables
  <2>3. Len(ex) \in Nat
    OBVIOUS
  <2> QED
    BY <2>1, <2>2, <2>3
<1>8. /\ r \in Runs /\ r.block = run[t].block /\ r.at = "check" /\ r.trace = run[t].trace
      /\ r.exit = c.exit[x]
  BY <1>1, <1>3, <1>5, <1>7 DEF Runs
<1>9. Within(c, r, Done(t))
  BY <1>1, <1>2, <1>3, <1>4, <1>8 DEF Within
<1>10. InTrace(r, tdata[t], cache, stored[t], predReg[t])
  BY <1>1, <1>2, <1>3, <1>8, <1>9, InTraceAt DEF Done
<1>11. UNCHANGED <<nextAPred, exits, cache, exited, tdata, predReg, stored>>
  BY DEF TakeExit, tables
<1>12. StepOf(t) /\ run'[t] = r
  BY <1>6, <1>8, <1>11 DEF StepOf, Following
<1> QED
  BY <1>10, <1>11, <1>12, ThreadSteps

\* The exit a thread has taken is the one of its trace behind the accesses done.
LEMMA ExitFacts ==
  ASSUME Following, NEW t \in Threads, run[t] # NULL, run[t].at # "block"
  PROVE  /\ run[t].exit \in 1 .. Len(exits)
         /\ Exit(t).from = Trace(t).first
         /\ Exit(t).to = Trace(t).first + Done(t)
         /\ Count(t) = Done(t)
<1>1. PICK c \in CachedTrace : c = Trace(t)
  BY InTraceFacts
<1>2. Cached(c, nextAPred, exits) /\ Within(c, run[t], Done(t))
  BY <1>1, InTraceFacts
<1>3. PICK n \in Nat : n = Done(t)
  BY InTraceFacts
<1>4. PICK f \in Nat : f = c.first
  BY CachedFacts
<1>5. PICK x \in ExitsOf(c.shape) :
        ExitBlock(c.shape, x) = run[t].block /\ run[t].exit = c.exit[x]
  BY <1>2 DEF Within
<1>6. run[t].exit \in 1 .. Len(exits) /\ Exit(t) = NewExit(c.shape, f, x)
  BY <1>2, <1>4, <1>5 DEF Cached, Exit
<1>7. n = AccsUpTo(c.shape, run[t].block)
  BY <1>2, <1>3 DEF Within
<1>8. c.shape \in Shapes
  BY CachedFacts
<1>9. NewExit(c.shape, f, x).from = f
  BY <1>8, NewExitFacts
<1>10. NewExit(c.shape, f, x).to = f + AccsUpTo(c.shape, ExitBlock(c.shape, x))
  BY <1>8, NewExitFacts
<1>11. Exit(t).from = f /\ Exit(t).to = f + n
  BY <1>5, <1>6, <1>7, <1>9, <1>10
<1>12. Count(t) = n
  BY <1>11 DEF Count
<1> QED
  BY <1>1, <1>3, <1>4, <1>6, <1>11, <1>12

\* At an exit, the predictors of the accesses done are checked.
LEMMA CheckedFacts ==
  ASSUME Following, NEW t \in Threads, run[t] # NULL, run[t].at = "check"
  PROVE  Checked(t) = Trace(t).first .. Trace(t).first + Done(t) - 1
<1>1. PICK c \in CachedTrace : c = Trace(t)
  BY InTraceFacts
<1>2. Loaded(c, predReg[t], tdata[t], stored[t])
  BY <1>1, InTraceFacts
<1>3. PICK n \in Nat : n = Done(t)
  BY InTraceFacts
<1>4. PICK f \in Nat : f = c.first
  BY CachedFacts
<1>5. Exit(t).from = f /\ Count(t) = n
  BY <1>1, <1>3, <1>4, ExitFacts
<1>6. PICK base \in Nat : base = AccBase(n)
  BY <1>3, AccBaseFacts
<1>7. n # 0 => predReg[t] = f + base
  BY <1>2, <1>3, <1>4, <1>6 DEF Loaded, Done
<1>8. PICK off : off = IF Inlined(t) /\ ~SetAgain(t) THEN predReg[t] ELSE Exit(t).from
  OBVIOUS
<1>9. off = f
  <2>1. CASE Inlined(t) /\ ~SetAgain(t)
    <3>1. n # 0
      BY <1>5, <2>1 DEF Inlined
    <3>2. ~(base > 0)
      BY <1>5, <1>6, <2>1 DEF SetAgain
    <3>3. base = 0
      BY <3>2
    <3> QED
      BY <1>7, <1>8, <2>1, <3>1, <3>3
  <2>2. CASE ~(Inlined(t) /\ ~SetAgain(t))
    BY <1>5, <1>8, <2>2
  <2> QED
    BY <2>1, <2>2
<1> QED
  BY <1>1, <1>3, <1>4, <1>5, <1>8, <1>9 DEF Checked

\* A thread checks its accesses.
LEMMA CheckAllFollowing ==
  ASSUME Following, Typed, NEW t \in Threads, CheckAll(t)
  PROVE  StepOf(t) /\ Following'
<1>1. run[t] # NULL /\ run[t].at = "check"
  BY DEF CheckAll
<1>2. PICK c \in CachedTrace : c = Trace(t)
  BY <1>1, InTraceFacts
<1>3. run[t] \in Runs /\ tdata[t] \in ThreadData /\ Within(c, run[t], Done(t))
  BY <1>1, <1>2, InTraceFacts
<1>4. PICK r : r = [run[t] EXCEPT !.at = "count"]
  OBVIOUS
<1>5. /\ r \in Runs /\ r.trace = run[t].trace /\ r.block = run[t].block /\ r.at = "count"
      /\ r.exit = run[t].exit
  BY <1>1, <1>3, <1>4 DEF Runs
<1>6. Within(c, r, Done(t))
  BY <1>1, <1>3, <1>5 DEF Within
<1>7. run' = [run EXCEPT ![t] = r]
  BY <1>4 DEF CheckAll
<1>8. Typed'
  BY TypedStep DEF Next
<1>9. tdata'[t] \in ThreadData
  <2>1. run'[t] = r /\ r # NULL
    BY <1>5, <1>7, PinPredictAssumption DEF Following
  <2> QED
    BY <1>8, <2>1 DEF Typed
<1>10. InTrace(r, tdata'[t], cache, stored[t], predReg'[t])
  BY <1>1, <1>2, <1>5, <1>6, <1>9, InTraceAt DEF Done
<1>11. UNCHANGED <<nextAPred, exits, cache, exited, stored>>
  BY DEF CheckAll, tables
<1>12. DOMAIN predReg' = Threads /\ \A u \in Threads \ {t} : predReg'[u] = predReg[u]
  BY DEF CheckAll, Following
<1>13. \A u \in Threads \ {t} : tdata'[u] = tdata[u]
  BY DEF CheckAll, Typed
<1>14. StepOf(t) /\ run'[t] = r
  BY <1>5, <1>7, <1>11, <1>12, <1>13 DEF StepOf, Following
<1> QED
  BY <1>10, <1>11, <1>14, ThreadSteps

\* A thread has left the trace.
LEMMA CountExitFollowing ==
  ASSUME Following, Typed, NEW t \in Threads, CountExit(t)
  PROVE  StepOf(t) /\ Following'
<1>1. run' = [run EXCEPT ![t] = NULL] /\ stored' = [stored EXCEPT ![t] = << >>]
  BY DEF CountExit
<1>2. UNCHANGED <<nextAPred, exits, cache, exited, predReg>>
  BY DEF CountExit, tables
<1>3. \A u \in Threads \ {t} : tdata'[u] = tdata[u]
  BY DEF CountExit, Typed
<1>4. << >> \in Seq(Addresses)
  OBVIOUS
<1>5. StepOf(t) /\ run'[t] = NULL
  BY <1>1, <1>2, <1>3, <1>4 DEF StepOf, Following
<1>6. InTrace(run'[t], tdata'[t], cache, stored'[t], predReg'[t])
  BY <1>5 DEF InTrace
<1> QED
  BY <1>5, <1>6, ThreadSteps

\* A thread starts.
LEMMA StartFollowing ==
  ASSUME Following, Typed, NEW t \in Threads, ThreadStart(t)
  PROVE  StepOf(t) /\ Following'
<1>1. run[t] = NULL
  BY PinPredictAssumption DEF ThreadStart, Typed
<1>2. UNCHANGED <<nextAPred, exits, cache, exited, run, predReg, stored>>
  BY DEF ThreadStart, tables
<1>3. \A u \in Threads \ {t} : tdata'[u] = tdata[u]
  BY DEF ThreadStart, Typed
<1>4. StepOf(t) /\ run'[t] = NULL
  BY <1>1, <1>2, <1>3 DEF StepOf, Following
<1>5. InTrace(run'[t], tdata'[t], cache, stored'[t], predReg'[t])
  BY <1>4 DEF InTrace
<1> QED
  BY <1>4, <1>5, ThreadSteps

\* The invariants of the tables and of the threads in their traces.
LEMMA FollowingStep == Following /\ Typed /\ [Next]_vars => Following'
<1> SUFFICES ASSUME Following, Typed, [Next]_vars PROVE Following'
  OBVIOUS
<1>1. CASE UNCHANGED vars
  <2>1. UNCHANGED <<nextAPred, exits, cache, exited, tdata, predReg, run, stored>>
    BY <1>1 DEF vars
  <2> QED
    BY <2>1, PrimedTables DEF Following
<1>2. ASSUME NEW shape \in Shapes, Instrument(shape) PROVE Following'
  BY <1>2, InstrumentFollowing
<1>3. ASSUME NEW shape \in Shapes, TooMany(shape) PROVE Following'
  <2>1. UNCHANGED <<nextAPred, exits, cache, tdata, predReg, run, stored>> /\ exited' = TRUE
    BY <1>3 DEF TooMany
  <2> QED
    BY <2>1, PrimedTables DEF Following
<1>4. ASSUME NEW t \in Threads, ThreadStart(t) PROVE Following'
  BY <1>4, StartFollowing
<1>5. ASSUME NEW t \in Threads, NEW i \in DOMAIN cache, Enter(t, i) PROVE Following'
  BY <1>5, EnterFollowing
<1>6. ASSUME NEW t \in Threads, NEW a \in Addresses, Access(t, a) PROVE Following'
  BY <1>6, AccessFollowing
<1>7. ASSUME NEW t \in Threads, NextBlock(t) PROVE Following'
  BY <1>7, NextBlockFollowing
<1>8. ASSUME NEW t \in Threads, TakeExit(t) PROVE Following'
  BY <1>8, TakeExitFollowing
<1>9. ASSUME NEW t \in Threads, CheckAll(t) PROVE Following'
  BY <1>9, CheckAllFollowing
<1>10. ASSUME NEW t \in Threads, CountExit(t) PROVE Following'
  BY <1>10, CountExitFollowing
<1> QED
  BY <1>1, <1>2, <1>3, <1>4, <1>5, <1>6, <1>7, <1>8, <1>9, <1>10 DEF Next

\* The tables, and where threads are in their traces, in every state.
THEOREM FollowingAlways == Spec => [](Typed /\ Following)
<1>1. Init => Typed
  BY DEF Init, Typed
<1>2. Init => Following
  BY InitFollowing
<1>3. Typed /\ Following /\ [Next]_vars => (Typed /\ Following)'
  BY TypedStep, FollowingStep
<1> QED
  BY <1>1, <1>2, <1>3, PTL DEF Spec

\* The arrays of predictors and exits stay within their bounds, with exits over
\* predictors in use, and the data of threads is well typed.
THEOREM TypeCorrect == Spec => []TypeOK
<1>1. Typed /\ Following => TypeOK
  <2> SUFFICES ASSUME Typed, Following PROVE TypeOK
    OBVIOUS
  <2>1. PICK ex \in Seq(ExitRecord) : ex = exits
    BY DEF Following, Tables
  <2>2. ASSUME NEW e \in 1 .. Len(ex)
        PROVE  ex[e].from \in 0 .. ex[e].to /\ ex[e].to <= nextAPred
    <3>1. ex[e] \in ExitRecord
      BY <2>2
    <3>2. ex[e].from <= ex[e].to /\ ex[e].to <= nextAPred
      BY <2>1 DEF Following, Tables
    <3> QED
      BY <3>1, <3>2 DEF ExitRecord
  <2>3. \A e \in NextExits : exits[e].from \in 0 .. exits[e].to /\ exits[e].to <= nextAPred
    BY <2>1, <2>2 DEF NextExits
  <2>4. nextAPred \in 0 .. MAX_PREDS /\ Len(exits) <= MAX_EXITS
    BY DEF Following, Tables
  <2>5. /\ exited \in BOOLEAN /\ tdata \in [Threads -> ThreadData \cup {NULL}]
        /\ run \in [Threads -> Runs \cup {NULL}]
    BY DEF Following, Typed
  <2> QED
    BY <2>3, <2>4, <2>5 DEF TypeOK
<1> QED
  BY <1>1, FollowingAlways, PTL

\* At an exit, afterExit() and afterExitN() check the predictors of the accesses
\* that were executed, and no other, with the addresses these have stored.
THEOREM ChecksOwn == Spec => []ChecksOwnAccesses
<1>1. Typed /\ Following => ChecksOwnAccesses
  <2> SUFFICES ASSUME Following, NEW t \in Threads, run[t] # NULL, run[t].at = "check"
               PROVE  /\ Checked(t) = {Trace(t).first + k : k \in 0 .. Done(t) - 1}
                      /\ \A k \in 1 .. Done(t) :
                           tdata[t].apreds[Trace(t).first + k - 1].currentAddr = stored[t][k]
    BY DEF ChecksOwnAccesses
  <2>1. PICK c \in CachedTrace : c = Trace(t)
    BY InTraceFacts
  <2>2. PICK f \in Nat, n \in Nat : f = c.first /\ n = Done(t)
    BY InTraceFacts, CachedFacts
  <2>3. Checked(t) = f .. f + n - 1
    BY <2>1, <2>2, CheckedFacts
  <2>4. f .. f + n - 1 = {f + k : k \in 0 .. n - 1}
    <3>1. ASSUME NEW i \in f .. f + n - 1 PROVE i \in {f + k : k \in 0 .. n - 1}
      <4>1. i - f \in 0 .. n - 1 /\ i = f + (i - f)
        OBVIOUS
      <4> QED
        BY <4>1
    <3> QED
      BY <3>1
  <2>5. Loaded(c, predReg[t], tdata[t], stored[t])
    BY <2>1, InTraceFacts
  <2>6. \A k \in 1 .. n : tdata[t].apreds[f + k - 1].currentAddr = stored[t][k]
    BY <2>2, <2>5 DEF Loaded, Done
  <2> QED
    BY <2>1, <2>2, <2>3, <2>4, <2>6
<1> QED
  BY <1>1, FollowingAlways, PTL

-----------------------------------------------------------------------------
\* The statistics.

\* The terms of h are those of f, but for term k, which is larger by v.
Grows(n, k, v, f, h) ==
  \A i \in 1 .. n : f[i] \in Int /\ h[i] = IF i = k THEN f[i] + v ELSE f[i]

\* A sum where one of the terms has grown by v.
LEMMA SumToGrows ==
  ASSUME NEW n \in Nat, NEW k \in 1 .. n, NEW v \in Int, NEW f, NEW h,
         Grows(n, k, v, f, h)
  PROVE  SumTo(f, n) \in Int /\ SumTo(h, n) = SumTo(f, n) + v
<1>1. PICK g : g = [i \in 1 .. n |-> IF i = k THEN v ELSE 0]
  OBVIOUS
<1>2. AddsUp(n, f, g, h)
  BY <1>1 DEF Grows, AddsUp
<1>4. /\ SumTo(f, n) \in Int /\ SumTo(g, n) \in Int
      /\ SumTo(h, n) = SumTo(f, n) + SumTo(g, n)
  BY <1>2, SumToAdds
<1>5. SumTo(g, n) = v
  <2>1. PICK m \in Nat : m = k - 1 /\ m + 1 = k /\ m <= n
    OBVIOUS
  <2>2. SumTo(g, 0) = 0
    BY SumToFacts
  <2>3. \A i \in 0 + 1 .. m : g[i] = 0
    BY <1>1, <2>1
  <2>4. SumTo(g, m) = SumTo(g, 0)
    <3>1. 0 \in Nat /\ 0 <= m /\ SumTo(g, 0) \in Int
      BY <2>1, <2>2
    <3> QED
      BY <2>1, <2>3, <3>1, SumToExtended
  <2>5. SumTo(g, m + 1) = SumTo(g, m) + g[m + 1]
    BY <2>1, SumToFacts
  <2>6. SumTo(g, k) = v
    <3>1. g[m + 1] = v
      BY <1>1, <2>1
    <3> QED
      BY <2>1, <2>2, <2>4, <2>5, <3>1
  <2>7. \A i \in k + 1 .. n : g[i] = 0
    BY <1>1
  <2>8. k \in Nat /\ k <= n
    OBVIOUS
  <2>9. SumTo(g, n) = SumTo(g, k)
    BY <2>6, <2>7, <2>8, SumToExtended
  <2> QED
    BY <2>6, <2>9
<1> QED
  BY <1>4, <1>5

\* The counters of the exits in ex that cover predictor j.
CountOf(ex, counter, j) ==
  SumTo([e \in 1 .. Len(ex) |-> IF ex[e].from <= j /\ j < ex[e].to THEN counter[e] ELSE 0],
        Len(ex))

\* Counters not in use are zero, the others add up to the executions x.
CountedBy(ex, d, x) ==
  /\ \A e \in ExitIds : e > Len(ex) => d.exit_counter[e] = 0
  /\ \A j \in Preds : CountOf(ex, d.exit_counter, j) = x[j]

\* What hits are as long as no counter wraps around, after the checks c.
HitsOf(d, c) ==
  SumTo([i \in 1 .. MAX_PREDS |-> c[i - 1] - d.apreds[i - 1].missCount], MAX_PREDS)

HitBy(next, d, c, h) ==
  /\ \A j \in Preds : j >= next => c[j] = 0 /\ d.apreds[j].missCount = 0
  /\ \A j \in Preds : c[j] < CounterSize => d.apreds[j].missCount <= c[j]
  /\ (\A j \in Preds : c[j] < CounterSize) => h = HitsOf(d, c)

\* The checks after executions x, where those of S were checked once more.
ChecksOf(x, S) == [j \in Preds |-> IF j \in S THEN x[j] + 1 ELSE x[j]]

\* The predictors checked at the exit that is not yet counted.
PendingOf(r, traces, s) ==
  IF r # NULL /\ r.at = "count"
    THEN traces[r.trace].first .. traces[r.trace].first + Len(s) - 1
    ELSE {}

AccountedAt(next, ex, d, x, S, h) ==
  /\ x \in [Preds -> Nat] /\ h \in Nat
  /\ d = NULL => h = 0 /\ \A j \in Preds : x[j] = 0
  /\ d # NULL => CountedBy(ex, d, x) /\ HitBy(next, d, ChecksOf(x, S), h)

Accounted ==
  /\ DOMAIN executed = Threads /\ DOMAIN hits = Threads
  /\ \A t \in Threads : AccountedAt(nextAPred, exits, tdata[t], executed[t],
                                    PendingOf(run[t], cache, stored[t]), hits[t])

\* The account of a thread, in the next state.
LEMMA PrimedAccounted ==
  \A t \in Threads :
    AccountedAt(nextAPred, exits, tdata[t], executed[t],
                PendingOf(run[t], cache, stored[t]), hits[t])'
      = AccountedAt(nextAPred', exits', tdata'[t], executed'[t],
                    PendingOf(run'[t], cache', stored'[t]), hits'[t])
BY DEF AccountedAt, CountedBy, CountOf, HitBy, HitsOf, SumTo, ChecksOf, PendingOf

\* At the start.
LEMMA InitAccounted == Init => Accounted
<1> SUFFICES ASSUME Init, NEW t \in Threads
             PROVE  AccountedAt(nextAPred, exits, tdata[t], executed[t],
                                PendingOf(run[t], cache, stored[t]), hits[t])
  BY DEF Init, Accounted
<1>1. tdata[t] = NULL /\ executed[t] = [j \in Preds |-> 0] /\ hits[t] = 0
  BY DEF Init
<1> QED
  BY <1>1 DEF AccountedAt

\* The step concerns the account of t only.
AccountOf(t) ==
  /\ DOMAIN executed' = Threads /\ DOMAIN hits' = Threads
  /\ \A u \in Threads \ {t} : executed'[u] = executed[u] /\ hits'[u] = hits[u]

\* A step of t within the tables there are keeps the accounts if it keeps that of t.
LEMMA AccountSteps ==
  ASSUME Accounted, NEW t \in Threads, StepOf(t), AccountOf(t),
         AccountedAt(nextAPred, exits, tdata'[t], executed'[t],
                     PendingOf(run'[t], cache, stored'[t]), hits'[t])
  PROVE  Accounted'
<1>1. ASSUME NEW u \in Threads
      PROVE  AccountedAt(nextAPred', exits', tdata'[u], executed'[u],
                         PendingOf(run'[u], cache', stored'[u]), hits'[u])
  <2>1. UNCHANGED <<nextAPred, exits, cache>>
    BY DEF StepOf
  <2>2. CASE u = t
    BY <2>1, <2>2
  <2>3. CASE u # t
    <3>1. AccountedAt(nextAPred, exits, tdata[u], executed[u],
                      PendingOf(run[u], cache, stored[u]), hits[u])
      BY DEF Accounted
    <3> QED
      BY <2>1, <2>3, <3>1 DEF StepOf, AccountOf
  <2> QED
    BY <2>2, <2>3
<1> QED
  BY <1>1, PrimedAccounted DEF Accounted, AccountOf

\* Before the checks, nothing is checked once more.
LEMMA NothingPending ==
  ASSUME NEW r, NEW traces, NEW s, r = NULL \/ r.at # "count"
  PROVE  PendingOf(r, traces, s) = {}
BY DEF PendingOf

\* A thread has its account as long as its counters stay.
LEMMA SameAccount ==
  ASSUME NEW next, NEW ex, NEW x, NEW S, NEW h, NEW d \in ThreadData, NEW d2 \in ThreadData,
         d2.exit_counter = d.exit_counter,
         \A j \in Preds : d2.apreds[j].missCount = d.apreds[j].missCount,
         MAX_PREDS \in Nat,
         AccountedAt(next, ex, d, x, S, h)
  PROVE  AccountedAt(next, ex, d2, x, S, h)
<1>1. d # NULL /\ d2 # NULL
  BY PinPredictAssumption
<1>2. CountedBy(ex, d, x) /\ HitBy(next, d, ChecksOf(x, S), h)
  BY <1>1 DEF AccountedAt
<1>3. CountedBy(ex, d2, x)
  BY <1>2 DEF CountedBy
<1>4. PICK c : c = ChecksOf(x, S)
  OBVIOUS
<1>5. HitsOf(d2, c) = HitsOf(d, c)
  <2>1. \A i \in 1 .. MAX_PREDS : i - 1 \in Preds
    BY DEF Preds
  <2>2. [i \in 1 .. MAX_PREDS |-> c[i - 1] - d2.apreds[i - 1].missCount]
          = [i \in 1 .. MAX_PREDS |-> c[i - 1] - d.apreds[i - 1].missCount]
    BY <2>1
  <2> QED
    BY <2>2 DEF HitsOf
<1>6. HitBy(next, d2, c, h)
  BY <1>2, <1>4, <1>5 DEF HitBy
<1> QED
  BY <1>1, <1>3, <1>4, <1>6 DEF AccountedAt

\* More predictors and exits do not change the account of a thread.
LEMMA AccountGrows ==
  ASSUME NEW next \in Nat, NEW next2 \in Nat, next <= next2,
         NEW ex, NEW ex2, Len(ex) \in Nat, Len(ex2) \in Nat, Extends(ex2, ex),
         Len(ex2) <= MAX_EXITS,
         NEW d \in ThreadData \cup {NULL}, NEW x, NEW S, NEW h,
         AccountedAt(next, ex, d, x, S, h)
  PROVE  AccountedAt(next2, ex2, d, x, S, h)
<1>1. CASE d = NULL
  BY <1>1 DEF AccountedAt
<1>2. CASE d # NULL
  <2>1. /\ x \in [Preds -> Nat] /\ h \in Nat
        /\ CountedBy(ex, d, x) /\ HitBy(next, d, ChecksOf(x, S), h)
    BY <1>2 DEF AccountedAt
  <2>2. PICK counter : counter = d.exit_counter
    OBVIOUS
  <2>3. PICK k \in Nat, k2 \in Nat : k = Len(ex) /\ k2 = Len(ex2) /\ k <= k2 /\ k2 <= MAX_EXITS
    BY DEF Extends
  <2>4. ASSUME NEW j \in Preds PROVE CountOf(ex2, counter, j) = x[j]
    <3>1. PICK f : f = [e \in 1 .. k |->
                          IF ex[e].from <= j /\ j < ex[e].to THEN counter[e] ELSE 0]
      OBVIOUS
    <3>2. PICK f2 : f2 = [e \in 1 .. k2 |->
                            IF ex2[e].from <= j /\ j < ex2[e].to THEN counter[e] ELSE 0]
      OBVIOUS
    <3>3. \A e \in 1 .. k : f[e] = f2[e]
      <4>1. \A e \in 1 .. k : ex2[e] = ex[e] /\ e \in 1 .. k2
        BY <2>3 DEF Extends
      <4> QED
        BY <3>1, <3>2, <4>1
    <3>4. \A e \in k + 1 .. k2 : f2[e] = 0
      <4>1. \A e \in k + 1 .. k2 : e \in ExitIds /\ e > k /\ e \in 1 .. k2
        BY <2>3, TracesAssumption DEF ExitIds
      <4>2. \A e \in k + 1 .. k2 : counter[e] = 0
        BY <2>1, <2>2, <2>3, <4>1 DEF CountedBy
      <4> QED
        BY <3>2, <4>1, <4>2
    <3>5. SumTo(f, k) = x[j]
      BY <2>1, <2>2, <2>3, <3>1 DEF CountedBy, CountOf
    <3>6. SumTo(f, k) = SumTo(f2, k)
      BY <3>3, SumToSame
    <3>7. SumTo(f2, k) \in Int
      <4>1. x \in [Preds -> Nat]
        BY <2>1
      <4>2. x[j] \in Int
        BY <4>1
      <4> QED
        BY <3>5, <3>6, <4>2
    <3>8. SumTo(f2, k2) = SumTo(f2, k)
      BY <2>3, <3>4, <3>7, SumToExtended
    <3> QED
      BY <2>3, <3>2, <3>5, <3>6, <3>8 DEF CountOf
  <2>5. CountedBy(ex2, d, x)
    <3>1. \A e \in ExitIds : e > k2 => d.exit_counter[e] = 0
      BY <2>1, <2>3, TracesAssumption DEF CountedBy, ExitIds
    <3> QED
      BY <2>2, <2>3, <2>4, <3>1 DEF CountedBy
  <2>6. HitBy(next2, d, ChecksOf(x, S), h)
    <3>1. PICK c : c = ChecksOf(x, S)
      OBVIOUS
    <3>2. \A j \in Preds : j >= next2 => j >= next
      BY TracesAssumption DEF Preds
    <3> QED
      BY <2>1, <3>1, <3>2 DEF HitBy
  <2> QED
    BY <1>2, <2>1, <2>5, <2>6 DEF AccountedAt
<1> QED
  BY <1>1, <1>2

\* Trace() changes no account.
LEMMA InstrumentAccounted ==
  ASSUME Following, Typed, Accounted, NEW shape \in Shapes, Instrument(shape)
  PROVE  Accounted'
<1>1. /\ Tables(nextAPred', exits', cache')
      /\ Extends(exits', exits)
      /\ Len(cache) <= Len(cache')
      /\ \A i \in 1 .. Len(cache) : cache'[i] = cache[i]
  BY InstrumentTables, PrimedTables DEF Following
<1>2. UNCHANGED <<tdata, run, stored, executed, hits>>
  BY DEF Instrument, history
<1>3. PICK n \in Nat, n2 \in Nat : n = nextAPred /\ n2 = nextAPred' /\ n <= n2
  <2>1. nextAPred \in Nat /\ AccsUpTo(shape, LastBlock(shape)) \in Nat
    BY AccsFacts, ShapeFacts, TracesAssumption DEF Following, Tables
  <2>2. nextAPred' = nextAPred + AccsUpTo(shape, LastBlock(shape))
    BY DEF Instrument
  <2> QED
    BY <2>1, <2>2
<1>4. PICK ex \in Seq(ExitRecord), ex2 \in Seq(ExitRecord) : ex = exits /\ ex2 = exits'
  BY <1>1 DEF Following, Tables
<1>5. Len(ex) \in Nat /\ Len(ex2) \in Nat /\ Len(ex2) <= MAX_EXITS /\ Extends(ex2, ex)
  BY <1>1, <1>4 DEF Tables
<1>6. ASSUME NEW t \in Threads
      PROVE  AccountedAt(nextAPred', exits', tdata'[t], executed'[t],
                         PendingOf(run'[t], cache', stored'[t]), hits'[t])
  <2>1. PICK d \in ThreadData \cup {NULL} : d = tdata[t]
    BY DEF Typed
  <2>2. PICK S : S = PendingOf(run[t], cache, stored[t])
    OBVIOUS
  <2>3. AccountedAt(n, ex, d, executed[t], S, hits[t])
    BY <1>3, <1>4, <2>1, <2>2 DEF Accounted
  <2>4. AccountedAt(n2, ex2, d, executed[t], S, hits[t])
    BY <1>3, <1>5, <2>3, AccountGrows
  <2>5. PendingOf(run'[t], cache', stored'[t]) = S
    <3>1. CASE run[t] = NULL
      BY <1>2, <2>2, <3>1 DEF PendingOf
    <3>2. CASE run[t] # NULL
      <4>1. run[t].trace \in 1 .. Len(cache)
        BY <3>2 DEF Following, InTrace
      <4> QED
        BY <1>1, <1>2, <2>2, <4>1 DEF PendingOf
    <3> QED
      BY <3>1, <3>2
  <2> QED
    BY <1>2, <1>3, <1>4, <2>1, <2>4, <2>5
<1> QED
  BY <1>2, <1>6, PrimedAccounted DEF Accounted

\* A counter that is increased counts for the predictors of its exit.
LEMMA CountedOnce ==
  ASSUME NEW d \in ThreadData, NEW ex, Len(ex) \in Nat, Len(ex) <= MAX_EXITS,
         NEW k \in 1 .. Len(ex), NEW S,
         \A j \in Preds : j \in S <=> ex[k].from <= j /\ j < ex[k].to,
         NEW x \in [Preds -> Nat], CountedBy(ex, d, x)
  PROVE  CountedBy(ex, [d EXCEPT !.exit_counter[k] = @ + 1], ChecksOf(x, S))
<1>1. PICK counter \in [ExitIds -> Nat] : counter = d.exit_counter
  BY DEF ThreadData
<1>2. PICK counter2 : counter2 = [counter EXCEPT ![k] = counter[k] + 1]
  OBVIOUS
<1>3. [d EXCEPT !.exit_counter[k] = @ + 1].exit_counter = counter2
  BY <1>1, <1>2 DEF ThreadData
<1>4. PICK n \in Nat : n = Len(ex) /\ n <= MAX_EXITS
  OBVIOUS
<1>5. k \in ExitIds /\ 1 .. n \subseteq ExitIds
  BY <1>4, TracesAssumption DEF ExitIds
<1>6. \A e \in ExitIds : counter2[e] = IF e = k THEN counter[e] + 1 ELSE counter[e]
  BY <1>1, <1>2, <1>5
<1>7. \A e \in ExitIds : e > n => counter2[e] = 0
  <2>1. \A e \in ExitIds : e > n => counter[e] = 0
    BY <1>1, <1>4 DEF CountedBy
  <2>2. \A e \in ExitIds : e > n => e # k
    BY <1>4
  <2> QED
    BY <1>6, <2>1, <2>2
<1>8. ASSUME NEW j \in Preds PROVE CountOf(ex, counter2, j) = ChecksOf(x, S)[j]
  <2> DEFINE In(e) == ex[e].from <= j /\ j < ex[e].to
  <2>1. PICK f : f = [e \in 1 .. n |-> IF In(e) THEN counter[e] ELSE 0]
    OBVIOUS
  <2>2. PICK f2 : f2 = [e \in 1 .. n |-> IF In(e) THEN counter2[e] ELSE 0]
    OBVIOUS
  <2>3. CountOf(ex, counter2, j) = SumTo(f2, n)
    BY <1>4, <2>2 DEF CountOf
  <2>4. x[j] = SumTo(f, n)
    <3>1. CountOf(ex, counter, j) = x[j]
      BY <1>1 DEF CountedBy
    <3> QED
      BY <1>4, <2>1, <3>1 DEF CountOf
  <2>5. PICK v \in Int : v = IF In(k) THEN 1 ELSE 0
    OBVIOUS
  <2>6. In(k) <=> j \in S
    OBVIOUS
  <2> HIDE DEF In
  <2>7. Grows(n, k, v, f, f2)
    <3>1. SUFFICES ASSUME NEW e \in 1 .. n
                   PROVE  f[e] \in Int /\ f2[e] = IF e = k THEN f[e] + v ELSE f[e]
      BY DEF Grows
    <3>2. /\ e \in ExitIds /\ counter[e] \in Nat
          /\ counter2[e] = IF e = k THEN counter[e] + 1 ELSE counter[e]
      BY <1>5, <1>6
    <3>3. f[e] = IF In(e) THEN counter[e] ELSE 0
      BY <2>1
    <3>4. f2[e] = IF In(e) THEN counter2[e] ELSE 0
      BY <2>2
    <3> QED
      BY <2>5, <3>2, <3>3, <3>4
  <2>8. k \in 1 .. n
    BY <1>4
  <2>9. SumTo(f, n) \in Int /\ SumTo(f2, n) = SumTo(f, n) + v
    BY <2>7, <2>8, SumToGrows
  <2> QED
    BY <2>3, <2>4, <2>5, <2>6, <2>9 DEF ChecksOf
<1> QED
  BY <1>3, <1>4, <1>7, <1>8 DEF CountedBy

\* The checks behind an account are counted at last.
LEMMA CountedAccount ==
  ASSUME NEW d \in ThreadData, NEW ex, Len(ex) \in Nat, Len(ex) <= MAX_EXITS,
         NEW k \in 1 .. Len(ex), NEW S,
         \A j \in Preds : j \in S <=> ex[k].from <= j /\ j < ex[k].to,
         NEW x, NEW next, NEW h, AccountedAt(next, ex, d, x, S, h)
  PROVE  AccountedAt(next, ex, [d EXCEPT !.exit_counter[k] = @ + 1], ChecksOf(x, S), {}, h)
<1>1. d # NULL
  BY PinPredictAssumption
<1>2. x \in [Preds -> Nat] /\ h \in Nat /\ CountedBy(ex, d, x) /\ HitBy(next, d, ChecksOf(x, S), h)
  BY <1>1 DEF AccountedAt
<1>3. PICK d2 : d2 = [d EXCEPT !.exit_counter[k] = @ + 1]
  OBVIOUS
<1>4. d2 \in ThreadData /\ d2 # NULL /\ d2.apreds = d.apreds
  <2>1. d2 \in ThreadData
    BY <1>3, CountedTyped
  <2> QED
    BY <1>3, <2>1, PinPredictAssumption DEF ThreadData
<1>5. CountedBy(ex, d2, ChecksOf(x, S))
  BY <1>2, <1>3, CountedOnce
<1>6. PICK c \in [Preds -> Nat] : c = ChecksOf(x, S)
  BY <1>2 DEF ChecksOf
<1>7. ChecksOf(c, {}) = c
  BY DEF ChecksOf
<1>8. HitBy(next, d2, c, h)
  BY <1>2, <1>4, <1>6 DEF HitBy, HitsOf
<1> QED
  BY <1>2, <1>3, <1>4, <1>5, <1>6, <1>7, <1>8 DEF AccountedAt

\* What check() does to missCount.
LEMMA MissCounted ==
  ASSUME NEW p \in AddrPredict
  PROVE  Check(p, p.currentAddr).missCount
           = IF p.currentAddr = p.predictedAddr THEN p.missCount
             ELSE (p.missCount + 1) % CounterSize
<1>1. CASE p.currentAddr = p.predictedAddr
  <2>1. Check(p, p.currentAddr) = [p EXCEPT !.predictedAddr = p.predictedAddr + p.predictedStride]
    BY <1>1 DEF Check
  <2> QED
    BY <1>1, <2>1 DEF AddrPredict
<1>2. CASE p.currentAddr # p.predictedAddr
  <2>1. ASSUME NEW a, NEW l, NEW s
        PROVE  Missed(p, a, l, s).missCount = (p.missCount + 1) % CounterSize
    <3>1. PICK n : n = (p.missCount + 1) % CounterSize
      OBVIOUS
    <3>2. Missed(p, a, l, s) = [p EXCEPT !.missCount = n, !.lastAddr = a, !.lastStride = l,
                                         !.predictedStride = s, !.predictedAddr = a + s]
      BY <3>1 DEF Missed
    <3> QED
      BY <3>1, <3>2 DEF AddrPredict
  <2>2. \E a, l, s : Check(p, p.currentAddr) = Missed(p, a, l, s)
    BY <1>2 DEF Check
  <2> QED
    BY <1>2, <2>1, <2>2
<1> QED
  BY <1>1, <1>2

\* A UINT32 that does not wrap around.
LEMMA NoWrap ==
  ASSUME NEW m \in Nat, m < CounterSize
  PROVE  m % CounterSize = m
BY PredictorAssumption

\* The checks at an exit add to the account.
LEMMA CheckedAccount ==
  ASSUME NEW d \in ThreadData, NEW next \in 0 .. MAX_PREDS, NEW S, S \subseteq 0 .. next - 1,
         NEW ex, NEW x, NEW h, AccountedAt(next, ex, d, x, {}, h),
         NEW d2, d2 = [d EXCEPT !.apreds =
                         [j \in Preds |-> IF j \in S THEN Check(@[j], @[j].currentAddr) ELSE @[j]]],
         NEW H, H = {j \in S : d.apreds[j].currentAddr = d.apreds[j].predictedAddr}
  PROVE  AccountedAt(next, ex, d2, x, S, h + Cardinality(H))
<1>1. PICK p \in [Preds -> AddrPredict] : p = d.apreds
  BY DEF ThreadData
<1>2. PICK p2 : p2 = [j \in Preds |-> IF j \in S THEN Check(p[j], p[j].currentAddr) ELSE p[j]]
  OBVIOUS
<1>3. d2.apreds = p2 /\ d2.exit_counter = d.exit_counter
  BY <1>1, <1>2 DEF ThreadData
<1>4. d # NULL /\ d2 # NULL
  <2>1. d2 \in ThreadData
    BY CheckedTyped
  <2> QED
    BY <2>1, PinPredictAssumption
<1>5. x \in [Preds -> Nat] /\ h \in Nat /\ CountedBy(ex, d, x) /\ HitBy(next, d, ChecksOf(x, {}), h)
  BY <1>4 DEF AccountedAt
<1>6. CountedBy(ex, d2, x)
  BY <1>3, <1>5 DEF CountedBy
<1>7. PICK M \in Nat : M = MAX_PREDS
  BY TracesAssumption
<1>8. Preds = 0 .. M - 1 /\ S \subseteq Preds /\ H \subseteq S /\ next \in Nat
  BY <1>7 DEF Preds
<1>9. PICK c \in [Preds -> Nat] : c = x /\ c = ChecksOf(x, {})
  <2>1. x \in [Preds -> Nat]
    BY <1>5
  <2> QED
    BY <2>1 DEF ChecksOf
<1>10. PICK c2 \in [Preds -> Nat] : c2 = ChecksOf(x, S)
  <2>1. \A j \in Preds : (IF j \in S THEN x[j] + 1 ELSE x[j]) \in Nat
    <3>1. \A j \in Preds : x[j] \in Nat
      BY <1>5
    <3> QED
      BY <3>1
  <2> QED
    BY <2>1 DEF ChecksOf
<1>11. \A j \in Preds : c2[j] = IF j \in S THEN c[j] + 1 ELSE c[j]
  BY <1>9, <1>10 DEF ChecksOf
<1>12. PICK C \in Nat \ {0} : C = CounterSize
  BY PredictorAssumption
<1>13. PICK m : m = [j \in Preds |-> p[j].missCount]
  OBVIOUS
<1>14. PICK m2 : m2 = [j \in Preds |-> p2[j].missCount]
  OBVIOUS
<1>15. m \in [Preds -> 0 .. C - 1]
  <2>1. \A j \in Preds : p[j].missCount \in 0 .. C - 1
    BY <1>12 DEF AddrPredict
  <2> QED
    BY <1>13, <2>1
<1>16. \A j \in Preds : m2[j] = IF j \in S /\ j \notin H THEN (m[j] + 1) % C ELSE m[j]
  <2>1. SUFFICES ASSUME NEW j \in Preds
                 PROVE  m2[j] = IF j \in S /\ j \notin H THEN (m[j] + 1) % C ELSE m[j]
    OBVIOUS
  <2>2. PICK q \in AddrPredict : q = p[j]
    OBVIOUS
  <2>3. Check(q, q.currentAddr).missCount
          = IF q.currentAddr = q.predictedAddr THEN q.missCount ELSE (q.missCount + 1) % CounterSize
    BY MissCounted
  <2>4. j \in S => (j \in H <=> q.currentAddr = q.predictedAddr)
    BY <1>1, <2>2
  <2>5. m[j] = q.missCount
    BY <1>13, <2>2
  <2>6. CASE j \in S
    <3>1. m2[j] = Check(q, q.currentAddr).missCount
      BY <1>2, <1>14, <2>2, <2>6
    <3> QED
      BY <1>12, <2>3, <2>4, <2>5, <2>6, <3>1
  <2>7. CASE j \notin S
    BY <1>2, <1>14, <2>2, <2>5, <2>7
  <2> QED
    BY <2>6, <2>7
<1>17. /\ \A j \in Preds : j >= next => c[j] = 0 /\ m[j] = 0
       /\ \A j \in Preds : c[j] < C => m[j] <= c[j]
       /\ (\A j \in Preds : c[j] < C) => h = HitsOf(d, c)
  BY <1>1, <1>5, <1>9, <1>12, <1>13 DEF HitBy
<1>18. \A j \in Preds : c2[j] < C =>
         /\ c[j] < C
         /\ m2[j] = IF j \in S /\ j \notin H THEN m[j] + 1 ELSE m[j]
         /\ m2[j] <= c2[j]
  <2>1. SUFFICES ASSUME NEW j \in Preds, c2[j] < C
                 PROVE  /\ c[j] < C
                        /\ m2[j] = IF j \in S /\ j \notin H THEN m[j] + 1 ELSE m[j]
                        /\ m2[j] <= c2[j]
    OBVIOUS
  <2>2. PICK y \in Nat, y2 \in Nat, n \in Nat : y = c[j] /\ y2 = c2[j] /\ n = m[j]
    BY <1>15
  <2>3. y < C /\ y2 = IF j \in S THEN y + 1 ELSE y
    BY <1>11, <2>1, <2>2
  <2>4. n <= y
    BY <1>17, <2>2, <2>3
  <2>5. CASE j \in S /\ j \notin H
    <3>1. n + 1 < C /\ n + 1 \in Nat
      BY <2>1, <2>2, <2>3, <2>4, <2>5
    <3>2. (n + 1) % C = n + 1
      BY <1>12, <3>1, NoWrap
    <3> QED
      BY <1>16, <2>2, <2>3, <2>4, <2>5, <3>2
  <2>6. CASE ~(j \in S /\ j \notin H)
    BY <1>16, <2>2, <2>3, <2>4, <2>6
  <2> QED
    BY <2>5, <2>6
<1>19. \A j \in Preds : j >= next => c2[j] = 0 /\ m2[j] = 0
  <2>1. \A j \in Preds : j >= next => j \notin S
    BY <1>8
  <2> QED
    BY <1>11, <1>16, <1>17, <2>1
<1>20. IsFiniteSet(H) /\ Cardinality(H) \in Nat
  <2>1. IsFiniteSet(0 .. next - 1)
    <3>1. 0 \in Int /\ next - 1 \in Int
      BY <1>8
    <3> QED
      BY <3>1, FS_Interval
  <2>2. H \subseteq 0 .. next - 1
    BY <1>8
  <2>3. IsFiniteSet(H)
    BY <2>1, <2>2, FS_Subset
  <2> QED
    BY <2>3, FS_CardinalityType
<1>21. ASSUME \A j \in Preds : c2[j] < C PROVE h + Cardinality(H) = HitsOf(d2, c2)
  <2>1. h = HitsOf(d, c)
    BY <1>17, <1>18, <1>21
  <2>2. PICK f : f = [i \in 1 .. M |-> c[i - 1] - m[i - 1]]
    OBVIOUS
  <2>3. PICK f2 : f2 = [i \in 1 .. M |-> c2[i - 1] - m2[i - 1]]
    OBVIOUS
  <2>4. PICK g : g = [i \in 1 .. M |-> IF i - 1 \in H THEN 1 ELSE 0]
    OBVIOUS
  <2>5. \A i \in 1 .. M : i - 1 \in Preds
    BY <1>8
  <2>6. HitsOf(d, c) = SumTo(f, M)
    <3>1. f = [i \in 1 .. MAX_PREDS |-> c[i - 1] - d.apreds[i - 1].missCount]
      BY <1>1, <1>7, <1>13, <2>2, <2>5
    <3> QED
      BY <1>7, <3>1 DEF HitsOf
  <2>7. HitsOf(d2, c2) = SumTo(f2, M)
    <3>1. f2 = [i \in 1 .. MAX_PREDS |-> c2[i - 1] - d2.apreds[i - 1].missCount]
      BY <1>3, <1>7, <1>14, <2>3, <2>5
    <3> QED
      BY <1>7, <3>1 DEF HitsOf
  <2>8. AddsUp(M, f, g, f2)
    <3>1. SUFFICES ASSUME NEW i \in 1 .. M
                   PROVE  f[i] \in Int /\ g[i] \in Int /\ f2[i] = f[i] + g[i]
      BY DEF AddsUp
    <3>2. PICK j \in Preds : j = i - 1
      BY <2>5
    <3>3. PICK y \in Nat, n \in Nat : y = c[j] /\ n = m[j]
      BY <1>15
    <3>4. f[i] = y - n /\ f2[i] = c2[j] - m2[j] /\ g[i] = IF j \in H THEN 1 ELSE 0
      BY <2>2, <2>3, <2>4, <3>2, <3>3
    <3>5. /\ c2[j] = IF j \in S THEN y + 1 ELSE y
          /\ m2[j] = IF j \in S /\ j \notin H THEN n + 1 ELSE n
      BY <1>11, <1>18, <1>21, <3>3
    <3> QED
      BY <1>8, <3>4, <3>5
  <2>9. SumTo(f2, M) = SumTo(f, M) + SumTo(g, M)
    BY <2>8, SumToAdds
  <2>10. SumTo(g, M) = Cardinality(H)
    <3>1. Marks(M, H, g)
      BY <2>4 DEF Marks
    <3>2. IsFiniteSet(H \cap 0 .. M - 1) /\ SumTo(g, M) = Cardinality(H \cap 0 .. M - 1)
      BY <3>1, SumToCounts
    <3>3. H \cap 0 .. M - 1 = H
      BY <1>8
    <3> QED
      BY <3>2, <3>3
  <2> QED
    BY <2>1, <2>6, <2>7, <2>9, <2>10
<1>22. HitBy(next, d2, c2, h + Cardinality(H))
  <2>1. \A j \in Preds : d2.apreds[j].missCount = m2[j]
    BY <1>3, <1>14
  <2> QED
    BY <1>12, <1>18, <1>19, <1>21, <2>1 DEF HitBy
<1>23. h + Cardinality(H) \in Nat
  BY <1>5, <1>20
<1> QED
  BY <1>4, <1>5, <1>6, <1>10, <1>22, <1>23 DEF AccountedAt

\* Steps before the checks: no account changes.
LEMMA QuietAccounted ==
  ASSUME Following, Typed, Accounted, NEW t \in Threads,
         (\E i \in DOMAIN cache : Enter(t, i)) \/ NextBlock(t) \/ TakeExit(t)
  PROVE  Accounted'
<1>1. StepOf(t) /\ Following'
  BY EnterFollowing, NextBlockFollowing, TakeExitFollowing
<1>2. UNCHANGED <<tdata, executed, hits>>
  BY DEF Enter, NextBlock, TakeExit, history
<1>3. run[t] = NULL \/ run[t].at # "count"
  BY DEF Enter, NextBlock, TakeExit, AtEnd, InBlock
<1>4. run'[t] = NULL \/ run'[t].at # "count"
  <2>1. run \in [Threads -> Runs \cup {NULL}]
    BY DEF Following
  <2>2. ASSUME NEW i \in DOMAIN cache, Enter(t, i) PROVE run'[t].at # "count"
    <3>1. run'[t] = [trace |-> i, block |-> 1, at |-> "block"]
      BY <2>1, <2>2 DEF Enter
    <3> QED
      BY <3>1
  <2>3. ASSUME NextBlock(t) PROVE run'[t].at # "count"
    <3>1. run[t] \in Runs /\ run[t].at = "block"
      BY <2>1, <2>3 DEF NextBlock, AtEnd, InBlock
    <3>2. run'[t] = [run[t] EXCEPT !.block = @ + 1]
      BY <2>1, <2>3 DEF NextBlock
    <3> QED
      BY <3>1, <3>2 DEF Runs
  <2>4. ASSUME TakeExit(t) PROVE run'[t].at # "count"
    <3>1. PICK x \in ExitsOf(Trace(t).shape) :
            run' = [run EXCEPT ![t] = [trace |-> @.trace, block |-> @.block, at |-> "check",
                                       exit |-> Trace(t).exit[x]]]
      BY <2>4 DEF TakeExit
    <3> QED
      BY <2>1, <3>1
  <2> QED
    BY <2>2, <2>3, <2>4
<1>5. /\ PendingOf(run[t], cache, stored[t]) = {}
      /\ PendingOf(run'[t], cache, stored'[t]) = {}
  BY <1>3, <1>4, NothingPending
<1>6. AccountOf(t)
  BY <1>2 DEF AccountOf, Accounted
<1>7. AccountedAt(nextAPred, exits, tdata'[t], executed'[t],
                  PendingOf(run'[t], cache, stored'[t]), hits'[t])
  BY <1>2, <1>5 DEF Accounted
<1> QED
  BY <1>1, <1>6, <1>7, AccountSteps

\* An access changes no counters.
LEMMA AccessAccounted ==
  ASSUME Following, Typed, Accounted, NEW t \in Threads, NEW a \in Addresses, Access(t, a)
  PROVE  Accounted'
<1>1. StepOf(t)
  BY AccessFollowing
<1>2. PICK j : j = Trace(t).first + Done(t)
  OBVIOUS
<1>3. PICK d2 : d2 = [tdata[t] EXCEPT !.apreds[j].currentAddr = a]
  OBVIOUS
<1>4. /\ run[t] # NULL /\ j \in Preds
      /\ tdata' = [tdata EXCEPT ![t] = d2]
  BY <1>2, <1>3, AccessEffect
<1>5. tdata'[t] = d2
  BY <1>4 DEF Typed
<1>6. UNCHANGED <<run, executed, hits>> /\ run[t].at = "block"
  BY DEF Access, InBlock, history
<1>7. PICK d \in ThreadData : d = tdata[t]
  BY <1>4, InTraceFacts
<1>8. Stores(d2, d, j, a)
  BY <1>3, <1>4, <1>7, StoredAt
<1>9. /\ PendingOf(run[t], cache, stored[t]) = {}
      /\ PendingOf(run'[t], cache, stored'[t]) = {}
  BY <1>6, NothingPending
<1>10. AccountedAt(nextAPred, exits, d, executed[t], {}, hits[t])
  BY <1>7, <1>9 DEF Accounted
<1>11. AccountedAt(nextAPred, exits, d2, executed[t], {}, hits[t])
  <2>1. /\ d2 \in ThreadData /\ d2.exit_counter = d.exit_counter
        /\ \A i \in Preds : d2.apreds[i].missCount = d.apreds[i].missCount
        /\ MAX_PREDS \in Nat
    BY <1>8, TracesAssumption DEF Stores
  <2> QED
    BY <1>10, <2>1, SameAccount
<1>12. AccountOf(t)
  BY <1>6 DEF AccountOf, Accounted
<1> QED
  BY <1>1, <1>5, <1>6, <1>9, <1>11, <1>12, AccountSteps

\* A thread that starts has an empty account.
LEMMA StartAccounted ==
  ASSUME Following, Typed, Accounted, NEW t \in Threads, ThreadStart(t)
  PROVE  Accounted'
<1>1. StepOf(t)
  BY StartFollowing
<1>2. run[t] = NULL /\ tdata[t] = NULL
  BY PinPredictAssumption DEF ThreadStart, Typed
<1>3. UNCHANGED <<run, executed, hits>> /\ tdata'[t] = NewThreadData
  BY DEF ThreadStart, history, Typed
<1>4. PICK x : x = executed[t]
  OBVIOUS
<1>5. x \in [Preds -> Nat] /\ hits[t] = 0 /\ \A j \in Preds : x[j] = 0
  BY <1>2, <1>4 DEF Accounted, AccountedAt
<1>6. PICK d \in ThreadData :
        /\ d = NewThreadData
        /\ d.exit_counter = [e \in ExitIds |-> 0]
        /\ \A j \in Preds : d.apreds[j].missCount = 0
  BY NewTyped DEF NewThreadData, NewAddrPredict
<1>7. PICK ex \in Seq(ExitRecord) : ex = exits /\ Len(ex) \in Nat /\ Len(ex) <= MAX_EXITS
  BY DEF Following, Tables
<1>8. ASSUME NEW j \in Preds PROVE CountOf(ex, d.exit_counter, j) = x[j]
  <2>1. PICK f : f = [e \in 1 .. Len(ex) |->
                        IF ex[e].from <= j /\ j < ex[e].to THEN d.exit_counter[e] ELSE 0]
    OBVIOUS
  <2>2. \A e \in 0 + 1 .. Len(ex) : f[e] = 0
    <3>1. \A e \in 1 .. Len(ex) : e \in ExitIds
      BY <1>7, TracesAssumption DEF ExitIds
    <3> QED
      BY <1>6, <2>1, <3>1
  <2>3. SumTo(f, 0) = 0
    BY SumToFacts
  <2>4. 0 \in Nat /\ 0 <= Len(ex) /\ SumTo(f, 0) \in Int
    BY <1>7, <2>3
  <2>5. SumTo(f, Len(ex)) = SumTo(f, 0)
    BY <1>7, <2>2, <2>4, SumToExtended
  <2> QED
    BY <1>5, <2>1, <2>3, <2>5 DEF CountOf
<1>9. CountedBy(ex, d, x)
  BY <1>6, <1>8 DEF CountedBy
<1>10. PICK c : c = ChecksOf(x, {}) /\ \A j \in Preds : c[j] = 0
  BY <1>5 DEF ChecksOf
<1>11. HitsOf(d, c) = 0
  <2>1. PICK f : f = [i \in 1 .. MAX_PREDS |-> c[i - 1] - d.apreds[i - 1].missCount]
    OBVIOUS
  <2>2. \A i \in 0 + 1 .. MAX_PREDS : f[i] = 0
    <3>1. \A i \in 1 .. MAX_PREDS : i - 1 \in Preds
      BY TracesAssumption DEF Preds
    <3> QED
      BY <1>6, <1>10, <2>1, <3>1
  <2>3. SumTo(f, 0) = 0
    BY SumToFacts
  <2>4. 0 \in Nat /\ MAX_PREDS \in Nat /\ 0 <= MAX_PREDS /\ SumTo(f, 0) \in Int
    BY <2>3, TracesAssumption
  <2>5. SumTo(f, MAX_PREDS) = SumTo(f, 0)
    BY <2>2, <2>4, SumToExtended
  <2> QED
    BY <2>1, <2>3, <2>5 DEF HitsOf
<1>12. HitBy(nextAPred, d, c, 0)
  BY <1>6, <1>10, <1>11 DEF HitBy
<1>13. d # NULL
  BY PinPredictAssumption
<1>14. AccountedAt(nextAPred, ex, d, x, {}, 0)
  BY <1>5, <1>9, <1>10, <1>12, <1>13 DEF AccountedAt
<1>15. PendingOf(run'[t], cache, stored'[t]) = {}
  BY <1>2, <1>3, NothingPending
<1>16. AccountOf(t)
  BY <1>3 DEF AccountOf, Accounted
<1> QED
  BY <1>1, <1>3, <1>4, <1>5, <1>6, <1>7, <1>14, <1>15, <1>16, AccountSteps

\* The checks at an exit enter the account.
LEMMA CheckAllAccounted ==
  ASSUME Following, Typed, Accounted, NEW t \in Threads, CheckAll(t)
  PROVE  Accounted'
<1>1. StepOf(t)
  BY CheckAllFollowing
<1>2. run[t] # NULL /\ run[t].at = "check"
  BY DEF CheckAll
<1>3. PICK c \in CachedTrace : c = Trace(t)
  BY <1>2, InTraceFacts
<1>4. PICK f \in Nat, n \in Nat : f = c.first /\ n = Done(t)
  BY <1>2, InTraceFacts, CachedFacts
<1>5. PICK S : S = Checked(t) /\ S = f .. f + n - 1
  BY <1>2, <1>3, <1>4, CheckedFacts
<1>6. PICK next \in 0 .. MAX_PREDS : next = nextAPred
  BY DEF Following, Tables
<1>7. S \subseteq 0 .. next - 1
  <2>1. Cached(c, next, exits) /\ Within(c, run[t], n)
    BY <1>2, <1>3, <1>4, <1>6, InTraceFacts
  <2>2. PICK b : b = run[t].block /\ b \in 1 .. LastBlock(c.shape)
    BY <2>1 DEF Within
  <2>3. c.shape \in Shapes
    BY CachedFacts
  <2>4. b \in 0 .. LastBlock(c.shape)
    BY <2>2, <2>3, ShapeFacts
  <2>5. /\ n = AccsUpTo(c.shape, b)
        /\ f + AccsUpTo(c.shape, LastBlock(c.shape)) <= next
    BY <1>2, <1>4, <2>1, <2>2 DEF Within, Cached
  <2>6. n <= AccsUpTo(c.shape, LastBlock(c.shape))
    BY <2>3, <2>4, <2>5, AccsFacts
  <2>7. AccsUpTo(c.shape, LastBlock(c.shape)) \in Nat
    BY CachedFacts
  <2>8. f + n <= next /\ next \in Nat
    BY <1>4, <1>6, <2>5, <2>6, <2>7, TracesAssumption
  <2> QED
    BY <1>4, <1>5, <2>8
<1>8. PICK d \in ThreadData : d = tdata[t]
  BY <1>2, InTraceFacts
<1>9. PICK d2 : d2 = [d EXCEPT !.apreds =
                [j \in Preds |-> IF j \in S THEN Check(@[j], @[j].currentAddr) ELSE @[j]]]
  OBVIOUS
<1>10. PICK H : H = {j \in S : d.apreds[j].currentAddr = d.apreds[j].predictedAddr}
  OBVIOUS
<1>11. tdata'[t] = d2
  BY <1>5, <1>8, <1>9 DEF CheckAll, Typed
<1>12. /\ hits' = [hits EXCEPT ![t] = hits[t] + Cardinality(H)]
       /\ UNCHANGED <<executed, stored>>
       /\ run' = [run EXCEPT ![t] = [run[t] EXCEPT !.at = "count"]]
  BY <1>5, <1>8, <1>10 DEF CheckAll
<1>13. PendingOf(run[t], cache, stored[t]) = {}
  BY <1>2, NothingPending
<1>14. PendingOf(run'[t], cache, stored'[t]) = S
  <2>1. PICK r : r = run'[t] /\ r = [run[t] EXCEPT !.at = "count"]
    BY <1>12 DEF Following
  <2>2. run[t] \in Runs
    BY <1>2, InTraceFacts
  <2>3. r \in Runs /\ r.at = "count" /\ r.trace = run[t].trace
    BY <1>2, <2>1, <2>2 DEF Runs
  <2>4. r # NULL
    BY <2>3, PinPredictAssumption
  <2>5. cache[r.trace] = c /\ Len(stored'[t]) = n
    BY <1>3, <1>4, <1>12, <2>3 DEF Trace, Done
  <2> QED
    BY <1>4, <1>5, <2>1, <2>3, <2>4, <2>5 DEF PendingOf
<1>15. AccountedAt(next, exits, d, executed[t], {}, hits[t])
  BY <1>6, <1>8, <1>13 DEF Accounted
<1>16. AccountedAt(next, exits, d2, executed[t], S, hits[t] + Cardinality(H))
  BY <1>7, <1>9, <1>10, <1>15, CheckedAccount
<1>17. AccountOf(t) /\ hits'[t] = hits[t] + Cardinality(H)
  BY <1>12 DEF AccountOf, Accounted
<1> QED
  BY <1>1, <1>6, <1>11, <1>12, <1>14, <1>16, <1>17, AccountSteps

\* The exit counter completes the account.
LEMMA CountExitAccounted ==
  ASSUME Following, Typed, Accounted, NEW t \in Threads, CountExit(t)
  PROVE  Accounted'
<1>1. StepOf(t)
  BY CountExitFollowing
<1>2. run[t] # NULL /\ run[t].at = "count"
  BY DEF CountExit
<1>3. PICK c \in CachedTrace : c = Trace(t)
  BY <1>2, InTraceFacts
<1>4. PICK f \in Nat, n \in Nat : f = c.first /\ n = Done(t)
  BY <1>2, InTraceFacts, CachedFacts
<1>5. PICK k : k = run[t].exit /\ k \in 1 .. Len(exits)
  BY <1>2, ExitFacts
<1>6. exits[k].from = f /\ exits[k].to = f + n
  BY <1>2, <1>3, <1>4, <1>5, ExitFacts DEF Exit
<1>7. PICK S : S = f .. f + n - 1
  OBVIOUS
<1>8. \A j \in Preds : j \in S <=> exits[k].from <= j /\ j < exits[k].to
  <2>1. \A j \in Preds : j \in Nat
    BY TracesAssumption DEF Preds
  <2> QED
    BY <1>4, <1>6, <1>7, <2>1
<1>9. Len(exits) \in Nat /\ Len(exits) <= MAX_EXITS
  <2>1. PICK ex \in Seq(ExitRecord) : ex = exits
    BY DEF Following, Tables
  <2>2. Len(ex) \in Nat
    OBVIOUS
  <2> QED
    BY <2>1, <2>2 DEF Following, Tables
<1>10. PICK d \in ThreadData : d = tdata[t]
  BY <1>2, InTraceFacts
<1>11. PICK d2 : d2 = [d EXCEPT !.exit_counter[k] = @ + 1]
  OBVIOUS
<1>12. tdata'[t] = d2
  BY <1>5, <1>10, <1>11 DEF CountExit, Typed
<1>13. PendingOf(run[t], cache, stored[t]) = S
  BY <1>2, <1>3, <1>4, <1>7 DEF PendingOf, Trace, Done
<1>14. AccountedAt(nextAPred, exits, d, executed[t], S, hits[t])
  BY <1>10, <1>13 DEF Accounted
<1>15. AccountedAt(nextAPred, exits, d2, ChecksOf(executed[t], S), {}, hits[t])
  BY <1>5, <1>8, <1>9, <1>11, <1>14, CountedAccount
<1>16. PICK x : x = [j \in Preds |-> IF j - Trace(t).first \in 0 .. Done(t) - 1
                                     THEN executed[t][j] + 1 ELSE executed[t][j]]
  OBVIOUS
<1>17. x = ChecksOf(executed[t], S)
  <2>1. ASSUME NEW j \in Preds PROVE j \in S <=> j - f \in 0 .. n - 1
    <3>1. j \in Nat
      BY TracesAssumption DEF Preds
    <3> QED
      BY <1>7, <3>1
  <2> QED
    BY <1>3, <1>4, <1>16, <2>1 DEF ChecksOf
<1>18. executed' = [executed EXCEPT ![t] = x] /\ UNCHANGED hits /\ run' = [run EXCEPT ![t] = NULL]
  BY <1>16 DEF CountExit
<1>19. PendingOf(run'[t], cache, stored'[t]) = {}
  <2>1. run'[t] = NULL
    BY <1>18 DEF Following
  <2> QED
    BY <2>1, NothingPending
<1>20. AccountOf(t) /\ executed'[t] = x /\ hits'[t] = hits[t]
  BY <1>18 DEF AccountOf, Accounted
<1> QED
  BY <1>1, <1>12, <1>15, <1>17, <1>19, <1>20, AccountSteps

\* Every step keeps the accounts.
LEMMA AccountedStep == Following /\ Typed /\ Accounted /\ [Next]_vars => Accounted'
<1> SUFFICES ASSUME Following, Typed, Accounted, [Next]_vars PROVE Accounted'
  OBVIOUS
<1>1. CASE UNCHANGED vars
  <2>1. UNCHANGED <<nextAPred, exits, cache, tdata, run, stored, executed, hits>>
    BY <1>1 DEF vars
  <2> QED
    BY <2>1, PrimedAccounted DEF Accounted
<1>2. ASSUME NEW shape \in Shapes, Instrument(shape) PROVE Accounted'
  BY <1>2, InstrumentAccounted
<1>3. ASSUME NEW shape \in Shapes, TooMany(shape) PROVE Accounted'
  <2>1. UNCHANGED <<nextAPred, exits, cache, tdata, run, stored, executed, hits>>
    BY <1>3 DEF TooMany, history
  <2> QED
    BY <2>1, PrimedAccounted DEF Accounted
<1>4. ASSUME NEW t \in Threads, ThreadStart(t) PROVE Accounted'
  BY <1>4, StartAccounted
<1>5. ASSUME NEW t \in Threads,
             (\E i \in DOMAIN cache : Enter(t, i)) \/ NextBlock(t) \/ TakeExit(t)
      PROVE  Accounted'
  BY <1>5, QuietAccounted
<1>6. ASSUME NEW t \in Threads, NEW a \in Addresses, Access(t, a) PROVE Accounted'
  BY <1>6, AccessAccounted
<1>7. ASSUME NEW t \in Threads, CheckAll(t) PROVE Accounted'
  BY <1>7, CheckAllAccounted
<1>8. ASSUME NEW t \in Threads, CountExit(t) PROVE Accounted'
  BY <1>8, CountExitAccounted
<1> QED
  BY <1>1, <1>2, <1>3, <1>4, <1>5, <1>6, <1>7, <1>8 DEF Next

\* The accounts of all threads, in every state.
THEOREM AccountedAlways == Spec => [](Typed /\ Following /\ Accounted)
<1>1. Init => Accounted
  BY InitAccounted
<1>2. Typed /\ Following /\ Accounted /\ [Next]_vars => Accounted'
  BY AccountedStep
<1> QED
  BY <1>1, <1>2, FollowingAlways, PTL DEF Spec

\* The account of a thread outside of traces.
LEMMA OutsideFacts ==
  ASSUME Typed, Following, Accounted, NEW t \in Threads, Outside(t)
  PROVE  /\ executed[t] \in [Preds -> Nat]
         /\ tdata[t] \in ThreadData
         /\ CountedBy(exits, tdata[t], executed[t])
         /\ HitBy(nextAPred, tdata[t], executed[t], hits[t])
<1>1. run[t] = NULL /\ tdata[t] # NULL
  BY DEF Outside, Running
<1>2. PendingOf(run[t], cache, stored[t]) = {}
  BY <1>1, NothingPending
<1>3. AccountedAt(nextAPred, exits, tdata[t], executed[t], {}, hits[t])
  BY <1>2 DEF Accounted
<1>4. PICK x \in [Preds -> Nat] : x = executed[t]
  BY <1>3 DEF AccountedAt
<1>5. ChecksOf(x, {}) = x
  BY DEF ChecksOf
<1> QED
  BY <1>1, <1>3, <1>4, <1>5 DEF AccountedAt, Typed

\* The counters are those of the predictors.
LEMMA ExecutionsFacts ==
  ASSUME Typed, Following, Accounted, NEW t \in Threads, Outside(t), NEW j \in Preds
  PROVE  Executions(t, j) = executed[t][j]
<1>1. CountOf(exits, tdata[t].exit_counter, j) = executed[t][j]
  BY OutsideFacts DEF CountedBy
<1> QED
  BY <1>1 DEF CountOf, Executions, NextExits, Covers

\* The executions that Fini() derives from the exit counters are those there were.
THEOREM CountsCorrect == Spec => []CountsAddUp
<1>1. Typed /\ Following /\ Accounted => CountsAddUp
  BY ExecutionsFacts DEF CountsAddUp, PredCount
<1> QED
  BY <1>1, AccountedAlways, PTL

\* What Fini() reports as predicted is what check() has found predicted right.
THEOREM HitsCorrect == Spec => []HitsAddUp
<1>1. Typed /\ Following /\ Accounted => HitsAddUp
  <2> SUFFICES ASSUME Typed, Following, Accounted, NEW t \in Threads, Outside(t),
                      \A j \in Preds : executed[t][j] < CounterSize
               PROVE  threadHitCount(t) = hits[t]
    BY DEF HitsAddUp
  <2>1. PICK x \in [Preds -> Nat] : x = executed[t]
    BY OutsideFacts
  <2>2. PICK d \in ThreadData : d = tdata[t]
    BY OutsideFacts
  <2>3. HitBy(nextAPred, d, x, hits[t])
    BY <2>1, <2>2, OutsideFacts
  <2>4. PICK M \in Nat, next \in Nat : M = MAX_PREDS /\ next = nextAPred /\ next <= M
    BY TracesAssumption DEF Following, Tables
  <2>5. PICK m : m = [j \in Preds |-> d.apreds[j].missCount]
    OBVIOUS
  <2>6. \A j \in Preds : m[j] \in Nat
    <3>1. \A j \in Preds : d.apreds[j] \in AddrPredict
      BY DEF ThreadData
    <3> QED
      BY <2>5, <3>1, PredictorAssumption DEF AddrPredict
  <2>7. PICK f : f = [i \in 1 .. M |-> x[i - 1] - m[i - 1]]
    OBVIOUS
  <2>8. \A i \in 1 .. M : i - 1 \in Preds
    BY <2>4 DEF Preds
  <2>9. hits[t] = SumTo(f, M)
    <3>1. hits[t] = HitsOf(d, x)
      BY <2>1, <2>3 DEF HitBy
    <3>2. f = [i \in 1 .. MAX_PREDS |-> x[i - 1] - d.apreds[i - 1].missCount]
      BY <2>4, <2>5, <2>7, <2>8
    <3> QED
      BY <2>4, <3>1, <3>2 DEF HitsOf
  <2>10. \A i \in next + 1 .. M : f[i] = 0
    <3>1. SUFFICES ASSUME NEW i \in next + 1 .. M PROVE f[i] = 0
      OBVIOUS
    <3>2. PICK j \in Preds : j = i - 1 /\ j >= next /\ i \in 1 .. M
      BY <2>4, <2>8
    <3>3. x[j] = 0 /\ m[j] = 0
      BY <2>3, <2>4, <2>5, <3>2 DEF HitBy
    <3> QED
      BY <2>7, <3>2, <3>3
  <2>11. PICK misses : misses = [i \in 1 .. next |-> m[i - 1]]
    OBVIOUS
  <2>12. PICK counts : counts = [i \in 1 .. next |-> x[i - 1]]
    OBVIOUS
  <2>13. AddsUp(next, f, misses, counts)
    <3>1. SUFFICES ASSUME NEW i \in 1 .. next
                   PROVE  f[i] \in Int /\ misses[i] \in Int /\ counts[i] = f[i] + misses[i]
      BY DEF AddsUp
    <3>2. i \in 1 .. M
      BY <2>4
    <3>3. PICK j \in Preds : j = i - 1
      BY <2>8, <3>2
    <3>4. PICK y \in Nat, z \in Nat : y = x[j] /\ z = m[j]
      BY <2>6
    <3>5. f[i] = y - z /\ misses[i] = z /\ counts[i] = y
      BY <2>7, <2>11, <2>12, <3>2, <3>3, <3>4
    <3> QED
      BY <3>4, <3>5
  <2>14. /\ SumTo(f, next) \in Int /\ SumTo(misses, next) \in Int
         /\ SumTo(counts, next) = SumTo(f, next) + SumTo(misses, next)
    BY <2>13, SumToAdds
  <2>15. SumTo(f, M) = SumTo(f, next)
    BY <2>4, <2>10, <2>14, SumToExtended
  <2>16. threadMissCount(t) = SumTo(misses, next)
    <3>1. misses = [i \in 1 .. nextAPred |-> tdata[t].apreds[i - 1].missCount]
      <4>1. \A i \in 1 .. next : i - 1 \in Preds
        BY <2>4, <2>8
      <4> QED
        BY <2>2, <2>4, <2>5, <2>11, <4>1
    <3> QED
      BY <2>4, <3>1 DEF threadMissCount
  <2>17. threadCount(t) = SumTo(counts, next)
    <3>1. ASSUME NEW i \in 1 .. next PROVE PredCount(t, i - 1) = x[i - 1]
      <4>1. PICK j \in Preds : j = i - 1
        BY <2>4, <2>8
      <4>2. Executions(t, j) = x[j]
        BY <2>1, ExecutionsFacts
      <4>3. PICK y \in Nat : y = x[j] /\ y < CounterSize
        BY <2>1
      <4>4. y % CounterSize = y
        BY <4>3, NoWrap
      <4> QED
        BY <4>1, <4>2, <4>3, <4>4 DEF PredCount
    <3>2. counts = [i \in 1 .. nextAPred |-> PredCount(t, i - 1)]
      BY <2>4, <2>12, <3>1
    <3> QED
      BY <2>4, <3>2 DEF threadCount
  <2> QED
    BY <2>9, <2>14, <2>15, <2>16, <2>17 DEF threadHitCount
<1> QED
  BY <1>1, AccountedAlways, PTL
=============================================================================
