----------------------------- MODULE Predictor ------------------------------
(***************************************************************************)
(* The stride predictor of pinpredict.cpp: a struct AddrPredict is a       *)
(* record, check() an operator from the record before to the one after.    *)
(***************************************************************************)
EXTENDS Integers

CONSTANTS
  MAXDIFF,       \* strides of this size and more are not learned
  CounterSize    \* 2^32, the number of values of a UINT32 counter

ASSUME PredictorAssumption ==
  /\ MAXDIFF \in Nat \ {0}
  /\ CounterSize \in Nat \ {0}

AddrPredict ==
  [currentAddr     : Int,
   predictedAddr   : Int,
   predictedStride : Int,
   lastStride      : Int,
   lastAddr        : Int,
   missCount       : 0 .. CounterSize - 1]

\* A predictor after ThreadStart().
NewAddrPredict ==
  [currentAddr |-> 0, predictedAddr |-> 0, predictedStride |-> 0,
   lastStride |-> 0, lastAddr |-> 0, missCount |-> 0]

LearnedStride(stride) == IF -MAXDIFF < stride /\ stride < MAXDIFF THEN stride ELSE 0

\* The predictor after a miss at address a.
Missed(p, a, lastStride, predictedStride) ==
  [p EXCEPT !.missCount = (@ + 1) % CounterSize,
            !.lastAddr = a,
            !.lastStride = lastStride,
            !.predictedStride = predictedStride,
            !.predictedAddr = a + predictedStride]

\* Mutant of Check: lastAddr is updated on hits only.
CheckStale(p, a) ==
  LET stride == a - p.lastAddr
  IN  CASE a = p.predictedAddr      -> [p EXCEPT !.predictedAddr = @ + p.predictedStride,
                                                 !.lastAddr = a]
        [] a # p.predictedAddr /\ p.lastStride = stride
                                    -> [Missed(p, a, stride, stride) EXCEPT !.lastAddr = p.lastAddr]
        [] OTHER                    -> [Missed(p, a, LearnedStride(stride), p.predictedStride)
                                          EXCEPT !.lastAddr = p.lastAddr]

\* Mutant of Check: a miss that teaches the stride is not counted.
CheckUncounted(p, a) ==
  LET stride == a - p.lastAddr
  IN  CASE a = p.predictedAddr      -> [p EXCEPT !.predictedAddr = @ + p.predictedStride]
        [] a # p.predictedAddr /\ p.lastStride = stride
                                    -> [Missed(p, a, stride, stride) EXCEPT !.missCount = p.missCount]
        [] OTHER                    -> Missed(p, a, LearnedStride(stride), p.predictedStride)

\* A stride is predicted when two misses in a row have it.  A hit changes
\* neither lastAddr nor lastStride.
Check(p, a) ==
  LET stride == a - p.lastAddr
  IN  CASE a = p.predictedAddr      -> [p EXCEPT !.predictedAddr = @ + p.predictedStride]
        [] a # p.predictedAddr /\ p.lastStride = stride
                                    -> Missed(p, a, stride, stride)
        [] OTHER                    -> Missed(p, a, LearnedStride(stride), p.predictedStride)

(***************************************************************************)
(* Whatever a predictor has seen before, of an access that goes on from a  *)
(* with stride s it misses three addresses at most, and predicts all from  *)
(* the fifth on.                                                           *)
(***************************************************************************)
Learns(p, a, s) ==
  LET p1 == Check(p, a)
      p2 == Check(p1, a + s)
      p3 == Check(p2, a + 2 * s)
      p4 == Check(p3, a + 3 * s)
  IN  /\ p4.predictedAddr = a + 4 * s
      /\ p4.predictedStride = s
      /\ \/ p.predictedAddr = a
         \/ p3.predictedAddr = a + 3 * s
=============================================================================
