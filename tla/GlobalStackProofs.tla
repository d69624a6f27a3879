------------------------- MODULE GlobalStackProofs --------------------------
(***************************************************************************)
(* The global stack simulation is correct for every set of blocks and      *)
(* every vector of bucket minima.                                          *)
(***************************************************************************)
EXTENDS GlobalStack, CacheSimProofs, FunctionTheorems

(***************************************************************************)
(* The inductive invariant.  None of the checked invariants is inductive   *)
(* alone: a marker is right after the next access only if it, the buckets  *)
(* of the blocks and the activation of buckets were right before it.       *)
(***************************************************************************)
IInv ==
  /\ WellFormed(sim)
  /\ InStack(sim) = addrs
  /\ sim.aCount[InfBucket] = Len(sim.stack)

LEMMA InitIInv == Init => IInv
<1> SUFFICES ASSUME Init PROVE IInv
  OBVIOUS
<1>1. WellFormed(sim) /\ sim.stack = << >>
  BY NewCacheSimWellFormed DEF Init
<1>2. InStack(sim) = addrs
  BY <1>1 DEF Init, InStack
<1>3. sim.aCount[InfBucket] = 0
  BY MinsFacts DEF Init, NewCacheSim, Buckets
<1> QED
  BY <1>1, <1>2, <1>3 DEF IInv

LEMMA AccessNewIInv ==
  ASSUME IInv, NEW a \in Blocks, AccessNew(a)
  PROVE  IInv'
<1> DEFINE t == OnBlockNew(sim, a)
<1>1. WellFormed(sim) /\ a \notin InStack(sim) /\ sim.aCount[InfBucket] = Len(sim.stack)
  BY DEF IInv, AccessNew
<1>2. WellFormed(t) /\ Pushed(t, sim, a) /\ SameCounts(t, sim)
  BY <1>1, OnBlockNewCorrect
<1>3. sim' = IncrAccess(t, InfBucket) /\ addrs' = addrs \cup {a}
  BY DEF AccessNew
<1> HIDE DEF t
<1>4. InfBucket \in Buckets
  BY MinsFacts DEF Buckets
<1>5. /\ WellFormed(sim')
      /\ sim'.stack = t.stack
      /\ sim'.aCount = [t.aCount EXCEPT ![InfBucket] = t.aCount[InfBucket] + 1]
  BY <1>2, <1>3, <1>4, IncrAccessEffect
<1>6. InStack(sim') = addrs'
  <2>1. InStack(sim') = InStack(t)
    BY <1>5 DEF InStack
  <2> QED
    BY <1>2, <1>3, <2>1 DEF Pushed, IInv
<1>7. sim'.aCount[InfBucket] = Len(sim'.stack)
  <2>1. t.aCount \in [Buckets -> Nat] /\ t.aCount = sim.aCount
    BY <1>2 DEF WellFormed, CacheSimType, SameCounts
  <2> QED
    BY <1>1, <1>2, <1>4, <1>5, <2>1 DEF Pushed
<1> QED
  BY <1>5, <1>6, <1>7 DEF IInv

LEMMA AccessSeenIInv ==
  ASSUME IInv, NEW a \in Blocks, AccessSeen(a)
  PROVE  IInv'
<1> DEFINE t == OnBlockSeen(sim, a)
           b == SeenBucket(sim, a)
<1>1. WellFormed(sim) /\ a \in InStack(sim) /\ sim.aCount[InfBucket] = Len(sim.stack)
  BY DEF IInv, AccessSeen
<1>2. /\ WellFormed(t) /\ Raised(t, sim, a) /\ SameCounts(t, sim)
      /\ InBucket(b, Position(sim, a) - 1)
  BY <1>1, OnBlockSeenCorrect
<1>3. sim' = IncrAccess(t, b) /\ addrs' = addrs
  BY DEF AccessSeen
<1> HIDE DEF t, b
<1>4. b \in Buckets /\ InfBucket \in Buckets /\ b # InfBucket
  BY <1>2, MinsFacts DEF Buckets, InBucket
<1>5. /\ WellFormed(sim')
      /\ sim'.stack = t.stack
      /\ sim'.aCount = [t.aCount EXCEPT ![b] = t.aCount[b] + 1]
  BY <1>2, <1>3, <1>4, IncrAccessEffect
<1>6. InStack(sim') = addrs'
  <2>1. InStack(sim') = InStack(t)
    BY <1>5 DEF InStack
  <2> QED
    BY <1>2, <1>3, <2>1 DEF Raised, IInv
<1>7. sim'.aCount[InfBucket] = Len(sim'.stack)
  <2>1. t.aCount \in [Buckets -> Nat] /\ t.aCount = sim.aCount
    BY <1>2 DEF WellFormed, CacheSimType, SameCounts
  <2> QED
    BY <1>1, <1>2, <1>4, <1>5, <2>1 DEF Raised
<1> QED
  BY <1>5, <1>6, <1>7 DEF IInv

THEOREM Invariant == Spec => []IInv
<1>1. Init => IInv
  BY InitIInv
<1>2. IInv /\ [Next]_vars => IInv'
  <2> SUFFICES ASSUME IInv, [Next]_vars PROVE IInv'
    OBVIOUS
  <2>1. ASSUME NEW a \in Blocks, AccessNew(a) PROVE IInv'
    BY <2>1, AccessNewIInv
  <2>2. ASSUME NEW a \in Blocks, AccessSeen(a) PROVE IInv'
    BY <2>2, AccessSeenIInv
  <2>3. CASE UNCHANGED vars
    BY <2>3 DEF vars, IInv
  <2> QED
    BY <2>1, <2>2, <2>3 DEF Next
<1> QED
  BY <1>1, <1>2, PTL DEF Spec

(***************************************************************************)
(* The checked invariants, for every instance.                             *)
(***************************************************************************)
THEOREM TypeCorrect == Spec => []TypeOK
<1>1. IInv => TypeOK
  <2> SUFFICES ASSUME IInv PROVE TypeOK
    OBVIOUS
  <2>1. sim \in CacheSimType /\ InStack(sim) = addrs
    BY DEF IInv, WellFormed
  <2>2. InStack(sim) \subseteq Blocks
    BY <2>1, StackFacts DEF InStack
  <2> QED
    BY <2>1, <2>2 DEF TypeOK
<1> QED
  BY <1>1, Invariant, PTL

THEOREM MarkersCorrect == Spec => []MarkersConsistent
<1>1. IInv => MarkersConsistent
  BY DEF IInv, WellFormed, MarkersConsistent
<1> QED
  BY <1>1, Invariant, PTL

THEOREM BlockBucketsCorrect == Spec => []BlockBucketsExact
<1>1. IInv => BlockBucketsExact
  BY DEF IInv, WellFormed, BlockBucketsExact
<1> QED
  BY <1>1, Invariant, PTL

THEOREM ColdMissesCorrect == Spec => []ColdMisses
<1>1. IInv => ColdMisses
  BY DEF IInv, WellFormed, ColdMisses
<1> QED
  BY <1>1, Invariant, PTL

-----------------------------------------------------------------------------
(***************************************************************************)
(* The refinement: the stack implements the reuse distance histogram.      *)
(***************************************************************************)

\* The bucket of the definition is the one InBucket describes.
LEMMA BucketOfIsInBucket ==
  ASSUME NEW b, NEW d \in Nat, InBucket(b, d)
  PROVE  RD!BucketOf(d) = b
<1>1. \A c \in 0 .. InfBucket - 1 :
        InBucket(c, d) <=> /\ Mins[c + 1] <= d
                           /\ c + 1 < InfBucket => d < Mins[c + 2]
  <2>1. \A c \in 0 .. InfBucket - 1 : (c + 1) + 1 = c + 2
    BY MinsFacts
  <2> QED
    BY <2>1 DEF InBucket, mins
<1>2. RD!Infinite = InfBucket
  BY DEF RD!Infinite, InfBucket, NumBuckets
<1>3. b \in 0 .. InfBucket - 1
  BY DEF InBucket
<1>4. \A c \in 0 .. InfBucket - 1 : InBucket(c, d) => c = b
  BY InBucketUnique
<1> QED
  BY <1>1, <1>2, <1>3, <1>4 DEF RD!BucketOf

\* A pushed block comes to lie above every other one.
LEMMA AbovePushed ==
  ASSUME NEW s, NEW t, WellFormed(s), WellFormed(t),
         NEW a \in Blocks, a \notin InStack(s), Pushed(t, s, a)
  PROVE  /\ Above(t, a) = {}
         /\ \A x \in InStack(s) : Above(t, x) = Above(s, x) \cup {a}
<1>1. /\ s \in CacheSimType /\ t \in CacheSimType /\ NoDuplicates(s) /\ NoDuplicates(t)
      /\ DOMAIN t.stack = 1 .. Len(s.stack) + 1 /\ Len(s.stack) \in Nat
      /\ t.stack[1] = a
      /\ \A i \in 1 .. Len(s.stack) : t.stack[i + 1] = s.stack[i]
  BY StackFacts DEF WellFormed, Pushed
<1>2. Position(t, a) = 1
  BY <1>1, PositionUnique
<1>3. ASSUME NEW x \in InStack(s)
      PROVE  Above(t, x) = Above(s, x) \cup {a}
  <2> DEFINE p == Position(s, x)
  <2>1. p \in 1 .. Len(s.stack) /\ s.stack[p] = x
    BY <1>1, PositionFacts
  <2>2. p + 1 \in DOMAIN t.stack /\ t.stack[p + 1] = x
    BY <1>1, <2>1
  <2>3. Position(t, x) = p + 1
    BY <1>1, <2>2, PositionUnique
  <2> HIDE DEF p
  <2>4. ASSUME NEW y \in {t.stack[i] : i \in 1 .. (p + 1) - 1}
        PROVE  y \in {s.stack[i] : i \in 1 .. p - 1} \cup {a}
    <3>1. PICK i \in 1 .. p : y = t.stack[i]
      BY <2>1
    <3>2. CASE i = 1
      BY <1>1, <3>1, <3>2
    <3>3. CASE i # 1
      <4>1. i - 1 \in 1 .. p - 1 /\ i - 1 \in 1 .. Len(s.stack) /\ (i - 1) + 1 = i
        BY <1>1, <2>1, <3>3
      <4>2. y = s.stack[i - 1]
        BY <1>1, <3>1, <4>1
      <4> QED
        BY <4>1, <4>2
    <3> QED
      BY <3>2, <3>3
  <2>5. ASSUME NEW y \in {s.stack[i] : i \in 1 .. p - 1} \cup {a}
        PROVE  y \in {t.stack[i] : i \in 1 .. (p + 1) - 1}
    <3>1. CASE y = a
      BY <1>1, <2>1, <3>1
    <3>2. CASE y # a
      <4>1. PICK i \in 1 .. p - 1 : y = s.stack[i]
        BY <3>2
      <4>2. i \in 1 .. Len(s.stack) /\ i + 1 \in 1 .. (p + 1) - 1 /\ y = t.stack[i + 1]
        BY <1>1, <2>1, <4>1
      <4> QED
        BY <4>2
    <3> QED
      BY <3>1, <3>2
  <2>6. {t.stack[i] : i \in 1 .. (p + 1) - 1} = {s.stack[i] : i \in 1 .. p - 1} \cup {a}
    BY <2>4, <2>5
  <2> QED
    BY <2>3, <2>6 DEF Above, p
<1>4. Above(t, a) = {}
  BY <1>2 DEF Above
<1> QED
  BY <1>3, <1>4

\* So does a raised block; what was below it keeps the set of blocks above.
LEMMA AboveRaised ==
  ASSUME NEW s, NEW t, WellFormed(s), WellFormed(t),
         NEW a \in InStack(s), Raised(t, s, a)
  PROVE  /\ Above(t, a) = {}
         /\ \A x \in InStack(s) \ {a} : Above(t, x) = Above(s, x) \cup {a}
<1> DEFINE q == Position(s, a)
           L == Len(s.stack)
<1>1. /\ s \in CacheSimType /\ t \in CacheSimType /\ NoDuplicates(s) /\ NoDuplicates(t)
      /\ DOMAIN t.stack = 1 .. L /\ DOMAIN s.stack = 1 .. L /\ L \in Nat
      /\ t.stack[1] = a
      /\ \A i \in 1 .. q - 1 : t.stack[i + 1] = s.stack[i]
      /\ \A i \in q + 1 .. L : t.stack[i] = s.stack[i]
      /\ q \in 1 .. L /\ s.stack[q] = a
  BY StackFacts, PositionFacts DEF WellFormed, Raised
<1>2. Position(t, a) = 1
  BY <1>1, PositionUnique
<1> HIDE DEF q
<1>3. ASSUME NEW x \in InStack(s) \ {a}
      PROVE  Above(t, x) = Above(s, x) \cup {a}
  <2> DEFINE p == Position(s, x)
             above == {s.stack[i] : i \in 1 .. p - 1}
  <2>1. p \in 1 .. L /\ s.stack[p] = x /\ p # q
    BY <1>1, PositionFacts
  <2>2. CASE p < q
    <3>1. p + 1 \in DOMAIN t.stack /\ t.stack[p + 1] = x
      BY <1>1, <2>1, <2>2
    <3>2. Position(t, x) = p + 1
      BY <1>1, <3>1, PositionUnique
    <3> HIDE DEF p
    <3>3. ASSUME NEW y \in {t.stack[i] : i \in 1 .. (p + 1) - 1}
          PROVE  y \in above \cup {a}
      <4>1. PICK i \in 1 .. p : y = t.stack[i]
        BY <2>1
      <4>2. CASE i = 1
        BY <1>1, <4>1, <4>2
      <4>3. CASE i # 1
        <5>1. i - 1 \in 1 .. p - 1 /\ i - 1 \in 1 .. q - 1 /\ (i - 1) + 1 = i
          BY <1>1, <2>1, <2>2, <4>3
        <5>2. y = s.stack[i - 1]
          BY <1>1, <4>1, <5>1
        <5> QED
          BY <5>1, <5>2
      <4> QED
        BY <4>2, <4>3
    <3>4. ASSUME NEW y \in above \cup {a}
          PROVE  y \in {t.stack[i] : i \in 1 .. (p + 1) - 1}
      <4>1. CASE y = a
        BY <1>1, <2>1, <4>1
      <4>2. CASE y # a
        <5>1. PICK i \in 1 .. p - 1 : y = s.stack[i]
          BY <4>2
        <5>2. i + 1 \in 1 .. (p + 1) - 1 /\ y = t.stack[i + 1]
          BY <1>1, <2>1, <2>2, <5>1
        <5> QED
          BY <5>2
      <4> QED
        BY <4>1, <4>2
    <3>5. {t.stack[i] : i \in 1 .. (p + 1) - 1} = above \cup {a}
      BY <3>3, <3>4
    <3> QED
      BY <3>2, <3>5 DEF Above, p
  <2>3. CASE p > q
    <3>1. p \in DOMAIN t.stack /\ t.stack[p] = x
      BY <1>1, <2>1, <2>3
    <3>2. Position(t, x) = p
      BY <1>1, <3>1, PositionUnique
    <3> HIDE DEF p
    <3>3. ASSUME NEW y \in {t.stack[i] : i \in 1 .. p - 1}
          PROVE  y \in above \cup {a}
      <4>1. PICK i \in 1 .. p - 1 : y = t.stack[i]
        OBVIOUS
      <4>2. CASE i = 1
        BY <1>1, <4>1, <4>2
      <4>3. CASE i # 1 /\ i <= q
        <5>1. i - 1 \in 1 .. p - 1 /\ i - 1 \in 1 .. q - 1 /\ (i - 1) + 1 = i
          BY <1>1, <2>1, <2>3, <4>3
        <5>2. y = s.stack[i - 1]
          BY <1>1, <4>1, <5>1
        <5> QED
          BY <5>1, <5>2
      <4>4. CASE i > q
        <5>1. y = s.stack[i]
          BY <1>1, <2>1, <4>1, <4>4
        <5> QED
          BY <5>1
      <4> QED
        BY <1>1, <2>1, <4>2, <4>3, <4>4
    <3>4. ASSUME NEW y \in above \cup {a}
          PROVE  y \in {t.stack[i] : i \in 1 .. p - 1}
      <4>1. CASE y = a
        BY <1>1, <2>1, <2>3, <4>1
      <4>2. CASE y # a
        <5>1. PICK i \in 1 .. p - 1 : y = s.stack[i]
          BY <4>2
        <5>2. CASE i < q
          <6>1. i + 1 \in 1 .. p - 1 /\ y = t.stack[i + 1]
            BY <1>1, <2>1, <2>3, <5>1, <5>2
          <6> QED
            BY <6>1
        <5>3. CASE i > q
          <6>1. y = t.stack[i]
            BY <1>1, <2>1, <5>1, <5>3
          <6> QED
            BY <6>1
        <5> QED
          BY <1>1, <2>1, <4>2, <5>1, <5>2, <5>3
      <4> QED
        BY <4>1, <4>2
    <3>5. {t.stack[i] : i \in 1 .. p - 1} = above \cup {a}
      BY <3>3, <3>4
    <3> QED
      BY <3>2, <3>5 DEF Above, p
  <2> QED
    BY <1>1, <2>1, <2>2, <2>3
<1>4. Above(t, a) = {}
  BY <1>2 DEF Above
<1> QED
  BY <1>3, <1>4

\* Above and Position depend on the stack only.
LEMMA SameStack ==
  ASSUME NEW s, NEW t, s.stack = t.stack
  PROVE  /\ InStack(s) = InStack(t)
         /\ \A x : Above(s, x) = Above(t, x)
BY DEF InStack, Above, Position

LEMMA AccessNewRefines ==
  ASSUME IInv, NEW a \in Blocks, AccessNew(a)
  PROVE  RD!ColdAccess(a)
<1> DEFINE t == OnBlockNew(sim, a)
<1>1. WellFormed(sim) /\ a \notin InStack(sim) /\ InStack(sim) = addrs
  BY DEF IInv, AccessNew
<1>2. WellFormed(t) /\ Pushed(t, sim, a) /\ SameCounts(t, sim)
  BY <1>1, OnBlockNewCorrect
<1>3. sim' = IncrAccess(t, InfBucket) /\ addrs' = addrs \cup {a}
  BY DEF AccessNew
<1> HIDE DEF t
<1>4. InfBucket \in Buckets /\ RD!Infinite = InfBucket
  BY MinsFacts DEF Buckets, RD!Infinite, InfBucket, NumBuckets
<1>5. /\ sim'.stack = t.stack
      /\ sim'.aCount = [sim.aCount EXCEPT ![InfBucket] = @ + 1]
  BY <1>2, <1>3, <1>4, IncrAccessEffect DEF SameCounts
<1>6. /\ Above(sim', a) = {}
      /\ \A x \in addrs : Above(sim', x) = Above(sim, x) \cup {a}
  BY <1>1, <1>2, <1>5, AbovePushed, SameStack
<1>7. Since' = [x \in Blocks |-> IF x \in addrs \ {a} THEN Since[x] \cup {a} ELSE {}]
  BY <1>1, <1>3, <1>6 DEF Since
<1> QED
  BY <1>1, <1>3, <1>4, <1>5, <1>7 DEF RD!ColdAccess, RD!Touch

LEMMA AccessSeenRefines ==
  ASSUME IInv, NEW a \in Blocks, AccessSeen(a)
  PROVE  RD!Reuse(a)
<1> DEFINE t == OnBlockSeen(sim, a)
           b == SeenBucket(sim, a)
           d == Position(sim, a) - 1
<1>1. WellFormed(sim) /\ a \in InStack(sim) /\ InStack(sim) = addrs
  BY DEF IInv, AccessSeen
<1>2. /\ WellFormed(t) /\ Raised(t, sim, a) /\ SameCounts(t, sim)
      /\ InBucket(b, d)
  BY <1>1, OnBlockSeenCorrect
<1>3. sim' = IncrAccess(t, b) /\ addrs' = addrs
  BY DEF AccessSeen
<1>4. d \in Nat /\ Cardinality(Above(sim, a)) = d
  BY <1>1, StackFacts, PositionFacts, DepthIsDistance DEF WellFormed
<1> HIDE DEF t, b, d
<1>5. b \in Buckets
  BY <1>2, MinsFacts DEF Buckets, InBucket
<1>6. /\ sim'.stack = t.stack
      /\ sim'.aCount = [sim.aCount EXCEPT ![b] = @ + 1]
  BY <1>2, <1>3, <1>5, IncrAccessEffect DEF SameCounts
<1>7. /\ Above(sim', a) = {}
      /\ \A x \in addrs \ {a} : Above(sim', x) = Above(sim, x) \cup {a}
  BY <1>1, <1>2, <1>6, AboveRaised, SameStack
<1>8. Since' = [x \in Blocks |-> IF x \in addrs \ {a} THEN Since[x] \cup {a} ELSE {}]
  BY <1>1, <1>3, <1>7 DEF Since
<1>9. RD!BucketOf(RD!Distance(a)) = b
  <2>1. Since[a] = Above(sim, a)
    BY <1>1 DEF Since
  <2>2. RD!Distance(a) = d
    BY <1>4, <2>1 DEF RD!Distance, RD!Cardinality, Cardinality
  <2> QED
    BY <1>2, <1>4, <2>2, BucketOfIsInBucket
<1>10. addrs' = addrs \cup {a}
  BY <1>1, <1>3
<1> QED
  BY <1>1, <1>6, <1>8, <1>9, <1>10 DEF RD!Reuse, RD!Touch

(***************************************************************************)
(* Every access is counted in the bucket of its reuse distance.            *)
(***************************************************************************)
THEOREM Refinement == Spec => CountsReuseDistances
<1>1. Init => RD!Init
  <2> SUFFICES ASSUME Init PROVE RD!Init
    OBVIOUS
  <2>1. Since = [a \in Blocks |-> {}]
    BY DEF Since, Init
  <2>2. sim.aCount = [b \in 0 .. RD!Infinite |-> 0]
    BY DEF Init, NewCacheSim, Buckets, InfBucket, NumBuckets, RD!Infinite
  <2> QED
    BY <2>1, <2>2 DEF Init, RD!Init
<1>2. IInv /\ [Next]_vars => [RD!Next]_RD!vars
  <2> SUFFICES ASSUME IInv, [Next]_vars PROVE [RD!Next]_RD!vars
    OBVIOUS
  <2>1. ASSUME NEW a \in Blocks, AccessNew(a) PROVE RD!Next
    BY <2>1, AccessNewRefines DEF RD!Next
  <2>2. ASSUME NEW a \in Blocks, AccessSeen(a) PROVE RD!Next
    BY <2>2, AccessSeenRefines DEF RD!Next
  <2>3. CASE UNCHANGED vars
    BY <2>3 DEF vars, RD!vars, Since
  <2> QED
    BY <2>1, <2>2, <2>3 DEF Next
<1> QED
  BY <1>1, <1>2, Invariant, PTL DEF Spec, CountsReuseDistances, RD!Spec
=============================================================================
