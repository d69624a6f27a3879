--------------------------- MODULE CacheSimProofs ---------------------------
(***************************************************************************)
(* What the methods of CacheSim do to a well-formed object, for every set  *)
(* of blocks and every vector of bucket minima main() can build.           *)
(***************************************************************************)
EXTENDS CacheSim, FiniteSetTheorems, SequenceTheorems, TLAPS

LEMMA MinsFacts ==
  /\ InfBucket \in Nat /\ InfBucket >= 1
  /\ NumBuckets = InfBucket + 1
  /\ \A b \in Buckets : mins(b) \in Nat
  /\ mins(0) = 0
  /\ mins(InfBucket) = 0
  /\ \A b, c \in 0 .. InfBucket - 1 : b < c => mins(b) < mins(c)
<1>1. Len(Mins) \in Nat /\ Len(Mins) >= 2
  BY MinsAssumption, LenProperties
<1>2. \A b \in Buckets : mins(b) \in Nat
  BY <1>1, MinsAssumption, ElementOfSeq DEF Buckets, InfBucket, NumBuckets, mins
<1> QED
  BY <1>1, <1>2, MinsAssumption DEF InfBucket, NumBuckets, BUCKET_INF_DIST

\* The position of a block on a stack without duplicates.
LEMMA PositionUnique ==
  ASSUME NEW s, NoDuplicates(s), NEW i \in DOMAIN s.stack
  PROVE  Position(s, s.stack[i]) = i
BY DEF NoDuplicates, Position

(***************************************************************************)
(* The type of an object halfway through a method: markers and stack may   *)
(* disagree, so nothing bounds the buckets yet.                            *)
(***************************************************************************)
LooseType ==
  [ next_bucket : Nat,
    complement  : Nat,
    ds_nums     : Seq(Nat),
    stack       : Seq(Blocks),
    bucket      : [Blocks -> Nat],
    marker      : [Buckets -> Blocks \cup {Singular}],
    aCount      : [Buckets -> Nat],
    aCount_excl : [Buckets -> Nat] ]

\* The methods that move blocks leave everything else alone.
SameCounts(t, s) ==
  /\ t.complement = s.complement
  /\ t.ds_nums = s.ds_nums
  /\ t.aCount = s.aCount
  /\ t.aCount_excl = s.aCount_excl

LEMMA TypeFromLoose ==
  ASSUME NEW s
  PROVE  s \in CacheSimType <=> /\ s \in LooseType
                                /\ s.next_bucket \in 1 .. InfBucket
                                /\ s.bucket \in [Blocks -> Buckets]
<1>1. /\ \A n \in 1 .. InfBucket : n \in Nat
      /\ \A f \in [Blocks -> Buckets] : f \in [Blocks -> Nat]
  BY MinsFacts DEF Buckets
<1>2. s \in CacheSimType => s \in LooseType
  BY <1>1 DEF CacheSimType, LooseType
<1>3. s \in CacheSimType => /\ s.next_bucket \in 1 .. InfBucket
                            /\ s.bucket \in [Blocks -> Buckets]
  BY DEF CacheSimType
<1>4. ASSUME s \in LooseType, s.next_bucket \in 1 .. InfBucket,
             s.bucket \in [Blocks -> Buckets]
      PROVE  s \in CacheSimType
  BY <1>4 DEF CacheSimType, LooseType
<1> QED
  BY <1>2, <1>3, <1>4

\* Where the markers are before, and what has moved after.
MarkersAt(s, top, P) ==
  /\ P \in [1 .. top -> 2 .. Len(s.stack)]
  /\ \A b \in 1 .. top : s.marker[b] = s.stack[P[b]]
  /\ \A b, c \in 1 .. top : P[b] = P[c] => b = c

MovedUp(m, s, top, P) ==
  /\ m \in LooseType /\ SameCounts(m, s)
  /\ m.next_bucket = s.next_bucket /\ m.stack = s.stack
  /\ \A b \in 1 .. top : m.marker[b] = s.stack[P[b] - 1]
  /\ \A b \in Buckets \ (1 .. top) : m.marker[b] = s.marker[b]
  /\ \A b \in 1 .. top :
       m.bucket[s.stack[P[b] - 1]] = s.bucket[s.stack[P[b] - 1]] + 1
  /\ \A a \in Blocks :
       (\A b \in 1 .. top : a # s.stack[P[b] - 1]) => m.bucket[a] = s.bucket[a]

(***************************************************************************)
(* MoveMarkers when marker b is at position P[b], below the top: the block *)
(* above each marker, and no other block, moves to the next bucket.        *)
(***************************************************************************)
LEMMA MoveMarkersEffect ==
  ASSUME NEW s \in CacheSimType, NoDuplicates(s),
         NEW top \in 0 .. InfBucket - 1, NEW P, MarkersAt(s, top, P)
  PROVE  MovedUp(MoveMarkers(s, top), s, top, P)
<1> DEFINE m == MoveMarkers(s, top)
           to == Decremented(s, top)
           hits(a) == {b \in 1 .. top : to[b] = a}
<1>0. /\ P \in [1 .. top -> 2 .. Len(s.stack)]
      /\ \A b \in 1 .. top : s.marker[b] = s.stack[P[b]]
      /\ \A b, c \in 1 .. top : P[b] = P[c] => b = c
  BY DEF MarkersAt
<1>1. s.stack \in Seq(Blocks) /\ Len(s.stack) \in Nat /\ DOMAIN s.stack = 1 .. Len(s.stack)
  BY LenProperties DEF CacheSimType
<1>2. 1 .. top \subseteq Buckets
  BY MinsFacts DEF Buckets
<1>3. \A b \in 1 .. top : to[b] = s.stack[P[b] - 1]
  <2> SUFFICES ASSUME NEW b \in 1 .. top PROVE to[b] = s.stack[P[b] - 1]
    OBVIOUS
  <2>1. P[b] \in DOMAIN s.stack
    BY <1>0, <1>1
  <2>2. Position(s, s.marker[b]) = P[b]
    BY <1>0, <2>1, PositionUnique
  <2> QED
    BY <1>2, <2>2 DEF Decremented, Prev
<1>4. \A b \in Buckets \ (1 .. top) : to[b] = s.marker[b]
  BY DEF Decremented
<1>5. to \in [Buckets -> Blocks \cup {Singular}]
  <2>1. \A b \in 1 .. top : s.stack[P[b] - 1] \in Blocks
    BY <1>0, <1>1, ElementOfSeq
  <2>2. s.marker \in [Buckets -> Blocks \cup {Singular}]
    BY DEF CacheSimType
  <2>3. \A b \in Buckets : to[b] \in Blocks \cup {Singular}
    BY <1>3, <1>4, <2>1, <2>2
  <2> QED
    BY <2>3 DEF Decremented
<1>6. /\ m = [s EXCEPT !.marker = to, !.bucket = m.bucket]
      /\ m.marker = to
      /\ m.bucket = [a \in Blocks |-> s.bucket[a] + Cardinality(hits(a))]
      /\ SameCounts(m, s)
      /\ m.next_bucket = s.next_bucket /\ m.stack = s.stack
  BY DEF MoveMarkers, CacheSimType, SameCounts
<1> HIDE DEF m, to, hits
<1>7. \A b \in 1 .. top : s.stack[P[b] - 1] \in Blocks /\ hits(s.stack[P[b] - 1]) = {b}
  <2> SUFFICES ASSUME NEW b \in 1 .. top
               PROVE  s.stack[P[b] - 1] \in Blocks /\ hits(s.stack[P[b] - 1]) = {b}
    OBVIOUS
  <2>1. s.stack[P[b] - 1] \in Blocks
    BY <1>0, <1>1, ElementOfSeq
  <2>2. \A c \in 1 .. top : s.stack[P[c] - 1] = s.stack[P[b] - 1] => c = b
    <3> SUFFICES ASSUME NEW c \in 1 .. top, s.stack[P[c] - 1] = s.stack[P[b] - 1]
                 PROVE  c = b
      OBVIOUS
    <3>1. /\ P[c] \in 2 .. Len(s.stack) /\ P[b] \in 2 .. Len(s.stack)
          /\ P[c] - 1 \in DOMAIN s.stack /\ P[b] - 1 \in DOMAIN s.stack
      <4>1. P[c] \in 2 .. Len(s.stack) /\ P[b] \in 2 .. Len(s.stack)
        BY <1>0
      <4> QED
        BY <1>1, <4>1
    <3>2. P[c] - 1 = P[b] - 1
      BY <3>1 DEF NoDuplicates
    <3> QED
      BY <1>0, <3>1, <3>2
  <2> QED
    BY <1>3, <2>1, <2>2 DEF hits
<1>8. \A b \in 1 .. top :
        m.bucket[s.stack[P[b] - 1]] = s.bucket[s.stack[P[b] - 1]] + 1
  <2> SUFFICES ASSUME NEW b \in 1 .. top
               PROVE  m.bucket[s.stack[P[b] - 1]] = s.bucket[s.stack[P[b] - 1]] + 1
    OBVIOUS
  <2> DEFINE a == s.stack[P[b] - 1]
  <2>1. a \in Blocks /\ hits(a) = {b}
    BY <1>7
  <2>2. Cardinality(hits(a)) = 1
    BY <2>1, FS_Singleton
  <2>3. m.bucket[a] = s.bucket[a] + Cardinality(hits(a))
    BY <1>6, <2>1
  <2> QED
    BY <2>2, <2>3
<1>9. \A a \in Blocks :
        (\A b \in 1 .. top : a # s.stack[P[b] - 1]) => m.bucket[a] = s.bucket[a]
  <2> SUFFICES ASSUME NEW a \in Blocks, \A b \in 1 .. top : a # s.stack[P[b] - 1]
               PROVE  m.bucket[a] = s.bucket[a]
    OBVIOUS
  <2>1. hits(a) = {}
    <3>1. \A b \in 1 .. top : to[b] # a
      BY <1>3
    <3> QED
      BY <3>1 DEF hits
  <2>2. s.bucket[a] \in Nat
    BY MinsFacts DEF CacheSimType, Buckets
  <2>3. Cardinality(hits(a)) = 0
    BY <2>1, FS_EmptySet
  <2>4. m.bucket[a] = s.bucket[a] + Cardinality(hits(a))
    BY <1>6
  <2> QED
    BY <2>2, <2>3, <2>4
<1>10. m \in LooseType
  <2>1. m.bucket \in [Blocks -> Nat]
    <3>1. \A a \in Blocks : Cardinality(hits(a)) \in Nat
      <4>1. \A a : IsFiniteSet(hits(a))
        BY FS_Interval, FS_Subset DEF hits
      <4> QED
        BY <4>1, FS_CardinalityType
    <3>2. s.bucket \in [Blocks -> Nat]
      BY MinsFacts DEF CacheSimType, Buckets
    <3> QED
      BY <1>6, <3>1, <3>2
  <2>2. s \in LooseType
    BY TypeFromLoose
  <2> QED
    BY <1>5, <1>6, <2>1, <2>2 DEF LooseType
<1> QED
  BY <1>3, <1>4, <1>6, <1>8, <1>9, <1>10 DEF m, MovedUp

-----------------------------------------------------------------------------
(***************************************************************************)
(* The bucket of a distance: it is unique, and when the distance grows by  *)
(* one the bucket changes exactly if a bucket starts at the new distance.  *)
(***************************************************************************)
LEMMA InBucketUnique ==
  ASSUME NEW b, NEW c, NEW d \in Nat, InBucket(b, d), InBucket(c, d)
  PROVE  b = c
<1>1. b \in 0 .. InfBucket - 1 /\ c \in 0 .. InfBucket - 1
  BY DEF InBucket
<1>2. CASE b < c
  <2>1. b + 1 < InfBucket /\ d < mins(b + 1)
    BY <1>1, <1>2, MinsFacts DEF InBucket
  <2>2. mins(b + 1) <= mins(c)
    BY <1>1, <1>2, MinsFacts DEF Buckets
  <2>3. mins(c) \in Nat /\ mins(b + 1) \in Nat /\ mins(c) <= d
    BY <1>1, <2>1, MinsFacts DEF Buckets, InBucket
  <2> QED
    BY <2>1, <2>2, <2>3
<1>3. CASE c < b
  <2>1. c + 1 < InfBucket /\ d < mins(c + 1)
    BY <1>1, <1>3, MinsFacts DEF InBucket
  <2>2. mins(c + 1) <= mins(b)
    BY <1>1, <1>3, MinsFacts DEF Buckets
  <2>3. mins(b) \in Nat /\ mins(c + 1) \in Nat /\ mins(b) <= d
    BY <1>1, <2>1, MinsFacts DEF Buckets, InBucket
  <2> QED
    BY <2>1, <2>2, <2>3
<1> QED
  BY <1>1, <1>2, <1>3, MinsFacts

LEMMA InBucketStep ==
  ASSUME NEW c, NEW d \in Nat, InBucket(c, d)
  PROVE  /\ \A b \in 1 .. InfBucket - 1 :
              mins(b) = d + 1 => b = c + 1 /\ InBucket(b, d + 1)
         /\ (\A b \in 1 .. InfBucket - 1 : mins(b) # d + 1) => InBucket(c, d + 1)
<1>1. c \in 0 .. InfBucket - 1 /\ mins(c) \in Nat /\ mins(c) <= d
  BY MinsFacts DEF InBucket, Buckets
<1>2. ASSUME NEW b \in 1 .. InfBucket - 1, mins(b) = d + 1
      PROVE  b = c + 1 /\ InBucket(b, d + 1)
  <2>1. InBucket(b, d + 1)
    <3>1. b + 1 < InfBucket => mins(b) < mins(b + 1)
      BY MinsFacts
    <3> QED
      BY <1>2, <3>1, MinsFacts DEF InBucket
  <2>2. ~(b <= c)
    <3>1. b <= c => mins(b) <= mins(c)
      BY <1>1, <1>2, MinsFacts DEF Buckets
    <3> QED
      BY <1>1, <1>2, <3>1
  <2>3. ~(c + 1 < b)
    <3>1. c + 1 < b => mins(c + 1) \in Nat /\ mins(c + 1) < d + 1 /\ d < mins(c + 1)
      BY <1>1, <1>2, MinsFacts DEF Buckets, InBucket
    <3> QED
      BY <3>1
  <2> QED
    BY <1>1, <2>1, <2>2, <2>3, MinsFacts
<1>3. ASSUME \A b \in 1 .. InfBucket - 1 : mins(b) # d + 1
      PROVE  InBucket(c, d + 1)
  <2>1. c + 1 < InfBucket => mins(c + 1) \in Nat /\ d < mins(c + 1) /\ mins(c + 1) # d + 1
    BY <1>1, <1>3, MinsFacts DEF Buckets, InBucket
  <2> QED
    BY <1>1, <2>1, MinsFacts DEF InBucket
<1> QED
  BY <1>2, <1>3

\* Only the top of the stack is in reach of bucket 0's minimum.
LEMMA InBucketZero == InBucket(0, 0)
<1>1. 1 < InfBucket => 0 < mins(1)
  BY MinsFacts
<1> QED
  BY <1>1, MinsFacts DEF InBucket

LEMMA MinsPositive == \A b \in 1 .. InfBucket - 1 : mins(b) \in Nat /\ mins(b) >= 1
BY MinsFacts DEF Buckets

-----------------------------------------------------------------------------
\* A fresh object is well formed.
LEMMA NewCacheSimWellFormed ==
  ASSUME NEW c \in Nat
  PROVE  WellFormed(NewCacheSim(c)) /\ NewCacheSim(c).stack = << >>
<1> DEFINE s == NewCacheSim(c)
<1>1. s \in CacheSimType
  BY MinsFacts DEF NewCacheSim, CacheSimType, Buckets
<1>2. s.stack = << >> /\ s.next_bucket = 1
  BY DEF NewCacheSim
<1>3. NoDuplicates(s) /\ BucketsMatchDepth(s)
  BY <1>2 DEF NoDuplicates, BucketsMatchDepth
<1>4. ActiveBuckets(s) /\ MarkersAtMins(s)
  BY <1>2, MinsPositive DEF ActiveBuckets, MarkersAtMins
<1> QED
  BY <1>1, <1>2, <1>3, <1>4 DEF WellFormed

LEMMA StackFacts ==
  ASSUME NEW s \in CacheSimType
  PROVE  /\ s.stack \in Seq(Blocks)
         /\ Len(s.stack) \in Nat
         /\ DOMAIN s.stack = 1 .. Len(s.stack)
         /\ \A i \in 1 .. Len(s.stack) : s.stack[i] \in Blocks
BY LenProperties, ElementOfSeq DEF CacheSimType

\* push_front: the block is on top, every other block is one deeper.
LEMMA PushFrontEffect ==
  ASSUME NEW s \in CacheSimType, NoDuplicates(s),
         NEW a \in Blocks, a \notin InStack(s)
  PROVE  LET n == PushFront(s, a)
         IN  /\ n \in CacheSimType /\ SameCounts(n, s)
             /\ n.next_bucket = s.next_bucket /\ n.marker = s.marker
             /\ NoDuplicates(n)
             /\ Len(n.stack) = Len(s.stack) + 1
             /\ n.stack[1] = a
             /\ \A i \in 1 .. Len(s.stack) : n.stack[i + 1] = s.stack[i]
             /\ n.bucket = [s.bucket EXCEPT ![a] = 0]
             /\ InStack(n) = InStack(s) \cup {a}
<1> DEFINE n == PushFront(s, a)
<1>1. n.stack = <<a>> \o s.stack /\ n.bucket = [s.bucket EXCEPT ![a] = 0]
  BY DEF PushFront, CacheSimType
<1>2. /\ n = [s EXCEPT !.stack = n.stack, !.bucket = n.bucket]
      /\ SameCounts(n, s)
      /\ n.next_bucket = s.next_bucket /\ n.marker = s.marker
  BY DEF PushFront, CacheSimType, SameCounts
<1> HIDE DEF n
<1>3. <<a>> \in Seq(Blocks) /\ Len(<<a>>) = 1 /\ <<a>>[1] = a
  OBVIOUS
<1>4. /\ n.stack \in Seq(Blocks)
      /\ Len(n.stack) = Len(s.stack) + 1
      /\ \A i \in 1 .. Len(s.stack) + 1 :
           n.stack[i] = IF i <= 1 THEN a ELSE s.stack[i - 1]
  BY <1>1, <1>3, StackFacts, ConcatProperties
<1>5. n \in CacheSimType
  <2>1. n.bucket \in [Blocks -> Buckets]
    BY <1>1, MinsFacts DEF CacheSimType, Buckets
  <2> QED
    BY <1>2, <1>4, <2>1 DEF CacheSimType
<1>6. DOMAIN n.stack = 1 .. Len(s.stack) + 1
  BY <1>4, <1>5, StackFacts
<1>7. \A i \in 1 .. Len(s.stack) : n.stack[i + 1] = s.stack[i]
  BY <1>4, StackFacts
<1>8. NoDuplicates(n)
  <2>1. \A i \in 1 .. Len(s.stack) : s.stack[i] # a
    BY StackFacts DEF InStack
  <2>2. \A i, j \in 1 .. Len(s.stack) : s.stack[i] = s.stack[j] => i = j
    BY StackFacts DEF NoDuplicates
  <2> SUFFICES ASSUME NEW i \in 1 .. Len(s.stack) + 1, NEW j \in 1 .. Len(s.stack) + 1,
                      n.stack[i] = n.stack[j]
               PROVE  i = j
    BY <1>6 DEF NoDuplicates
  <2>3. CASE i = 1
    BY <1>4, <2>1, <2>3, StackFacts
  <2>4. CASE j = 1
    BY <1>4, <2>1, <2>4, StackFacts
  <2>5. CASE i # 1 /\ j # 1
    <3>1. i - 1 \in 1 .. Len(s.stack) /\ j - 1 \in 1 .. Len(s.stack)
      BY <2>5, StackFacts
    <3>2. n.stack[i] = s.stack[i - 1] /\ n.stack[j] = s.stack[j - 1]
      BY <1>4, <2>5, StackFacts
    <3>3. i - 1 = j - 1
      BY <2>2, <3>1, <3>2
    <3> QED
      BY <3>3, StackFacts
  <2> QED
    BY <2>3, <2>4, <2>5
<1>9. InStack(n) = InStack(s) \cup {a}
  <2>1. a \in InStack(n)
    BY <1>4, <1>6, StackFacts DEF InStack
  <2>2. \A i \in 1 .. Len(s.stack) : s.stack[i] \in InStack(n)
    BY <1>6, <1>7, StackFacts DEF InStack
  <2>3. \A i \in 1 .. Len(s.stack) + 1 : n.stack[i] = a \/ n.stack[i] \in InStack(s)
    BY <1>4, StackFacts DEF InStack
  <2> QED
    BY <1>6, <2>1, <2>2, <2>3, StackFacts DEF InStack
<1> QED
  BY <1>1, <1>2, <1>4, <1>5, <1>7, <1>8, <1>9, StackFacts DEF n

(***************************************************************************)
(* on_block_new up to move_markers: every marker is back at its minimum,   *)
(* and every block is in the bucket of its new depth, except the bottom    *)
(* block when it is the first that reaches the next bucket.                *)
(***************************************************************************)
LEMMA MovedAfterPush ==
  ASSUME NEW s, WellFormed(s), NEW a \in Blocks, a \notin InStack(s)
  PROVE  LET n == PushFront(s, a)
             m == MoveMarkers(n, s.next_bucket - 1)
         IN  /\ m \in LooseType /\ SameCounts(m, s)
             /\ m.next_bucket = s.next_bucket /\ m.stack = n.stack
             /\ \A b \in 1 .. s.next_bucket - 1 : m.marker[b] = n.stack[mins(b) + 1]
             /\ \A j \in 1 .. Len(n.stack) :
                  m.bucket[n.stack[j]] \in 0 .. s.next_bucket - 1
             /\ \A j \in 1 .. Len(n.stack) :
                  \/ InBucket(m.bucket[n.stack[j]], j - 1)
                  \/ /\ j = Len(n.stack)
                     /\ s.next_bucket < InfBucket
                     /\ mins(s.next_bucket) = j - 1
                     /\ m.bucket[n.stack[j]] + 1 = s.next_bucket
             /\ \A x \in Blocks \ InStack(n) : m.bucket[x] = s.bucket[x]
<1> DEFINE n == PushFront(s, a)
           L == Len(s.stack)
           top == s.next_bucket - 1
           m == MoveMarkers(n, top)
           P == [b \in 1 .. top |-> mins(b) + 2]
<1>1. /\ s \in CacheSimType /\ NoDuplicates(s)
      /\ ActiveBuckets(s) /\ MarkersAtMins(s) /\ BucketsMatchDepth(s)
  BY DEF WellFormed
<1>2. L \in Nat /\ s.next_bucket \in 1 .. InfBucket /\ top \in 0 .. InfBucket - 1
  BY <1>1, StackFacts, MinsFacts DEF CacheSimType
<1>3. /\ n \in CacheSimType /\ SameCounts(n, s)
      /\ n.next_bucket = s.next_bucket /\ n.marker = s.marker
      /\ NoDuplicates(n)
      /\ Len(n.stack) = L + 1
      /\ n.stack[1] = a
      /\ \A i \in 1 .. L : n.stack[i + 1] = s.stack[i]
      /\ n.bucket = [s.bucket EXCEPT ![a] = 0]
      /\ InStack(n) = InStack(s) \cup {a}
  BY <1>1, PushFrontEffect
<1> HIDE DEF n
<1>5. \A b \in 1 .. top : /\ mins(b) \in Nat /\ mins(b) >= 1 /\ mins(b) < L
                          /\ s.marker[b] = s.stack[mins(b) + 1]
  <2> SUFFICES ASSUME NEW b \in 1 .. top
               PROVE  /\ mins(b) \in Nat /\ mins(b) >= 1 /\ mins(b) < L
                      /\ s.marker[b] = s.stack[mins(b) + 1]
    OBVIOUS
  <2>1. mins(b) < L /\ s.marker[b] = s.stack[mins(b) + 1]
    BY <1>1 DEF MarkersAtMins
  <2>2. b \in 1 .. InfBucket - 1
    BY <1>2, MinsFacts
  <2> QED
    BY <2>1, <2>2, MinsPositive
<1>6. P \in [1 .. top -> 2 .. Len(n.stack)]
  BY <1>2, <1>3, <1>5
<1>7. \A b \in 1 .. top : n.marker[b] = n.stack[P[b]]
  <2> SUFFICES ASSUME NEW b \in 1 .. top PROVE n.marker[b] = n.stack[P[b]]
    OBVIOUS
  <2>1. mins(b) + 1 \in 1 .. L
    BY <1>2, <1>5
  <2>2. n.stack[(mins(b) + 1) + 1] = s.stack[mins(b) + 1]
    BY <1>3, <2>1
  <2>3. P[b] = (mins(b) + 1) + 1
    BY <1>5
  <2> QED
    BY <1>3, <1>5, <2>2, <2>3
<1>8. \A b, c \in 1 .. top : P[b] = P[c] => b = c
  <2> SUFFICES ASSUME NEW b \in 1 .. top, NEW c \in 1 .. top, P[b] = P[c]
               PROVE  b = c
    OBVIOUS
  <2>1. mins(b) = mins(c)
    BY <1>5
  <2> QED
    BY <1>2, <1>5, <2>1, MinsFacts
<1>9. \A b \in 1 .. top : P[b] - 1 = mins(b) + 1
  BY <1>5
<1> HIDE DEF P, top
<1>10. MovedUp(m, n, top, P)
  <2>1. MarkersAt(n, top, P)
    BY <1>6, <1>7, <1>8 DEF MarkersAt
  <2> QED
    BY <1>2, <1>3, <2>1, MoveMarkersEffect
<1> HIDE DEF m
<1>11. DOMAIN n.stack = 1 .. L + 1 /\ \A i \in 1 .. L + 1 : n.stack[i] \in Blocks
  BY <1>3, StackFacts
<1>12. \A j \in 1 .. L + 1 : \A b \in 1 .. top :
          n.stack[j] = n.stack[mins(b) + 1] <=> j = mins(b) + 1
  <2> SUFFICES ASSUME NEW j \in 1 .. L + 1, NEW b \in 1 .. top
               PROVE  n.stack[j] = n.stack[mins(b) + 1] <=> j = mins(b) + 1
    OBVIOUS
  <2>1. j \in DOMAIN n.stack /\ mins(b) + 1 \in DOMAIN n.stack
    BY <1>2, <1>5, <1>11
  <2> QED
    BY <1>3, <2>1 DEF NoDuplicates
<1>13. ASSUME NEW j \in 1 .. L + 1
       PROVE  /\ m.bucket[n.stack[j]] \in 0 .. s.next_bucket - 1
              /\ \/ InBucket(m.bucket[n.stack[j]], j - 1)
                 \/ /\ j = Len(n.stack)
                    /\ s.next_bucket < InfBucket
                    /\ mins(s.next_bucket) = j - 1
                    /\ m.bucket[n.stack[j]] + 1 = s.next_bucket
  <2>1. CASE j = 1
    <3>1. \A b \in 1 .. top : n.stack[j] # n.stack[P[b] - 1]
      BY <1>5, <1>9, <1>12, <2>1
    <3>2. n.bucket[n.stack[j]] = 0
      BY <1>1, <1>3, <2>1 DEF CacheSimType
    <3>3. m.bucket[n.stack[j]] = 0
      BY <1>10, <1>11, <3>1, <3>2 DEF MovedUp
    <3> QED
      BY <1>2, <2>1, <3>3, InBucketZero
  <2>2. CASE j # 1
    <3> DEFINE x == n.stack[j]
               c == s.bucket[x]
    <3>1. j - 1 \in 1 .. L /\ x = s.stack[j - 1] /\ x \in InStack(s) /\ x \in Blocks
      <4>1. j - 1 \in 1 .. L
        BY <1>2, <2>2
      <4>2. n.stack[(j - 1) + 1] = s.stack[j - 1]
        BY <1>3, <4>1
      <4> QED
        BY <1>1, <1>11, <4>1, <4>2, StackFacts DEF InStack
    <3>2. n.bucket[x] = c /\ c \in Buckets
      BY <1>1, <1>3, <3>1 DEF CacheSimType
    <3>3. j - 2 \in Nat /\ InBucket(c, j - 2)
      <4>1. InBucket(s.bucket[s.stack[j - 1]], (j - 1) - 1)
        BY <1>1, <3>1, StackFacts DEF BucketsMatchDepth
      <4> QED
        BY <1>2, <3>1, <4>1
    <3>4. /\ \A b \in 1 .. InfBucket - 1 : mins(b) = j - 1 => b = c + 1 /\ InBucket(b, j - 1)
          /\ (\A b \in 1 .. InfBucket - 1 : mins(b) # j - 1) => InBucket(c, j - 1)
      <4>1. (j - 2) + 1 = j - 1
        OBVIOUS
      <4> QED
        BY <3>3, <4>1, InBucketStep
    <3>c. c \in 0 .. s.next_bucket - 1
      <4>1. c \in 0 .. InfBucket - 1 /\ mins(c) \in Nat /\ mins(c) <= j - 2
        BY <3>3, MinsFacts DEF InBucket, Buckets
      <4>2. L > mins(c)
        BY <1>2, <3>1, <4>1
      <4>3. c # 0 => c < s.next_bucket
        BY <1>1, <4>1, <4>2, MinsFacts DEF ActiveBuckets
      <4> QED
        BY <1>2, <4>1, <4>3
    <3> HIDE DEF x, c
    <3>5. CASE \E b \in 1 .. top : mins(b) = j - 1
      <4>1. PICK b \in 1 .. top : mins(b) = j - 1
        BY <3>5
      <4>2. b \in 1 .. InfBucket - 1 /\ b = c + 1 /\ InBucket(b, j - 1)
        <5>1. b \in 1 .. InfBucket - 1
          BY <1>2, MinsFacts
        <5> QED
          BY <3>4, <4>1, <5>1
      <4>3. x = n.stack[P[b] - 1]
        BY <1>9, <4>1 DEF x
      <4>4. m.bucket[x] = c + 1
        BY <1>10, <3>2, <4>3 DEF MovedUp
      <4> QED
        BY <1>2, <4>1, <4>2, <4>4 DEF x, top
    <3>6. CASE \A b \in 1 .. top : mins(b) # j - 1
      <4>1. \A b \in 1 .. top : x # n.stack[P[b] - 1]
        <5> SUFFICES ASSUME NEW b \in 1 .. top PROVE x # n.stack[mins(b) + 1]
          BY <1>9
        <5>1. j # mins(b) + 1
          BY <1>5, <3>6
        <5> QED
          BY <1>12, <5>1 DEF x
      <4>2. m.bucket[x] = c
        BY <1>10, <3>1, <3>2, <4>1 DEF MovedUp
      <4>3. CASE \A b \in 1 .. InfBucket - 1 : mins(b) # j - 1
        BY <3>4, <3>c, <4>2, <4>3 DEF x
      <4>4. CASE \E b \in 1 .. InfBucket - 1 : mins(b) = j - 1
        <5>1. PICK b \in 1 .. InfBucket - 1 : mins(b) = j - 1
          BY <4>4
        <5>2. b >= s.next_bucket /\ s.next_bucket < InfBucket
          BY <1>2, <3>6, <5>1, MinsFacts DEF top
        <5>3. s.next_bucket \in 1 .. InfBucket - 1 /\ mins(s.next_bucket) \in Nat
          BY <1>2, <5>2, MinsFacts, MinsPositive
        <5>4. ~(L > mins(s.next_bucket))
          BY <1>1, <1>2, <5>3, MinsFacts DEF ActiveBuckets
        <5>5. mins(s.next_bucket) <= mins(b)
          BY <5>1, <5>2, <5>3, MinsFacts
        <5>6. j - 1 = L /\ mins(s.next_bucket) = j - 1
          BY <1>2, <3>1, <5>1, <5>3, <5>4, <5>5
        <5>7. s.next_bucket = c + 1 /\ InBucket(s.next_bucket, j - 1)
          BY <3>4, <5>3, <5>6
        <5> QED
          BY <1>2, <1>3, <3>c, <4>2, <5>2, <5>6, <5>7 DEF x
      <4> QED
        BY <4>3, <4>4
    <3> QED
      BY <3>5, <3>6
  <2> QED
    BY <2>1, <2>2
<1>14. ASSUME NEW x \in Blocks \ InStack(n)
       PROVE  m.bucket[x] = s.bucket[x]
  <2>1. \A b \in 1 .. top : x # n.stack[P[b] - 1]
    <3> SUFFICES ASSUME NEW b \in 1 .. top PROVE x # n.stack[mins(b) + 1]
      BY <1>9
    <3>1. mins(b) + 1 \in DOMAIN n.stack
      BY <1>2, <1>5, <1>11
    <3> QED
      BY <3>1 DEF InStack
  <2>2. x # a
    BY <1>3
  <2> QED
    BY <1>1, <1>3, <1>10, <2>1, <2>2 DEF CacheSimType, MovedUp
<1> QED
  BY <1>3, <1>9, <1>10, <1>13, <1>14 DEF m, n, top, SameCounts, MovedUp

(***************************************************************************)
(* The two ways a method changes the stack.                                *)
(***************************************************************************)
Pushed(t, s, a) ==
  /\ Len(t.stack) = Len(s.stack) + 1
  /\ t.stack[1] = a
  /\ \A i \in 1 .. Len(s.stack) : t.stack[i + 1] = s.stack[i]
  /\ InStack(t) = InStack(s) \cup {a}

Raised(t, s, a) ==
  /\ Len(t.stack) = Len(s.stack)
  /\ t.stack[1] = a
  /\ \A i \in 1 .. Position(s, a) - 1 : t.stack[i + 1] = s.stack[i]
  /\ \A i \in Position(s, a) + 1 .. Len(s.stack) : t.stack[i] = s.stack[i]
  /\ InStack(t) = InStack(s)

\* The parts of WellFormed, put together for an object a method returns.
LEMMA WellFormedFromParts ==
  ASSUME NEW s, WellFormed(s), NEW t \in LooseType, NoDuplicates(t),
         t.next_bucket \in 1 .. InfBucket,
         \A x \in Blocks : x \notin InStack(t) => t.bucket[x] = s.bucket[x],
         BucketsMatchDepth(t), ActiveBuckets(t), MarkersAtMins(t)
  PROVE  WellFormed(t)
<1>1. \A x \in Blocks : t.bucket[x] \in Buckets
  <2> SUFFICES ASSUME NEW x \in Blocks PROVE t.bucket[x] \in Buckets
    OBVIOUS
  <2>1. CASE x \in InStack(t)
    <3>1. PICK i \in DOMAIN t.stack : x = t.stack[i]
      BY <2>1 DEF InStack
    <3> QED
      BY <3>1, MinsFacts DEF BucketsMatchDepth, InBucket, Buckets
  <2>2. CASE x \notin InStack(t)
    BY <2>2 DEF WellFormed, CacheSimType
  <2> QED
    BY <2>1, <2>2
<1>2. t.bucket \in [Blocks -> Buckets]
  BY <1>1 DEF LooseType
<1> QED
  BY <1>2, TypeFromLoose DEF WellFormed

(***************************************************************************)
(* on_block_new keeps the object well formed and puts the block on top.    *)
(***************************************************************************)
THEOREM OnBlockNewCorrect ==
  ASSUME NEW s, WellFormed(s), NEW a \in Blocks, a \notin InStack(s)
  PROVE  /\ WellFormed(OnBlockNew(s, a))
         /\ Pushed(OnBlockNew(s, a), s, a)
         /\ SameCounts(OnBlockNew(s, a), s)
<1> DEFINE n == PushFront(s, a)
           m == MoveMarkers(n, s.next_bucket - 1)
           L == Len(s.stack)
           t == OnBlockNew(s, a)
<1>1. /\ s \in CacheSimType /\ NoDuplicates(s)
      /\ ActiveBuckets(s) /\ MarkersAtMins(s) /\ BucketsMatchDepth(s)
  BY DEF WellFormed
<1>2. L \in Nat /\ s.next_bucket \in 1 .. InfBucket
  BY <1>1, StackFacts DEF CacheSimType
<1>3. /\ n \in CacheSimType /\ NoDuplicates(n)
      /\ Len(n.stack) = L + 1
      /\ n.stack[1] = a
      /\ \A i \in 1 .. L : n.stack[i + 1] = s.stack[i]
      /\ InStack(n) = InStack(s) \cup {a}
  BY <1>1, PushFrontEffect
<1>4. /\ m \in LooseType /\ SameCounts(m, s)
      /\ m.next_bucket = s.next_bucket /\ m.stack = n.stack
      /\ \A b \in 1 .. s.next_bucket - 1 : m.marker[b] = n.stack[mins(b) + 1]
      /\ \A j \in 1 .. Len(n.stack) :
           m.bucket[n.stack[j]] \in 0 .. s.next_bucket - 1
      /\ \A j \in 1 .. Len(n.stack) :
           \/ InBucket(m.bucket[n.stack[j]], j - 1)
           \/ /\ j = Len(n.stack)
              /\ s.next_bucket < InfBucket
              /\ mins(s.next_bucket) = j - 1
              /\ m.bucket[n.stack[j]] + 1 = s.next_bucket
      /\ \A x \in Blocks \ InStack(n) : m.bucket[x] = s.bucket[x]
  BY MovedAfterPush
<1>5. n.next_bucket = s.next_bucket
  BY DEF PushFront
<1>6. t = IF mins(m.next_bucket) # BUCKET_INF_DIST /\ Len(m.stack) > mins(m.next_bucket)
          THEN OnNextBucketGetsActive(m) ELSE m
  BY <1>5 DEF OnBlockNew
<1> HIDE DEF n, m, t
<1>7. DOMAIN n.stack = 1 .. L + 1 /\ \A i \in 1 .. L + 1 : n.stack[i] \in Blocks
  BY <1>3, StackFacts
<1>8. \A b \in 1 .. s.next_bucket - 1 :
        b \in 1 .. InfBucket - 1 /\ mins(b) \in Nat /\ mins(b) >= 1 /\ mins(b) < L
  <2> SUFFICES ASSUME NEW b \in 1 .. s.next_bucket - 1
               PROVE  /\ b \in 1 .. InfBucket - 1
                      /\ mins(b) \in Nat /\ mins(b) >= 1 /\ mins(b) < L
    OBVIOUS
  <2>1. b \in 1 .. InfBucket - 1
    BY <1>2, MinsFacts
  <2>2. mins(b) < L
    BY <1>1 DEF MarkersAtMins
  <2> QED
    BY <2>1, <2>2, MinsPositive
<1>9. s.next_bucket < InfBucket =>
        /\ mins(s.next_bucket) \in Nat /\ mins(s.next_bucket) >= 1
        /\ L <= mins(s.next_bucket)
  <2> SUFFICES ASSUME s.next_bucket < InfBucket
               PROVE  /\ mins(s.next_bucket) \in Nat /\ mins(s.next_bucket) >= 1
                      /\ L <= mins(s.next_bucket)
    OBVIOUS
  <2>1. s.next_bucket \in 1 .. InfBucket - 1
    BY <1>2, MinsFacts
  <2>2. ~(L > mins(s.next_bucket))
    BY <1>1, <1>2, <2>1 DEF ActiveBuckets
  <2> QED
    BY <1>2, <2>1, <2>2, MinsPositive
<1>10. CASE s.next_bucket < InfBucket /\ L = mins(s.next_bucket)
  <2> DEFINE bottom == n.stack[L + 1]
             k == s.next_bucket
  <2>1. t = [m EXCEPT !.marker = [m.marker EXCEPT ![k] = bottom],
                      !.bucket = [m.bucket EXCEPT ![bottom] = m.bucket[bottom] + 1],
                      !.next_bucket = k + 1]
    BY <1>2, <1>3, <1>4, <1>6, <1>9, <1>10
       DEF OnNextBucketGetsActive, BUCKET_INF_DIST, LooseType
  <2>2. /\ t.marker = [m.marker EXCEPT ![k] = bottom]
        /\ t.bucket = [m.bucket EXCEPT ![bottom] = m.bucket[bottom] + 1]
        /\ t.next_bucket = k + 1
        /\ t.stack = n.stack /\ SameCounts(t, m)
    BY <1>4, <2>1 DEF LooseType, SameCounts
  <2>3. bottom \in Blocks /\ k \in Buckets /\ k \in 1 .. InfBucket - 1
    BY <1>2, <1>7, <1>10, MinsFacts DEF Buckets
  <2>4. t \in LooseType
    <3>1. t.marker \in [Buckets -> Blocks \cup {Singular}]
      BY <1>4, <2>2, <2>3 DEF LooseType
    <3>2. t.bucket \in [Blocks -> Nat]
      <4>1. m.bucket \in [Blocks -> Nat]
        BY <1>4 DEF LooseType
      <4>2. m.bucket[bottom] \in Nat
        BY <2>3, <4>1
      <4> QED
        <5>1. \A v \in Nat : [m.bucket EXCEPT ![bottom] = v] \in [Blocks -> Nat]
          BY <4>1
        <5>2. m.bucket[bottom] + 1 \in Nat
          BY <4>2
        <5> QED
          BY <2>2, <5>1, <5>2
    <3>3. t.next_bucket \in Nat
      BY <1>2, <2>2
    <3> QED
      BY <1>4, <2>1, <2>2, <3>1, <3>2, <3>3 DEF LooseType
  <2>5. \A j \in 1 .. L + 1 : InBucket(t.bucket[n.stack[j]], j - 1)
    <3> SUFFICES ASSUME NEW j \in 1 .. L + 1 PROVE InBucket(t.bucket[n.stack[j]], j - 1)
      OBVIOUS
    <3>1. CASE j = L + 1
      <4>1. mins(k) = L /\ (L + 1) - 1 = L
        BY <1>2, <1>10
      <4>2. InBucket(k, L)
        <5>1. k + 1 < InfBucket => mins(k) < mins(k + 1)
          BY <2>3, MinsFacts
        <5> QED
          BY <2>3, <4>1, <5>1, <1>2, MinsFacts DEF InBucket
      <4>3. m.bucket[bottom] \in 0 .. k - 1
        BY <1>2, <1>3, <1>4
      <4>4. ~InBucket(m.bucket[bottom], L)
        BY <1>2, <4>2, <4>3, InBucketUnique
      <4>5. m.bucket[bottom] + 1 = k
        BY <1>2, <1>3, <1>4, <4>1, <4>4
      <4> QED
        BY <1>4, <2>2, <2>3, <3>1, <4>1, <4>2, <4>5 DEF LooseType
    <3>2. CASE j # L + 1
      <4>1. n.stack[j] # bottom
        BY <1>3, <1>7, <3>2 DEF NoDuplicates
      <4> QED
        BY <1>2, <1>3, <1>4, <1>7, <2>2, <3>2, <4>1 DEF LooseType
    <3> QED
      BY <3>1, <3>2
  <2>6. \A b \in 1 .. InfBucket - 1 : b < k + 1 <=> L + 1 > mins(b)
    <3> SUFFICES ASSUME NEW b \in 1 .. InfBucket - 1
                 PROVE  b < k + 1 <=> L + 1 > mins(b)
      OBVIOUS
    <3>1. mins(b) \in Nat /\ (b < k <=> L > mins(b))
      BY <1>1, MinsPositive DEF ActiveBuckets
    <3>2. k < b => mins(k) < mins(b)
      BY <2>3, MinsFacts
    <3> QED
      BY <1>2, <1>10, <2>3, <3>1, <3>2, MinsFacts
  <2>7. \A b \in 1 .. k : mins(b) < L + 1 /\ t.marker[b] = n.stack[mins(b) + 1]
    <3> SUFFICES ASSUME NEW b \in 1 .. k
                 PROVE  mins(b) < L + 1 /\ t.marker[b] = n.stack[mins(b) + 1]
      OBVIOUS
    <3>1. CASE b = k
      BY <1>2, <1>4, <1>10, <2>2, <2>3, <3>1 DEF LooseType
    <3>2. CASE b # k
      <4>1. b \in 1 .. s.next_bucket - 1
        BY <1>2, <3>2
      <4>2. t.marker[b] = m.marker[b]
        BY <1>4, <2>2, <3>2 DEF LooseType
      <4> QED
        BY <1>2, <1>4, <1>8, <4>1, <4>2
    <3> QED
      BY <3>1, <3>2
  <2>8. t.next_bucket \in 1 .. InfBucket
    BY <1>2, <1>10, <2>2, MinsFacts
  <2>9. t.stack = n.stack /\ DOMAIN t.stack = 1 .. L + 1 /\ Len(t.stack) = L + 1
    BY <1>3, <1>7, <2>2
  <2>10. NoDuplicates(t) /\ InStack(t) = InStack(n)
    BY <1>3, <2>9 DEF NoDuplicates, InStack
  <2>11. \A x \in Blocks : x \notin InStack(t) => t.bucket[x] = s.bucket[x]
    <3>1. bottom \in InStack(n)
      BY <1>2, <1>7 DEF InStack
    <3> QED
      BY <1>4, <2>2, <2>10, <3>1 DEF LooseType
  <2>12. BucketsMatchDepth(t)
    BY <2>5, <2>9 DEF BucketsMatchDepth
  <2>13. ActiveBuckets(t)
    BY <2>2, <2>6, <2>9 DEF ActiveBuckets
  <2>14. MarkersAtMins(t)
    <3>1. t.next_bucket - 1 = k
      BY <1>2, <2>2
    <3> QED
      BY <2>7, <2>9, <3>1 DEF MarkersAtMins
  <2>15. WellFormed(t)
    BY <2>4, <2>8, <2>10, <2>11, <2>12, <2>13, <2>14, WellFormedFromParts
  <2>16. Pushed(t, s, a)
    BY <1>3, <2>9, <2>10 DEF Pushed
  <2> QED
    BY <1>4, <2>2, <2>15, <2>16 DEF SameCounts, t
<1>11. CASE ~(s.next_bucket < InfBucket /\ L = mins(s.next_bucket))
  <2>1. t = m
    BY <1>2, <1>3, <1>4, <1>6, <1>9, <1>11, MinsFacts DEF BUCKET_INF_DIST
  <2>2. \A j \in 1 .. L + 1 : InBucket(m.bucket[n.stack[j]], j - 1)
    BY <1>2, <1>3, <1>4, <1>11
  <2>3. \A b \in 1 .. InfBucket - 1 : b < s.next_bucket <=> L + 1 > mins(b)
    <3> SUFFICES ASSUME NEW b \in 1 .. InfBucket - 1
                 PROVE  b < s.next_bucket <=> L + 1 > mins(b)
      OBVIOUS
    <3>1. mins(b) \in Nat /\ (b < s.next_bucket <=> L > mins(b))
      BY <1>1, MinsPositive DEF ActiveBuckets
    <3>2. s.next_bucket < b => mins(s.next_bucket) < mins(b)
      BY <1>2, MinsFacts
    <3> QED
      BY <1>2, <1>9, <1>11, <3>1, <3>2, MinsFacts
  <2>4. \A b \in 1 .. s.next_bucket - 1 :
          mins(b) < L + 1 /\ m.marker[b] = n.stack[mins(b) + 1]
    BY <1>2, <1>4, <1>8
  <2>5. m.stack = n.stack /\ DOMAIN m.stack = 1 .. L + 1 /\ Len(m.stack) = L + 1
    BY <1>3, <1>4, <1>7
  <2>6. NoDuplicates(m) /\ InStack(m) = InStack(n)
    BY <1>3, <2>5 DEF NoDuplicates, InStack
  <2>7. \A x \in Blocks : x \notin InStack(m) => m.bucket[x] = s.bucket[x]
    BY <1>4, <2>6
  <2>8. BucketsMatchDepth(m) /\ ActiveBuckets(m) /\ MarkersAtMins(m)
    BY <1>4, <2>2, <2>3, <2>4, <2>5 DEF BucketsMatchDepth, ActiveBuckets, MarkersAtMins
  <2>9. WellFormed(m)
    BY <1>2, <1>4, <2>6, <2>7, <2>8, WellFormedFromParts
  <2>10. Pushed(m, s, a)
    BY <1>3, <2>5, <2>6 DEF Pushed
  <2> QED
    BY <1>4, <2>1, <2>9, <2>10 DEF t
<1> QED
  BY <1>10, <1>11

-----------------------------------------------------------------------------
\* splice(): a permutation that raises position p and keeps the other order.
AllDifferent(st) == \A i, j \in 1 .. Len(st) : st[i] = st[j] => i = j

Spliced(u, st, p) ==
  /\ u \in Seq(Blocks) /\ Len(u) = Len(st) /\ DOMAIN u = 1 .. Len(st)
  /\ u[1] = st[p]
  /\ \A i \in 1 .. p - 1 : u[i + 1] = st[i]
  /\ \A i \in p + 1 .. Len(st) : u[i] = st[i]
  /\ AllDifferent(u)
  /\ {u[i] : i \in DOMAIN u} = {st[i] : i \in DOMAIN st}

LEMMA SpliceEffect ==
  ASSUME NEW st \in Seq(Blocks), NEW p \in 1 .. Len(st), AllDifferent(st)
  PROVE  Spliced(SpliceToFront(st, p), st, p)
<1> DEFINE u == SpliceToFront(st, p)
           L == Len(st)
           from(i) == IF i = 1 THEN p ELSE IF i <= p THEN i - 1 ELSE i
<1>1. L \in Nat /\ DOMAIN st = 1 .. L /\ \A i \in 1 .. L : st[i] \in Blocks
  BY LenProperties, ElementOfSeq
<1>2. DOMAIN u = 1 .. L /\ \A i \in 1 .. L : from(i) \in 1 .. L /\ u[i] = st[from(i)]
  BY <1>1 DEF SpliceToFront
<1>3. u \in [1 .. L -> Blocks]
  <2>1. \A i \in 1 .. L : u[i] \in Blocks
    BY <1>1, <1>2
  <2> QED
    BY <1>1, <2>1 DEF SpliceToFront
<1>4. u \in Seq(Blocks) /\ Len(u) = L
  BY <1>1, <1>3
<1>5. \A i, j \in 1 .. L : from(i) = from(j) => i = j
  BY <1>1
<1>6. \A k \in 1 .. L : \E i \in 1 .. L : from(i) = k
  <2> SUFFICES ASSUME NEW k \in 1 .. L PROVE \E i \in 1 .. L : from(i) = k
    OBVIOUS
  <2>1. CASE k = p
    BY <1>1, <2>1
  <2>2. CASE k < p
    <3>1. k + 1 \in 1 .. L /\ from(k + 1) = k
      BY <1>1, <2>2
    <3> QED
      BY <3>1
  <2>3. CASE k > p
    <3>1. from(k) = k
      BY <1>1, <2>3
    <3> QED
      BY <3>1
  <2> QED
    BY <1>1, <2>1, <2>2, <2>3
<1>7. /\ u[1] = st[p]
      /\ \A i \in 1 .. p - 1 : u[i + 1] = st[i]
      /\ \A i \in p + 1 .. L : u[i] = st[i]
  <2>1. \A i \in 1 .. p - 1 : i + 1 \in 1 .. L /\ from(i + 1) = i
    BY <1>1
  <2>2. \A i \in p + 1 .. L : i \in 1 .. L /\ from(i) = i
    BY <1>1
  <2>3. 1 \in 1 .. L /\ from(1) = p
    BY <1>1
  <2> HIDE DEF from, u
  <2> QED
    BY <1>2, <2>1, <2>2, <2>3
<1> HIDE DEF from, u
<1>8. \A i, j \in 1 .. L : u[i] = u[j] => i = j
  BY <1>2, <1>5 DEF AllDifferent
<1>9. {u[i] : i \in DOMAIN u} = {st[i] : i \in DOMAIN st}
  <2>1. ASSUME NEW x \in {u[i] : i \in DOMAIN u} PROVE x \in {st[i] : i \in DOMAIN st}
    BY <1>1, <1>2
  <2>2. ASSUME NEW x \in {st[i] : i \in DOMAIN st} PROVE x \in {u[i] : i \in DOMAIN u}
    <3>1. PICK k \in 1 .. L : x = st[k]
      BY <1>1
    <3>2. PICK i \in 1 .. L : from(i) = k
      BY <1>6
    <3>3. u[i] = x
      BY <1>2, <3>1, <3>2
    <3> QED
      BY <1>2, <3>3
  <2> QED
    BY <2>1, <2>2
<1> QED
  BY <1>2, <1>4, <1>7, <1>8, <1>9 DEF u, Spliced, AllDifferent

LEMMA PositionFacts ==
  ASSUME NEW s \in CacheSimType, NoDuplicates(s), NEW a \in InStack(s)
  PROVE  /\ a \in Blocks
         /\ Position(s, a) \in 1 .. Len(s.stack)
         /\ s.stack[Position(s, a)] = a
         /\ \A i \in 1 .. Len(s.stack) : s.stack[i] = a <=> i = Position(s, a)
<1>1. PICK i \in DOMAIN s.stack : s.stack[i] = a
  BY DEF InStack
<1>2. Position(s, a) = i
  BY <1>1, PositionUnique
<1> QED
  BY <1>1, <1>2, StackFacts DEF NoDuplicates

(***************************************************************************)
(* on_block_seen keeps the object well formed, raises the block to the top *)
(* and returns the bucket its depth belonged to.                           *)
(***************************************************************************)
THEOREM OnBlockSeenCorrect ==
  ASSUME NEW s, WellFormed(s), NEW a \in InStack(s)
  PROVE  /\ WellFormed(OnBlockSeen(s, a))
         /\ Raised(OnBlockSeen(s, a), s, a)
         /\ SameCounts(OnBlockSeen(s, a), s)
         /\ InBucket(SeenBucket(s, a), Position(s, a) - 1)
<1> DEFINE L == Len(s.stack)
           p == Position(s, a)
           t == OnBlockSeen(s, a)
<1>1. /\ s \in CacheSimType /\ NoDuplicates(s)
      /\ ActiveBuckets(s) /\ MarkersAtMins(s) /\ BucketsMatchDepth(s)
  BY DEF WellFormed
<1>2. /\ L \in Nat /\ DOMAIN s.stack = 1 .. L /\ s.stack \in Seq(Blocks)
      /\ s.next_bucket \in 1 .. InfBucket
  BY <1>1, StackFacts DEF CacheSimType
<1>3. /\ a \in Blocks /\ p \in 1 .. L /\ s.stack[p] = a
      /\ \A i \in 1 .. L : s.stack[i] = a <=> i = p
  BY <1>1, PositionFacts
<1>4. s.stack[1] = a <=> p = 1
  BY <1>2, <1>3
<1> HIDE DEF p
<1>5. CASE p = 1
  <2>1. t = s /\ SeenBucket(s, a) = 0
    BY <1>4, <1>5 DEF OnBlockSeen, SeenBucket
  <2>2. Raised(s, s, a)
    BY <1>2, <1>4, <1>5 DEF Raised, p
  <2> QED
    BY <1>5, <2>1, <2>2, InBucketZero DEF SameCounts, p
<1>6. CASE p # 1
  <2> DEFINE c == s.bucket[a]
             m == MoveMarkers(s, c)
             P == [b \in 1 .. c |-> mins(b) + 1]
  <2>1. InBucket(c, p - 1) /\ c \in 0 .. InfBucket - 1 /\ mins(c) \in Nat /\ mins(c) <= p - 1
    <3>1. InBucket(c, p - 1)
      BY <1>1, <1>2, <1>3 DEF BucketsMatchDepth
    <3> QED
      BY <3>1, MinsFacts DEF InBucket, Buckets
  <2>2. c < s.next_bucket
    BY <1>1, <1>2, <1>3, <2>1, MinsFacts DEF ActiveBuckets
  <2>3. SeenBucket(s, a) = c
    BY <1>4, <1>6 DEF SeenBucket
  <2>4. \A b \in 1 .. c : /\ b \in 1 .. InfBucket - 1 /\ b \in 1 .. s.next_bucket - 1
                          /\ mins(b) \in Nat /\ mins(b) >= 1 /\ mins(b) <= p - 1
                          /\ s.marker[b] = s.stack[mins(b) + 1]
    <3> SUFFICES ASSUME NEW b \in 1 .. c
                 PROVE  /\ b \in 1 .. InfBucket - 1 /\ b \in 1 .. s.next_bucket - 1
                        /\ mins(b) \in Nat /\ mins(b) >= 1 /\ mins(b) <= p - 1
                        /\ s.marker[b] = s.stack[mins(b) + 1]
      OBVIOUS
    <3>1. b \in 1 .. InfBucket - 1 /\ b \in 1 .. s.next_bucket - 1
      BY <1>2, <2>1, <2>2, MinsFacts
    <3>2. mins(b) \in Nat /\ mins(b) >= 1
      BY <3>1, MinsPositive
    <3>3. b # c => mins(b) < mins(c)
      BY <2>1, <3>1, MinsFacts
    <3>4. s.marker[b] = s.stack[mins(b) + 1]
      BY <1>1, <3>1 DEF MarkersAtMins
    <3> QED
      BY <1>2, <1>3, <2>1, <3>1, <3>2, <3>3, <3>4
  <2>5. \A b \in c + 1 .. InfBucket - 1 : mins(b) \in Nat /\ mins(b) > p - 1
    <3> SUFFICES ASSUME NEW b \in c + 1 .. InfBucket - 1
                 PROVE  mins(b) \in Nat /\ mins(b) > p - 1
      OBVIOUS
    <3>1. c + 1 < InfBucket /\ mins(c + 1) > p - 1
      BY <1>2, <1>3, <2>1, MinsFacts DEF InBucket, Buckets
    <3>2. mins(b) \in Nat /\ mins(c + 1) \in Nat /\ (b # c + 1 => mins(c + 1) < mins(b))
      BY <2>1, <3>1, MinsFacts, MinsPositive
    <3> QED
      BY <1>2, <1>3, <3>1, <3>2
  <2>6. MarkersAt(s, c, P)
    <3>1. P \in [1 .. c -> 2 .. L]
      BY <1>2, <1>3, <2>4
    <3>2. \A b, d \in 1 .. c : P[b] = P[d] => b = d
      <4> SUFFICES ASSUME NEW b \in 1 .. c, NEW d \in 1 .. c, P[b] = P[d]
                   PROVE  b = d
        OBVIOUS
      <4>1. mins(b) = mins(d)
        BY <2>4
      <4> QED
        BY <2>1, <2>4, <4>1, MinsFacts
    <3> QED
      BY <2>4, <3>1, <3>2 DEF MarkersAt
  <2>7. MovedUp(m, s, c, P)
    BY <1>1, <2>1, <2>6, MoveMarkersEffect
  <2>8. \A b \in 1 .. c : P[b] - 1 = mins(b)
    BY <2>4
  <2>9. t = [m EXCEPT !.stack = SpliceToFront(s.stack, p), !.bucket = [m.bucket EXCEPT ![a] = 0]]
    <3>1. m.stack = s.stack
      BY <2>7 DEF MovedUp
    <3> QED
      BY <1>4, <1>6, <2>7, <3>1 DEF OnBlockSeen, MovedUp, LooseType, p
  <2> HIDE DEF P, m, t
  <2>10. /\ t.stack = SpliceToFront(s.stack, p)
         /\ t.bucket = [m.bucket EXCEPT ![a] = 0]
         /\ t.marker = m.marker /\ t.next_bucket = s.next_bucket
         /\ SameCounts(t, s)
    BY <2>7, <2>9 DEF MovedUp, LooseType, SameCounts
  <2>11. /\ t.stack \in Seq(Blocks) /\ Len(t.stack) = L /\ DOMAIN t.stack = 1 .. L
         /\ t.stack[1] = a
         /\ \A i \in 1 .. p - 1 : t.stack[i + 1] = s.stack[i]
         /\ \A i \in p + 1 .. L : t.stack[i] = s.stack[i]
         /\ \A i, j \in 1 .. L : t.stack[i] = t.stack[j] => i = j
         /\ InStack(t) = InStack(s)
    <3>1. AllDifferent(s.stack)
      BY <1>1, <1>2 DEF NoDuplicates, AllDifferent
    <3>2. Spliced(t.stack, s.stack, p)
      BY <1>2, <1>3, <2>10, <3>1, SpliceEffect
    <3> QED
      BY <1>3, <3>2 DEF Spliced, InStack, AllDifferent
  <2>12. t \in LooseType
    <3>1. t.bucket \in [Blocks -> Nat]
      <4>1. m.bucket \in [Blocks -> Nat]
        BY <2>7 DEF MovedUp, LooseType
      <4> QED
        BY <1>3, <2>10, <4>1
    <3> QED
      BY <2>7, <2>9, <2>10, <2>11, <3>1 DEF MovedUp, LooseType
  <2>13. /\ \A b \in 1 .. c : m.bucket[s.stack[mins(b)]] = s.bucket[s.stack[mins(b)]] + 1
         /\ \A x \in Blocks : (\A b \in 1 .. c : x # s.stack[mins(b)])
                              => m.bucket[x] = s.bucket[x]
         /\ m.bucket \in [Blocks -> Nat]
    <3>1. /\ \A b \in 1 .. c : m.bucket[s.stack[P[b] - 1]] = s.bucket[s.stack[P[b] - 1]] + 1
          /\ \A x \in Blocks : (\A b \in 1 .. c : x # s.stack[P[b] - 1])
                               => m.bucket[x] = s.bucket[x]
          /\ m.bucket \in [Blocks -> Nat]
      BY <2>7 DEF MovedUp, LooseType
    <3> HIDE DEF c
    <3>2. ASSUME NEW b \in 1 .. c
          PROVE  m.bucket[s.stack[mins(b)]] = s.bucket[s.stack[mins(b)]] + 1
      BY <2>8, <3>1
    <3>3. ASSUME NEW x \in Blocks, \A b \in 1 .. c : x # s.stack[mins(b)]
          PROVE  m.bucket[x] = s.bucket[x]
      <4>1. \A b \in 1 .. c : x # s.stack[P[b] - 1]
        BY <2>8, <3>3
      <4> QED
        BY <3>1, <4>1
    <3> QED
      BY <3>1, <3>2, <3>3
  <2>14. \A x \in Blocks : t.bucket[x] = IF x = a THEN 0 ELSE m.bucket[x]
    BY <1>3, <2>10, <2>13
  <2>15. \A i \in 1 .. L : s.stack[i] \in Blocks /\ s.bucket[s.stack[i]] \in Nat
                           /\ InBucket(s.bucket[s.stack[i]], i - 1)
    BY <1>1, <1>2, StackFacts, MinsFacts DEF BucketsMatchDepth, InBucket
  <2>16. \A i \in 1 .. p - 1 : InBucket(t.bucket[s.stack[i]], i)
    <3> SUFFICES ASSUME NEW i \in 1 .. p - 1 PROVE InBucket(t.bucket[s.stack[i]], i)
      OBVIOUS
    <3> DEFINE x == s.stack[i]
    <3>1. i \in 1 .. L /\ i - 1 \in Nat /\ (i - 1) + 1 = i /\ x # a /\ x \in Blocks
      BY <1>2, <1>3, <2>15
    <3>2. /\ \A b \in 1 .. InfBucket - 1 : mins(b) = i =>
               b = s.bucket[x] + 1 /\ InBucket(b, i)
          /\ (\A b \in 1 .. InfBucket - 1 : mins(b) # i) => InBucket(s.bucket[x], i)
      <4>1. InBucket(s.bucket[x], i - 1)
        BY <2>15, <3>1
      <4> QED
        BY <3>1, <4>1, InBucketStep
    <3>3. t.bucket[x] = m.bucket[x]
      BY <2>14, <3>1
    <3> HIDE DEF x
    <3>4. CASE \E b \in 1 .. InfBucket - 1 : mins(b) = i
      <4>1. PICK b \in 1 .. InfBucket - 1 : mins(b) = i
        BY <3>4
      <4>2. b \in 1 .. c
        BY <1>2, <1>3, <2>1, <2>5, <4>1, MinsFacts
      <4>3. m.bucket[x] = s.bucket[x] + 1
        BY <2>13, <4>1, <4>2 DEF x
      <4> QED
        BY <3>2, <3>3, <4>1, <4>3 DEF x
    <3>5. CASE \A b \in 1 .. InfBucket - 1 : mins(b) # i
      <4>1. \A b \in 1 .. c : x # s.stack[mins(b)]
        <5> SUFFICES ASSUME NEW b \in 1 .. c PROVE x # s.stack[mins(b)]
          OBVIOUS
        <5>1. mins(b) \in 1 .. L /\ mins(b) # i
          BY <1>2, <1>3, <2>4, <3>5
        <5> QED
          BY <1>1, <1>2, <3>1, <5>1 DEF NoDuplicates, x
      <4>2. m.bucket[x] = s.bucket[x]
        BY <2>13, <3>1, <4>1
      <4> QED
        BY <3>2, <3>3, <3>5, <4>2 DEF x
    <3> QED
      BY <3>4, <3>5
  <2>17. \A i \in p + 1 .. L : InBucket(t.bucket[s.stack[i]], i - 1)
    <3> SUFFICES ASSUME NEW i \in p + 1 .. L PROVE InBucket(t.bucket[s.stack[i]], i - 1)
      OBVIOUS
    <3>1. i \in 1 .. L /\ i # p /\ s.stack[i] # a
      BY <1>2, <1>3
    <3>2. \A b \in 1 .. c : s.stack[i] # s.stack[mins(b)]
      <4> SUFFICES ASSUME NEW b \in 1 .. c PROVE s.stack[i] # s.stack[mins(b)]
        OBVIOUS
      <4>1. mins(b) \in 1 .. L /\ mins(b) # i
        BY <1>2, <1>3, <2>4
      <4> QED
        BY <1>1, <1>2, <3>1, <4>1 DEF NoDuplicates
    <3>3. t.bucket[s.stack[i]] = s.bucket[s.stack[i]]
      BY <2>13, <2>14, <2>15, <3>1, <3>2
    <3> QED
      BY <2>15, <3>1, <3>3
  <2>18. BucketsMatchDepth(t)
    <3> SUFFICES ASSUME NEW j \in 1 .. L PROVE InBucket(t.bucket[t.stack[j]], j - 1)
      BY <2>11 DEF BucketsMatchDepth
    <3>1. CASE j = 1
      BY <1>3, <2>11, <2>14, <3>1, InBucketZero
    <3>2. CASE j # 1 /\ j <= p
      <4>1. j - 1 \in 1 .. p - 1 /\ (j - 1) + 1 = j
        BY <1>2, <1>3, <3>2
      <4>2. t.stack[j] = s.stack[j - 1]
        BY <2>11, <4>1
      <4> QED
        BY <2>16, <4>1, <4>2
    <3>3. CASE j > p
      <4>1. j \in p + 1 .. L
        BY <1>2, <1>3, <3>3
      <4> QED
        BY <2>11, <2>17, <4>1
    <3> QED
      BY <1>3, <3>1, <3>2, <3>3
  <2>19. MarkersAtMins(t)
    <3> SUFFICES ASSUME NEW b \in 1 .. s.next_bucket - 1
                 PROVE  mins(b) < L /\ t.marker[b] = t.stack[mins(b) + 1]
      BY <2>10, <2>11 DEF MarkersAtMins
    <3>1. mins(b) < L /\ s.marker[b] = s.stack[mins(b) + 1] /\ b \in 1 .. InfBucket - 1
      BY <1>1, <1>2, MinsFacts DEF MarkersAtMins
    <3>2. CASE b \in 1 .. c
      <4>1. t.marker[b] = s.stack[mins(b)]
        BY <2>7, <2>8, <2>10, <3>2 DEF MovedUp
      <4>2. mins(b) \in 1 .. p - 1
        BY <1>2, <1>3, <2>4, <3>2
      <4> QED
        BY <2>11, <3>1, <4>1, <4>2
    <3>3. CASE b \notin 1 .. c
      <4>1. b \in Buckets \ (1 .. c) /\ b \in c + 1 .. InfBucket - 1
        BY <2>1, <3>1, <3>3, MinsFacts DEF Buckets
      <4>2. t.marker[b] = s.marker[b]
        BY <2>7, <2>10, <4>1 DEF MovedUp
      <4>3. mins(b) + 1 \in p + 1 .. L
        BY <1>2, <1>3, <2>5, <3>1, <4>1
      <4> QED
        BY <2>11, <3>1, <4>2, <4>3
    <3> QED
      BY <3>2, <3>3
  <2>20. ActiveBuckets(t)
    BY <1>1, <2>10, <2>11 DEF ActiveBuckets
  <2>21. NoDuplicates(t)
    BY <2>11 DEF NoDuplicates
  <2>22. \A x \in Blocks : x \notin InStack(t) => t.bucket[x] = s.bucket[x]
    <3> SUFFICES ASSUME NEW x \in Blocks, x \notin InStack(s)
                 PROVE  t.bucket[x] = s.bucket[x]
      BY <2>11
    <3>1. \A b \in 1 .. c : x # s.stack[mins(b)]
      <4> SUFFICES ASSUME NEW b \in 1 .. c PROVE x # s.stack[mins(b)]
        OBVIOUS
      <4>1. mins(b) \in 1 .. L
        BY <1>2, <1>3, <2>4
      <4> QED
        BY <1>2, <4>1 DEF InStack
    <3> QED
      BY <2>13, <2>14, <3>1
  <2>23. WellFormed(t)
    BY <1>2, <2>10, <2>12, <2>18, <2>19, <2>20, <2>21, <2>22, WellFormedFromParts
  <2>24. Raised(t, s, a)
    BY <2>11 DEF Raised, p
  <2> QED
    BY <2>1, <2>3, <2>10, <2>23, <2>24 DEF t, p
<1> QED
  BY <1>5, <1>6

-----------------------------------------------------------------------------
(***************************************************************************)
(* Counting an access touches nothing but the counter.                     *)
(***************************************************************************)
LEMMA IncrAccessEffect ==
  ASSUME NEW s, WellFormed(s), NEW b \in Buckets
  PROVE  LET t == IncrAccess(s, b)
         IN  /\ WellFormed(t)
             /\ t.stack = s.stack
             /\ t.complement = s.complement /\ t.ds_nums = s.ds_nums
             /\ t.aCount = [s.aCount EXCEPT ![b] = s.aCount[b] + 1]
             /\ t.aCount_excl = s.aCount_excl
<1> DEFINE t == IncrAccess(s, b)
<1>1. s \in CacheSimType
  BY DEF WellFormed
<1>2. /\ t.next_bucket = s.next_bucket /\ t.stack = s.stack
      /\ t.bucket = s.bucket /\ t.marker = s.marker
      /\ t.complement = s.complement /\ t.ds_nums = s.ds_nums
      /\ t.aCount = [s.aCount EXCEPT ![b] = s.aCount[b] + 1]
      /\ t.aCount_excl = s.aCount_excl
      /\ t \in CacheSimType
  <2>1. s.aCount \in [Buckets -> Nat] /\ s.aCount[b] + 1 \in Nat
    BY <1>1 DEF CacheSimType
  <2>2. [s.aCount EXCEPT ![b] = s.aCount[b] + 1] \in [Buckets -> Nat]
    <3>1. \A v \in Nat : [s.aCount EXCEPT ![b] = v] \in [Buckets -> Nat]
      BY <2>1
    <3> QED
      BY <2>1, <3>1
  <2> QED
    BY <1>1, <2>2 DEF IncrAccess, CacheSimType
<1> HIDE DEF t
<1>3. WellFormed(t)
  BY <1>2 DEF WellFormed, NoDuplicates, ActiveBuckets, MarkersAtMins, BucketsMatchDepth
<1> QED
  BY <1>2, <1>3 DEF t

LEMMA IncrAccessExclEffect ==
  ASSUME NEW s, WellFormed(s), NEW b \in Buckets
  PROVE  LET t == IncrAccessExcl(s, b)
         IN  /\ WellFormed(t)
             /\ t.stack = s.stack
             /\ t.complement = s.complement /\ t.ds_nums = s.ds_nums
             /\ t.aCount_excl = [s.aCount_excl EXCEPT ![b] = s.aCount_excl[b] + 1]
             /\ t.aCount = s.aCount
<1> DEFINE t == IncrAccessExcl(s, b)
<1>1. s \in CacheSimType
  BY DEF WellFormed
<1>2. /\ t.next_bucket = s.next_bucket /\ t.stack = s.stack
      /\ t.bucket = s.bucket /\ t.marker = s.marker
      /\ t.complement = s.complement /\ t.ds_nums = s.ds_nums
      /\ t.aCount_excl = [s.aCount_excl EXCEPT ![b] = s.aCount_excl[b] + 1]
      /\ t.aCount = s.aCount
      /\ t \in CacheSimType
  <2>1. s.aCount_excl \in [Buckets -> Nat] /\ s.aCount_excl[b] + 1 \in Nat
    BY <1>1 DEF CacheSimType
  <2>2. [s.aCount_excl EXCEPT ![b] = s.aCount_excl[b] + 1] \in [Buckets -> Nat]
    <3>1. \A v \in Nat : [s.aCount_excl EXCEPT ![b] = v] \in [Buckets -> Nat]
      BY <2>1
    <3> QED
      BY <2>1, <3>1
  <2> QED
    BY <1>1, <2>2 DEF IncrAccessExcl, CacheSimType
<1> HIDE DEF t
<1>3. WellFormed(t)
  BY <1>2 DEF WellFormed, NoDuplicates, ActiveBuckets, MarkersAtMins, BucketsMatchDepth
<1> QED
  BY <1>2, <1>3 DEF t

\* k different blocks lie on the first k positions.
LEMMA DepthIsDistance ==
  ASSUME NEW s, WellFormed(s), NEW x \in InStack(s)
  PROVE  Cardinality(Above(s, x)) = Position(s, x) - 1
<1> DEFINE k == Position(s, x) - 1
           T == {s.stack[i] : i \in 1 .. k}
           f == [i \in 1 .. k |-> s.stack[i]]
<1>1. /\ DOMAIN s.stack = 1 .. Len(s.stack) /\ Len(s.stack) \in Nat
      /\ k \in Nat /\ 1 .. k \subseteq 1 .. Len(s.stack)
  BY StackFacts, PositionFacts DEF WellFormed
<1> HIDE DEF k
<1>2. f \in Bijection(1 .. k, T)
  <2>1. f \in [1 .. k -> T]
    OBVIOUS
  <2>2. \A i, j \in 1 .. k : f[i] = f[j] => i = j
    BY <1>1 DEF WellFormed, NoDuplicates
  <2>3. \A y \in T : \E i \in 1 .. k : f[i] = y
    OBVIOUS
  <2> QED
    BY <2>1, <2>2, <2>3 DEF Bijection, Injection, Surjection, IsInjective
<1>3. ExistsBijection(1 .. k, T)
  BY <1>2 DEF ExistsBijection
<1>4. IsFiniteSet(1 .. k) /\ Cardinality(1 .. k) = k
  BY <1>1, FS_Interval
<1>5. Cardinality(T) = k
  BY <1>3, <1>4, FS_Bijection
<1> QED
  BY <1>5 DEF Above, k
=============================================================================
