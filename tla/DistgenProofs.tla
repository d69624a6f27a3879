--------------------------- MODULE DistgenProofs ---------------------------
(***************************************************************************)
(* Proofs about distgen.c, for every number of threads and any options:    *)
(* the sorted list of distances, the iterations and accesses a run does    *)
(* however many signals cut its chunks short and, for distances with       *)
(* buffers whose number of blocks is an int, the chain through all blocks  *)
(* and the traversals of it.                                               *)
(***************************************************************************)
EXTENDS Distgen, FiniteSetTheorems, FunctionTheorems, SequenceTheorems,
        WellFoundedInduction, TLAPS

(***************************************************************************)
(* The smaller of two numbers.                                             *)
(***************************************************************************)
LEMMA MinOfTwo ==
  ASSUME NEW a \in Int, NEW b \in Int
  PROVE  Min({a, b}) = IF a <= b THEN a ELSE b
<1> DEFINE IsMin(x) == x \in {a, b} /\ \A y \in {a, b} : x <= y
<1>1. IsMin(IF a <= b THEN a ELSE b)
  OBVIOUS
<1>2. \A x : IsMin(x) => x = IF a <= b THEN a ELSE b
  OBVIOUS
<1>3. Min({a, b}) = CHOOSE x : IsMin(x)
  BY DEF Min
<1> HIDE DEF IsMin
<1> QED
  BY <1>1, <1>2, <1>3

(***************************************************************************)
(* A set of natural numbers has a smallest one.                            *)
(***************************************************************************)
LEMMA MinExists ==
  ASSUME NEW S \in SUBSET Nat, S # {}
  PROVE  Min(S) \in S /\ \A y \in S : Min(S) <= y
<1> DEFINE Less == {xy \in Nat \X Nat : xy[1] < xy[2]}
<1>1. IsWellFoundedOn(Less, Nat)
  BY NatLessThanWellFounded, Zenon DEF OpToRel
<1>2. \A x, y \in Nat : y < x => <<y, x>> \in Less
  OBVIOUS
<1> HIDE DEF Less
<1>3. PICK x \in S : \A y \in S : ~ (<<y, x>> \in Less)
  BY <1>1, WFMin, Zenon
<1>4. ASSUME NEW y \in S
      PROVE  x <= y
  <2>1. x \in Nat /\ y \in Nat
    OBVIOUS
  <2>2. ~(y < x)
    BY <1>2, <1>3, <2>1
  <2> QED
    BY <2>1, <2>2
<1> QED
  BY <1>4, Zenon DEF Min

-----------------------------------------------------------------------------
\* Induction over the natural numbers, stated with a set.
LEMMA Induction ==
  ASSUME NEW S \in SUBSET Nat, 0 \in S, \A n \in S : n + 1 \in S
  PROVE  S = Nat
<1> DEFINE Less == {xy \in Nat \X Nat : xy[1] < xy[2]}
           Rest == Nat \ S
<1>1. IsWellFoundedOn(Less, Nat)
  BY NatLessThanWellFounded, Zenon DEF OpToRel
<1>2. \A x, y \in Nat : y < x => <<y, x>> \in Less
  OBVIOUS
<1> HIDE DEF Less
<1>3. CASE Rest # {}
  <2>1. PICK x \in Rest : \A y \in Rest : ~ (<<y, x>> \in Less)
    BY <1>1, <1>3, WFMin, Zenon
  <2>2. x \in Nat /\ x \notin S /\ x # 0
    OBVIOUS
  <2>3. x - 1 \in Nat /\ x - 1 < x /\ (x - 1) + 1 = x
    BY <2>2
  <2>4. x - 1 \notin S
    BY <2>2, <2>3
  <2> QED
    BY <1>2, <2>1, <2>2, <2>3, <2>4
<1> QED
  BY <1>3

\* S is the function SumOf() is defined by.
Sums(S, f) == S = [n \in 0 .. tcount |-> IF n = 0 THEN 0 ELSE S[n - 1] + f[n - 1]]

\* One step of the sum SumOf() stands for.
LEMMA SumsStep ==
  ASSUME NEW S, NEW f, Sums(S, f)
  PROVE  S[0] = 0 /\ \A n \in Nat : n < tcount => S[n + 1] = S[n] + f[n]
<1>1. S[0] = 0
  BY DistgenAssumption DEF Sums
<1>2. ASSUME NEW n \in Nat, n < tcount
      PROVE  S[n + 1] = S[n] + f[n]
  <2>1. n + 1 \in 0 .. tcount /\ n + 1 # 0 /\ (n + 1) - 1 = n
    BY <1>2, DistgenAssumption
  <2> QED
    BY <2>1 DEF Sums
<1> QED
  BY <1>1, <1>2

\* SumOf() is the last value of that function.
LEMMA SumOfSums ==
  ASSUME NEW f
  PROVE  \E S : Sums(S, f) /\ SumOf(f) = S[tcount]
<1> DEFINE Sum(g, i) == IF i = 0 THEN 0 ELSE g[i - 1] + f[i - 1]
           Some == {m \in Nat : \E g : \A i \in 0 .. m : g[i] = Sum(g, i)}
<1>1. ASSUME NEW g, NEW h, NEW i \in Nat, i # 0 => h[i - 1] = g[i - 1]
      PROVE  Sum(h, i) = Sum(g, i)
  BY <1>1
<1>2. 0 \in Some
  <2>1. PICK g : g = [i \in {0} |-> 0]
    OBVIOUS
  <2>2. g[0] = Sum(g, 0)
    BY <2>1
  <2>3. \A i \in 0 .. 0 : i = 0
    OBVIOUS
  <2>4. \A i \in 0 .. 0 : g[i] = Sum(g, i)
    BY <2>2, <2>3
  <2> QED
    BY <2>4
<1> HIDE DEF Sum
<1>3. ASSUME NEW m \in Some
      PROVE  m + 1 \in Some
  <2>1. PICK g : \A i \in 0 .. m : g[i] = Sum(g, i)
    OBVIOUS
  <2>2. PICK h : h = [i \in 0 .. m + 1 |-> IF i = m + 1 THEN Sum(g, i) ELSE g[i]]
    OBVIOUS
  <2>3. \A i \in 0 .. m : h[i] = g[i]
    BY <2>2
  <2>4. ASSUME NEW i \in 0 .. m + 1
        PROVE  h[i] = Sum(h, i)
    <3>1. i # 0 => i - 1 \in 0 .. m
      OBVIOUS
    <3>2. Sum(h, i) = Sum(g, i)
      BY <1>1, <2>3, <3>1
    <3>3. CASE i = m + 1
      BY <2>2, <3>2, <3>3
    <3>4. CASE i \in 0 .. m
      BY <2>1, <2>3, <3>2, <3>4
    <3> QED
      BY <3>3, <3>4
  <2> QED
    BY <2>4
<1>4. Some = Nat
  <2>1. Some \in SUBSET Nat
    OBVIOUS
  <2> HIDE DEF Some
  <2> QED
    BY <1>2, <1>3, <2>1, Induction
<1>5. PICK g : \A i \in 0 .. tcount : g[i] = Sum(g, i)
  BY <1>4, DistgenAssumption
<1>6. PICK S : S = [i \in 0 .. tcount |-> g[i]]
  OBVIOUS
<1>7. ASSUME NEW i \in 0 .. tcount
      PROVE  g[i] = Sum(S, i)
  <2>1. i # 0 => S[i - 1] = g[i - 1]
    BY <1>6, DistgenAssumption
  <2>2. Sum(S, i) = Sum(g, i)
    BY <1>1, <2>1
  <2> QED
    BY <1>5, <2>2
<1>8. S = [i \in 0 .. tcount |-> Sum(S, i)]
  BY <1>6, <1>7
<1>9. Sums(S, f)
  BY <1>8 DEF Sums, Sum
<1>10. SumOf(f) = (CHOOSE h : Sums(h, f))[tcount]
  BY DEF SumOf, Sums
<1> QED
  BY <1>9, <1>10

\* A sum of nothing.
LEMMA SumOfZero ==
  ASSUME NEW f, \A t \in Threads : f[t] = 0
  PROVE  SumOf(f) = 0
<1>1. PICK S : Sums(S, f) /\ SumOf(f) = S[tcount]
  BY SumOfSums
<1>2. PICK N : N = {n \in Nat : n <= tcount => S[n] = 0}
  OBVIOUS
<1>3. 0 \in N
  BY <1>1, <1>2, SumsStep
<1>4. ASSUME NEW n \in N
      PROVE  n + 1 \in N
  <2>1. n \in Nat /\ (n <= tcount => S[n] = 0)
    BY <1>2
  <2>2. ASSUME n + 1 <= tcount
        PROVE  S[n + 1] = 0
    <3>1. n < tcount /\ n <= tcount /\ n \in Threads
      BY <2>1, <2>2, DistgenAssumption DEF Threads
    <3>2. S[n + 1] = S[n] + f[n]
      BY <1>1, <2>1, <3>1, SumsStep
    <3> QED
      BY <2>1, <3>1, <3>2
  <2> QED
    BY <1>2, <2>1, <2>2
<1>5. N = Nat
  <2>1. N \in SUBSET Nat
    BY <1>2
  <2> QED
    BY <1>3, <1>4, <2>1, Induction
<1> QED
  BY <1>1, <1>2, <1>5, DistgenAssumption

\* A sum is a natural number, and no less than any of what it is the sum of.
LEMMA SumOfNat ==
  ASSUME NEW f \in [Threads -> Nat]
  PROVE  SumOf(f) \in Nat /\ \A t \in Threads : f[t] <= SumOf(f)
<1>1. PICK S : Sums(S, f) /\ SumOf(f) = S[tcount]
  BY SumOfSums
<1>2. PICK N : N = {n \in Nat : n <= tcount => S[n] \in Nat /\ \A t \in Threads : t < n => f[t] <= S[n]}
  OBVIOUS
<1>3. 0 \in N
  <2>1. S[0] = 0
    BY <1>1, SumsStep
  <2> QED
    BY <1>2, <2>1 DEF Threads
<1>4. ASSUME NEW n \in N
      PROVE  n + 1 \in N
  <2>1. n \in Nat /\ (n <= tcount => S[n] \in Nat /\ \A t \in Threads : t < n => f[t] <= S[n])
    BY <1>2
  <2>2. ASSUME n + 1 <= tcount
        PROVE  S[n + 1] \in Nat /\ \A t \in Threads : t < n + 1 => f[t] <= S[n + 1]
    <3>1. n < tcount /\ n <= tcount /\ n \in Threads
      BY <2>1, <2>2, DistgenAssumption DEF Threads
    <3>2. S[n + 1] = S[n] + f[n]
      BY <1>1, <2>1, <3>1, SumsStep
    <3>3. S[n] \in Nat /\ f[n] \in Nat /\ S[n] <= S[n + 1] /\ f[n] <= S[n + 1]
      BY <2>1, <3>1, <3>2
    <3>4. ASSUME NEW t \in Threads, t < n + 1
          PROVE  f[t] <= S[n + 1]
      <4>1. t \in Nat /\ f[t] \in Nat
        BY DEF Threads
      <4>2. CASE t = n
        BY <3>3, <4>2
      <4>3. CASE t < n
        <5>1. f[t] <= S[n]
          BY <2>1, <3>1, <4>3
        <5> QED
          BY <3>2, <3>3, <4>1, <5>1
      <4> QED
        BY <2>1, <3>4, <4>1, <4>2, <4>3
    <3> QED
      BY <3>2, <3>3, <3>4
  <2> QED
    BY <1>2, <2>1, <2>2
<1>5. N = Nat
  <2>1. N \in SUBSET Nat
    BY <1>2
  <2> QED
    BY <1>3, <1>4, <2>1, Induction
<1>6. tcount \in N
  BY <1>5, DistgenAssumption
<1>7. S[tcount] \in Nat /\ \A t \in Threads : t < tcount => f[t] <= S[tcount]
  BY <1>2, <1>6, DistgenAssumption
<1>8. \A t \in Threads : t < tcount
  BY DistgenAssumption DEF Threads
<1> QED
  BY <1>1, <1>7, <1>8

\* One more for one thread is one more in the sum.
LEMMA SumOfOneMore ==
  ASSUME NEW f \in [Threads -> Nat], NEW g, NEW t \in Threads, NEW more \in {0, 1},
         g[t] = f[t] + more, \A u \in Threads \ {t} : g[u] = f[u]
  PROVE  SumOf(g) = SumOf(f) + more
<1>1. PICK S : Sums(S, f) /\ SumOf(f) = S[tcount]
  BY SumOfSums
<1>2. PICK R : Sums(R, g) /\ SumOf(g) = R[tcount]
  BY SumOfSums
<1>3. PICK N : N = {n \in Nat : n <= tcount =>
                      S[n] \in Nat /\ R[n] = S[n] + (IF t < n THEN more ELSE 0)}
  OBVIOUS
<1>4. t \in Nat /\ t < tcount
  BY DistgenAssumption DEF Threads
<1>5. 0 \in N
  <2>1. S[0] = 0 /\ R[0] = 0
    BY <1>1, <1>2, SumsStep
  <2> QED
    BY <1>3, <1>4, <2>1
<1>6. ASSUME NEW n \in N
      PROVE  n + 1 \in N
  <2>1. /\ n \in Nat
        /\ n <= tcount => S[n] \in Nat /\ R[n] = S[n] + (IF t < n THEN more ELSE 0)
    BY <1>3
  <2>2. ASSUME n + 1 <= tcount
        PROVE  S[n + 1] \in Nat /\ R[n + 1] = S[n + 1] + (IF t < n + 1 THEN more ELSE 0)
    <3>1. n < tcount /\ n <= tcount /\ n \in Threads
      BY <2>1, <2>2, DistgenAssumption DEF Threads
    <3>2. S[n + 1] = S[n] + f[n]
      BY <1>1, <2>1, <3>1, SumsStep
    <3>3. R[n + 1] = R[n] + g[n]
      BY <1>2, <2>1, <3>1, SumsStep
    <3>4. f[n] \in Nat /\ g[n] = IF n = t THEN f[n] + more ELSE f[n]
      BY <3>1
    <3>5. PICK fn \in Nat : fn = f[n]
      BY <3>4
    <3>6. PICK sn \in Nat : sn = S[n]
      BY <2>1, <3>1
    <3>7. R[n] = sn + (IF t < n THEN more ELSE 0)
      BY <2>1, <3>1, <3>6
    <3>8. S[n + 1] = sn + fn /\ R[n + 1] = sn + (IF t < n THEN more ELSE 0) + (IF n = t THEN fn + more ELSE fn)
      BY <3>2, <3>3, <3>4, <3>5, <3>6, <3>7
    <3> QED
      BY <1>4, <2>1, <3>8
  <2> QED
    BY <1>3, <2>1, <2>2
<1>7. N = Nat
  <2>1. N \in SUBSET Nat
    BY <1>3
  <2> QED
    BY <1>5, <1>6, <2>1, Induction
<1>8. tcount \in N
  BY <1>7, DistgenAssumption
<1>9. R[tcount] = S[tcount] + more
  BY <1>3, <1>4, <1>8, DistgenAssumption
<1> QED
  BY <1>1, <1>2, <1>9

-----------------------------------------------------------------------------
\* t is s with e inserted at p.
HasInserted(t, s, p, e) ==
  /\ t \in Seq(Nat) /\ Len(t) = Len(s) + 1
  /\ \A k \in 1 .. Len(s) + 1 :
       t[k] = IF k < p THEN s[k] ELSE IF k = p THEN e ELSE s[k - 1]

(***************************************************************************)
(* A sequence with an element inserted.                                    *)
(***************************************************************************)
LEMMA InsertAtEffect ==
  ASSUME NEW s \in Seq(Nat), NEW p \in 1 .. Len(s) + 1, NEW e \in Nat
  PROVE  HasInserted(InsertAt(s, p, e), s, p, e)
<1> DEFINE before == SubSeq(s, 1, p - 1)
           after  == SubSeq(s, p, Len(s))
<1>1. /\ before \in Seq(Nat) /\ Len(before) = p - 1
      /\ \A k \in 1 .. p - 1 : before[k] = s[k]
  BY SubSeqProperties
<1>2. /\ after \in Seq(Nat) /\ Len(after) = Len(s) - p + 1
      /\ \A k \in 1 .. Len(s) - p + 1 : after[k] = s[p + k - 1]
  BY SubSeqProperties
<1>3. <<e>> \in Seq(Nat) /\ Len(<<e>>) = 1 /\ <<e>>[1] = e
  OBVIOUS
<1>4. InsertAt(s, p, e) = (before \o <<e>>) \o after
  BY DEF InsertAt
<1> HIDE DEF before, after
<1>5. /\ before \o <<e>> \in Seq(Nat) /\ Len(before \o <<e>>) = p
      /\ \A k \in 1 .. p : (before \o <<e>>)[k] = IF k < p THEN s[k] ELSE e
  BY <1>1, <1>3, ConcatProperties
<1> DEFINE head == before \o <<e>>
<1> HIDE DEF head
<1>6. /\ head \o after \in Seq(Nat) /\ Len(head \o after) = Len(head) + Len(after)
      /\ \A k \in 1 .. Len(head) + Len(after) :
           (head \o after)[k] = IF k <= Len(head) THEN head[k] ELSE after[k - Len(head)]
  <2>1. head \in Seq(Nat) /\ after \in Seq(Nat)
    BY <1>2, <1>5 DEF head
  <2> QED
    BY <2>1, ConcatProperties, Zenon
<1>7. Len(s) \in Nat /\ Len(head) = p /\ Len(head) + Len(after) = Len(s) + 1
  <2>1. Len(s) \in Nat /\ p \in Nat
    BY LenProperties
  <2>2. Len(head) = p
    BY <1>5 DEF head
  <2> QED
    BY <1>2, <2>1, <2>2
<1>8. ASSUME NEW k \in 1 .. Len(s) + 1
      PROVE  (head \o after)[k] = IF k < p THEN s[k] ELSE IF k = p THEN e ELSE s[k - 1]
  <2>1. CASE k <= p
    <3>1. (head \o after)[k] = head[k] /\ k \in 1 .. p
      BY <1>6, <1>7, <2>1
    <3>2. head[k] = IF k < p THEN s[k] ELSE e
      BY <1>5, <3>1 DEF head
    <3> QED
      BY <1>7, <2>1, <3>1, <3>2
  <2>2. CASE k > p
    <3>1. k \in 1 .. Len(head) + Len(after) /\ ~(k <= Len(head))
      BY <1>7, <2>2
    <3>2. (head \o after)[k] = after[k - Len(head)]
      BY <1>6, <3>1, Zenon
    <3>3. Len(head) = p /\ k - p \in 1 .. Len(s) - p + 1
      BY <1>7, <2>2
    <3>4. (head \o after)[k] = after[k - p]
      BY <3>2, <3>3, Zenon
    <3>5. after[k - p] = s[p + (k - p) - 1]
      BY <1>2, <3>3, Zenon
    <3>6. p + (k - p) - 1 = k - 1
      OBVIOUS
    <3> QED
      BY <2>2, <3>4, <3>5, <3>6
  <2> QED
    BY <1>7, <2>1, <2>2
<1> QED
  BY <1>4, <1>6, <1>7, <1>8 DEF head, HasInserted

\* A list of n distances, sorted.
Descends(s, n) ==
  /\ s \in Seq(Nat) /\ Len(s) = n /\ DOMAIN s = 1 .. n
  /\ \A d \in 1 .. n : s[d] \in Nat
  /\ \A c, d \in 1 .. n : c < d => s[c] > s[d]

(***************************************************************************)
(* Where addDist() inserts a distance: before the first smaller one.       *)
(***************************************************************************)
LEMMA PlaceEffect ==
  ASSUME NEW n \in Nat, Descends(distSize, n), NEW size \in Nat
  PROVE  /\ Place(size) \in 1 .. n + 1
         /\ \A d \in 1 .. n : distSize[d] <= size => Place(size) <= d
         /\ Place(size) <= n => distSize[Place(size)] <= size
<1> DEFINE S == {d \in DOMAIN distSize : distSize[d] <= size} \cup {Len(distSize) + 1}
<1>1. S = {d \in 1 .. n : distSize[d] <= size} \cup {n + 1}
  BY DEF Descends
<1>2. Place(size) = Min(S)
  BY DEF Place
<1> HIDE DEF S
<1>3. S \in SUBSET Nat /\ S # {}
  BY <1>1
<1>4. Min(S) \in S /\ \A y \in S : Min(S) <= y
  BY <1>3, MinExists
<1> QED
  BY <1>1, <1>2, <1>4

(***************************************************************************)
(* addDist() keeps the distances sorted, and each of them once.            *)
(***************************************************************************)
LEMMA InsertedDescends ==
  ASSUME NEW n \in Nat, Descends(distSize, n), NEW size \in Nat,
         size \notin Range(distSize), n < MAXDISTCOUNT
  PROVE  /\ Descends(Inserted(size), n + 1)
         /\ Range(Inserted(size)) = Range(distSize) \cup {size}
<1>1. PICK s : s = distSize
  OBVIOUS
<1>2. PICK p \in 1 .. n + 1 :
        /\ p = Place(size)
        /\ \A d \in 1 .. n : s[d] <= size => p <= d
        /\ p <= n => s[p] <= size
  BY <1>1, PlaceEffect
<1>3. PICK t : t = InsertAt(s, p, size)
  OBVIOUS
<1>4. Inserted(size) = t
  <2>1. ~(Len(distSize) >= MAXDISTCOUNT)
    BY DistgenAssumption DEF Descends
  <2> QED
    BY <1>1, <1>2, <1>3, <2>1 DEF Inserted
<1>5. /\ s \in Seq(Nat) /\ Len(s) = n /\ DOMAIN s = 1 .. n
      /\ \A d \in 1 .. n : s[d] \in Nat /\ s[d] # size
      /\ \A c, d \in 1 .. n : c < d => s[c] > s[d]
  BY <1>1 DEF Descends, Range
<1>6. /\ t \in Seq(Nat) /\ Len(t) = n + 1
      /\ \A k \in 1 .. n + 1 :
           t[k] = IF k < p THEN s[k] ELSE IF k = p THEN size ELSE s[k - 1]
  <2>1. s \in Seq(Nat) /\ p \in 1 .. Len(s) + 1 /\ size \in Nat
    BY <1>5
  <2>2. HasInserted(t, s, p, size)
    BY <1>3, <2>1, InsertAtEffect, Zenon
  <2> QED
    BY <1>5, <2>2 DEF HasInserted
<1>7. DOMAIN t = 1 .. n + 1
  BY <1>6, LenProperties
<1>8. ASSUME NEW d \in 1 .. n
      PROVE  IF d < p THEN s[d] > size ELSE s[d] < size
  <2>1. CASE d < p
    BY <1>2, <1>5, <2>1
  <2>2. CASE d = p
    BY <1>2, <1>5, <2>2
  <2>3. CASE d > p
    <3>1. p \in 1 .. n /\ s[p] <= size /\ s[p] > s[d] /\ s[p] \in Nat /\ s[d] \in Nat
      BY <1>2, <1>5, <2>3
    <3> QED
      BY <2>3, <3>1
  <2> QED
    BY <2>1, <2>2, <2>3
<1>9. ASSUME NEW c \in 1 .. n + 1, NEW d \in 1 .. n + 1, c < d
      PROVE  t[c] > t[d]
  <2>1. CASE d < p
    <3>1. c \in 1 .. n /\ d \in 1 .. n /\ c < p
      BY <1>9, <2>1
    <3>2. t[c] = s[c] /\ t[d] = s[d]
      BY <1>6, <2>1, <3>1
    <3>3. s[c] > s[d]
      BY <1>5, <1>9, <3>1, Zenon
    <3> QED
      BY <3>2, <3>3
  <2>2. CASE d = p
    <3>1. c \in 1 .. n /\ t[c] = s[c] /\ t[d] = size
      BY <1>6, <1>9, <2>2
    <3> QED
      BY <1>8, <1>9, <2>2, <3>1
  <2>3. CASE d > p /\ c < p
    <3>1. t[c] = s[c] /\ t[d] = s[d - 1] /\ c \in 1 .. n /\ d - 1 \in 1 .. n
      BY <1>6, <1>9, <2>3
    <3>2. s[c] > size /\ s[d - 1] < size
      BY <1>8, <2>3, <3>1
    <3> QED
      BY <1>5, <3>1, <3>2
  <2>4. CASE d > p /\ c = p
    <3>1. t[c] = size /\ t[d] = s[d - 1] /\ d - 1 \in 1 .. n
      BY <1>6, <1>9, <2>4
    <3> QED
      BY <1>5, <1>8, <2>4, <3>1
  <2>5. CASE d > p /\ c > p
    <3>1. t[c] = s[c - 1] /\ t[d] = s[d - 1]
      BY <1>6, <2>5
    <3>2. c - 1 \in 1 .. n /\ d - 1 \in 1 .. n /\ c - 1 < d - 1
      BY <1>9, <2>5
    <3>3. s[c - 1] > s[d - 1]
      BY <1>5, <3>2, Zenon
    <3> QED
      BY <3>1, <3>3
  <2> QED
    BY <2>1, <2>2, <2>3, <2>4, <2>5
<1>10. \A k \in 1 .. n + 1 : t[k] \in Nat
  BY <1>6, <1>7
<1>11. Descends(t, n + 1)
  BY <1>6, <1>7, <1>9, <1>10 DEF Descends
<1>12. Range(t) \subseteq Range(s) \cup {size}
  <2> SUFFICES ASSUME NEW k \in 1 .. n + 1
               PROVE  t[k] \in Range(s) \cup {size}
    BY <1>7 DEF Range
  <2>1. CASE k < p
    <3>1. t[k] = s[k] /\ k \in DOMAIN s
      BY <1>5, <1>6, <2>1
    <3> QED
      BY <3>1 DEF Range
  <2>2. CASE k = p
    BY <1>6, <2>2
  <2>3. CASE k > p
    <3>1. t[k] = s[k - 1] /\ k - 1 \in DOMAIN s
      BY <1>5, <1>6, <2>3
    <3> QED
      BY <3>1 DEF Range
  <2> QED
    BY <2>1, <2>2, <2>3
<1>13. Range(s) \subseteq Range(t)
  <2> SUFFICES ASSUME NEW d \in 1 .. n
               PROVE  s[d] \in Range(t)
    BY <1>5 DEF Range
  <2>1. CASE d < p
    <3>1. t[d] = s[d] /\ d \in DOMAIN t
      BY <1>6, <1>7, <2>1
    <3> QED
      BY <3>1 DEF Range
  <2>2. CASE d >= p
    <3>1. d + 1 \in 1 .. n + 1 /\ ~(d + 1 < p) /\ d + 1 # p /\ (d + 1) - 1 = d
      BY <2>2
    <3>2. t[d + 1] = s[d] /\ d + 1 \in DOMAIN t
      BY <1>6, <1>7, <3>1
    <3> QED
      BY <3>2 DEF Range
  <2> QED
    BY <2>1, <2>2
<1>14. size \in Range(t)
  <2>1. t[p] = size /\ p \in DOMAIN t
    BY <1>6, <1>7
  <2> QED
    BY <2>1 DEF Range
<1> QED
  BY <1>1, <1>4, <1>11, <1>12, <1>13, <1>14

-----------------------------------------------------------------------------
\* The distances are sorted while the command line is read, and stay so.
DistancesSorted ==
  /\ given \subseteq Nat
  /\ \E n \in Nat : n <= MAXDISTCOUNT /\ Descends(distSize, n)
  /\ phase # "aborted" => Range(distSize) = given

(***************************************************************************)
(* addDist() drops a distance only when it is there, or when it aborts.    *)
(***************************************************************************)
LEMMA AddDistSorted ==
  ASSUME DistancesSorted, NEW size \in Sizes, addDist(size)
  PROVE  DistancesSorted'
<1>1. size \in Nat
  BY DistgenAssumption
<1>2. PICK n \in Nat : n <= MAXDISTCOUNT /\ Descends(distSize, n)
  BY DEF DistancesSorted
<1>3. given' \subseteq Nat
  BY <1>1 DEF DistancesSorted, addDist
<1>4. PICK s : s = Inserted(size)
  OBVIOUS
<1>5. distSize' = s /\ given' = given \cup {size} /\ phase = "options"
  BY <1>4 DEF addDist
<1>6. Range(distSize) = given
  BY <1>5 DEF DistancesSorted
<1>7. n = Len(distSize)
  BY <1>2 DEF Descends
<1>8. CASE size \in Range(distSize)
  <2>1. s = distSize
    BY <1>4, <1>8 DEF Inserted
  <2>2. distSize' = distSize /\ given' = given
    BY <1>5, <1>6, <1>8, <2>1
  <2>3. Descends(distSize', n)
    BY <1>2, <2>2
  <2> QED
    BY <1>2, <1>3, <1>6, <2>2, <2>3 DEF DistancesSorted
<1>9. CASE size \notin Range(distSize) /\ n < MAXDISTCOUNT
  <2>1. Descends(s, n + 1) /\ Range(s) = Range(distSize) \cup {size}
    BY <1>1, <1>2, <1>4, <1>9, InsertedDescends
  <2>2. Descends(distSize', n + 1) /\ Range(distSize') = given'
    BY <1>5, <1>6, <2>1
  <2>3. n + 1 \in Nat /\ n + 1 <= MAXDISTCOUNT
    BY <1>9, DistgenAssumption
  <2> QED
    BY <1>3, <2>2, <2>3 DEF DistancesSorted
<1>10. CASE size \notin Range(distSize) /\ n >= MAXDISTCOUNT
  <2>1. n = MAXDISTCOUNT
    BY <1>2, <1>10, DistgenAssumption
  <2>2. Len(distSize) = MAXDISTCOUNT /\ Len(distSize) >= MAXDISTCOUNT
    BY <1>7, <1>10, <2>1
  <2>3. s = distSize /\ phase' = "aborted"
    BY <1>4, <1>10, <2>2 DEF Inserted, addDist
  <2>4. Descends(distSize', n)
    BY <1>2, <1>5, <2>3
  <2> QED
    BY <1>2, <1>3, <2>3, <2>4 DEF DistancesSorted
<1> QED
  BY <1>2, <1>8, <1>9, <1>10, DistgenAssumption

\* The distances are sorted in every state.
LEMMA SortedAlways == Spec => []DistancesSorted
<1>1. Init => DistancesSorted
  <2> SUFFICES ASSUME Init PROVE DistancesSorted
    OBVIOUS
  <2>1. distSize = << >> /\ given = {}
    BY DEF Init
  <2>2. Descends(<< >>, 0) /\ Range(<< >>) = {}
    BY DEF Descends, Range
  <2>3. 0 \in Nat /\ 0 <= MAXDISTCOUNT
    BY DistgenAssumption
  <2> QED
    BY <2>1, <2>2, <2>3 DEF DistancesSorted
<1>2. DistancesSorted /\ [Next]_vars => DistancesSorted'
  <2> SUFFICES ASSUME DistancesSorted, [Next]_vars
               PROVE  DistancesSorted'
    OBVIOUS
  <2>1. CASE \E size \in Sizes : addDist(size)
    BY <2>1, AddDistSorted
  <2>2. CASE UNCHANGED <<distSize, given>> /\ (phase' = phase \/ phase \in {"options", "init", "running"})
    BY <2>2 DEF DistancesSorted, Descends
  <2>3. ASSUME NEW o \in Options, parseOptions(o)
        PROVE  UNCHANGED <<distSize, given>> /\ phase = "options"
    BY <2>3 DEF parseOptions
  <2>4. CASE Setup
    BY <2>2, <2>4 DEF Setup
  <2>5. CASE Join
    BY <2>2, <2>5 DEF Join, setup
  <2>6. ASSUME NEW t \in Threads, Step(t) \/ Signal(t)
        PROVE  UNCHANGED <<distSize, given, phase>>
    BY <2>6 DEF Step, StartBench, Iterate, CountSignal, Signal, setup
  <2>7. CASE UNCHANGED vars
    BY <2>2, <2>7 DEF vars
  <2> QED
    BY <2>1, <2>2, <2>3, <2>4, <2>5, <2>6, <2>7 DEF Next
<1> QED
  BY <1>1, <1>2, PTL DEF Spec

(***************************************************************************)
(* The distances given are kept sorted, each once, unless there were too   *)
(* many and the program ended.                                             *)
(***************************************************************************)
THEOREM SortedDistances == Spec => []DistancesDescend
<1>1. DistancesSorted => DistancesDescend
  <2> SUFFICES ASSUME DistancesSorted
               PROVE  DistancesDescend
    OBVIOUS
  <2>1. PICK n \in Nat : Descends(distSize, n)
    BY DEF DistancesSorted
  <2>2. PICK s : s = distSize
    OBVIOUS
  <2>3. Len(s) = n /\ \A c, d \in 1 .. n : c < d => s[c] > s[d]
    BY <2>1, <2>2 DEF Descends
  <2>4. \A d \in 1 .. n - 1 : s[d] > s[d + 1]
    BY <2>3
  <2>5. \A d \in 1 .. Len(s) - 1 : s[d] > s[d + 1]
    BY <2>3, <2>4
  <2> QED
    BY <2>2, <2>5 DEF DistancesSorted, DistancesDescend
<1> QED
  BY <1>1, SortedAlways, PTL

-----------------------------------------------------------------------------
LastThread == tcount - 1

BenchRecord == [at : {"none", "ready", "running", "returned"},
                i : Nat, oldSigCounter : Nat, aCount : Nat]

OptionRecord == [pseudoRandom : BOOLEAN, depChain : BOOLEAN, doWrite : BOOLEAN,
                 stopOnSigUSR1 : BOOLEAN, iter : Nat \ {0}, iters_perstat : Nat \ {0}]

Typed ==
  /\ phase \in {"options", "init", "running", "end", "aborted", "overrun"}
  /\ ii \in Nat /\ iiTodo \in Nat /\ aCount \in Nat /\ sigCounter \in Nat
  /\ sent \in 0 .. MaxSignals
  /\ handler \in [Threads -> Nat \cup {NULL}]
  /\ done \in [Threads -> Nat]
  /\ bench \in [Threads -> BenchRecord]

OptionsChosen ==
  phase \in {"init", "running", "end"} =>
    options \in OptionRecord /\ options.iter + MaxSignals <= MaxCount

\* Threads and signals come with the loop.
NotStarted ==
  phase \in {"options", "init", "aborted", "overrun"} =>
    /\ ii = 0 /\ aCount = 0 /\ sent = 0
    /\ \A t \in Threads : bench[t].at = "none" /\ handler[t] = NULL /\ done[t] = 0

\* A chunk does not go beyond the iterations asked for.
InChunk ==
  phase = "running" =>
    /\ ii < options.iter
    /\ iiTodo >= 1 /\ iiTodo <= options.iter - ii /\ iiTodo <= options.iters_perstat
    /\ \A t \in Threads :
         /\ bench[t].at # "none" /\ bench[t].i <= iiTodo
         /\ bench[t].at \in {"ready", "running"} => bench[t].i < iiTodo

AtEnd ==
  phase = "end" =>
    /\ \A t \in Threads : bench[t].at = "returned"
    /\ ~options.stopOnSigUSR1 => ii = options.iter

\* The last thread is in an iteration that will not be counted.
Late ==
  IF bench[LastThread].at = "running" /\ sigCounter > bench[LastThread].oldSigCounter
  THEN 1 ELSE 0

\* What the last thread has counted of the chunk.
Current == IF phase = "running" THEN bench[LastThread].i ELSE 0

Handling == {t \in Threads : handler[t] # NULL}

\* Every iteration that was not counted, is not going to be, or may still become
\* such by the handler that is running, has a signal of its own.
Budget ==
  /\ ii + Current <= done[LastThread]
  /\ done[LastThread] + Late + Cardinality(Handling) <= ii + Current + sent

IInv ==
  /\ Typed /\ OptionsChosen /\ NotStarted
  /\ InChunk /\ AtEnd /\ Budget

(***************************************************************************)
(* A count goes up as far as counts go.                                    *)
(***************************************************************************)
LEMMA CountUpIs ==
  ASSUME NEW n \in Nat, NEW k \in Nat
  PROVE  /\ CountUp(n, k) = IF n + k <= MaxCount THEN n + k ELSE MaxCount
         /\ CountUp(n, k) \in Nat /\ CountUp(n, k) <= MaxCount
<1>1. MaxCount \in Int /\ n + k \in Int
  BY DistgenAssumption
<1>2. CountUp(n, k) = IF n + k <= MaxCount THEN n + k ELSE MaxCount
  BY <1>1, MinOfTwo DEF CountUp
<1> QED
  BY <1>2, DistgenAssumption

\* A count from the start.
LEMMA CountUpFromZero ==
  ASSUME NEW n \in Nat
  PROVE  CountUp(0, n) = IF n <= MaxCount THEN n ELSE MaxCount
<1>1. 0 \in Nat /\ 0 + n = n
  OBVIOUS
<1>2. CountUp(0, n) = IF 0 + n <= MaxCount THEN 0 + n ELSE MaxCount
  BY <1>1, CountUpIs
<1> QED
  BY <1>1, <1>2

\* A count that has not reached its bound.
LEMMA CountUpEffect ==
  ASSUME NEW n \in Nat
  PROVE  CountUp(n, 1) \in Nat /\ (n < MaxCount => CountUp(n, 1) = n + 1)
  BY CountUpIs, DistgenAssumption

\* The last thread is one of finitely many.
LEMMA LastIsThread == LastThread \in Threads /\ IsFiniteSet(Threads)
<1>1. tcount - 1 \in Int /\ 0 \in Int
  BY DistgenAssumption
<1>2. IsFiniteSet(0 .. tcount - 1)
  BY <1>1, FS_Interval, Zenon
<1> QED
  BY <1>2, DistgenAssumption DEF LastThread, Threads

(***************************************************************************)
(* The number of threads in a handler, and how it changes.                 *)
(***************************************************************************)
LEMMA HandlingCounted ==
  /\ IsFiniteSet(Handling) /\ Cardinality(Handling) \in Nat
  /\ \A t \in Threads \ Handling :
       Cardinality(Handling \cup {t}) = Cardinality(Handling) + 1
  /\ \A t \in Handling :
       Cardinality(Handling \ {t}) = Cardinality(Handling) - 1
<1>1. IsFiniteSet(Handling)
  <2>1. Handling \subseteq Threads
    BY DEF Handling
  <2> QED
    BY <2>1, LastIsThread, FS_Subset, Zenon
<1>2. Cardinality(Handling) \in Nat
  BY <1>1, FS_CardinalityType
<1>3. ASSUME NEW t \in Threads \ Handling
      PROVE  Cardinality(Handling \cup {t}) = Cardinality(Handling) + 1
  BY <1>1, <1>3, FS_AddElement
<1>4. ASSUME NEW t \in Handling
      PROVE  Cardinality(Handling \ {t}) = Cardinality(Handling) - 1
  BY <1>1, <1>4, FS_RemoveElement
<1> QED
  BY <1>1, <1>2, <1>3, <1>4

\* Nothing has been done when the program starts.
LEMMA InvInit == Init => IInv
<1> SUFFICES ASSUME Init PROVE IInv
  OBVIOUS
<1>1. Typed
  BY DistgenAssumption DEF Init, Typed, NoBench, BenchRecord
<1>2. NotStarted /\ OptionsChosen /\ InChunk /\ AtEnd
  BY DEF Init, NotStarted, OptionsChosen, InChunk, AtEnd, NoBench
<1>3. Budget
  <2>1. Handling = {}
    BY DEF Init, Handling
  <2>2. Cardinality(Handling) = 0
    BY <2>1, FS_EmptySet
  <2>3. Late = 0 /\ Current = 0 /\ done[LastThread] = 0
    BY LastIsThread DEF Init, Late, Current, NoBench
  <2> QED
    BY <2>2, <2>3 DEF Init, Budget
<1> QED
  BY <1>1, <1>2, <1>3 DEF IInv

(***************************************************************************)
(* The command line starts nothing.                                        *)
(***************************************************************************)
LEMMA CommandLineStep ==
  ASSUME IInv,
         (\E size \in Sizes : addDist(size)) \/ (\E o \in Options : parseOptions(o))
  PROVE  IInv'
<1>1. /\ phase = "options" /\ phase' \in {"options", "init", "aborted"}
      /\ UNCHANGED <<ii, iiTodo, aCount, bench, sigCounter, handler, done, sent>>
  BY DEF addDist, parseOptions, signals
<1>2. Typed' /\ NotStarted'
  BY <1>1 DEF IInv, Typed, NotStarted
<1>3. InChunk' /\ AtEnd'
  BY <1>1 DEF InChunk, AtEnd
<1>4. Budget'
  <2>1. Late' = Late /\ Handling' = Handling /\ Current' = 0 /\ Current = 0
    BY <1>1 DEF Late, Handling, Current
  <2> QED
    BY <1>1, <2>1 DEF IInv, Budget
<1>5. OptionsChosen'
  <2>1. ASSUME NEW size \in Sizes, addDist(size)
        PROVE  phase' \in {"options", "aborted"}
    BY <1>1, <2>1 DEF addDist
  <2>2. ASSUME NEW o \in Options, parseOptions(o)
        PROVE  options' \in OptionRecord /\ options'.iter + MaxSignals <= MaxCount
    <3>1. /\ o \in [pseudoRandom : BOOLEAN, depChain : BOOLEAN, doWrite : BOOLEAN,
                    stopOnSigUSR1 : BOOLEAN, iter : Nat \ {0}, iters_perstat : Nat]
          /\ o.iter + MaxSignals <= MaxCount
      BY DistgenAssumption
    <3>2. options' = [o EXCEPT !.iters_perstat = IF @ = 0 THEN o.iter ELSE @]
      BY <2>2 DEF parseOptions
    <3> QED
      BY <3>1, <3>2 DEF OptionRecord
  <2> QED
    BY <2>1, <2>2 DEF OptionsChosen
<1> QED
  BY <1>2, <1>3, <1>4, <1>5 DEF IInv

(***************************************************************************)
(* A chunk that starts is within what is left to do.                       *)
(***************************************************************************)
LEMMA ForkEffect ==
  ASSUME options \in OptionRecord, NEW from \in Nat, from < options.iter, Fork(from)
  PROVE  /\ iiTodo' \in Nat /\ iiTodo' >= 1 /\ iiTodo' <= options.iter - from
         /\ iiTodo' <= options.iters_perstat
         /\ bench' \in [Threads -> BenchRecord]
         /\ \A t \in Threads : bench'[t].at = "ready" /\ bench'[t].i = 0 /\ bench'[t].aCount = 0
<1>1. PICK iter \in Nat \ {0} : iter = options.iter
  BY DEF OptionRecord
<1>2. PICK perstat \in Nat \ {0} : perstat = options.iters_perstat
  BY DEF OptionRecord
<1>3. iiTodo' = Min({iter - from, perstat})
  BY <1>1, <1>2 DEF Fork
<1>4. iter - from \in Int /\ perstat \in Int
  OBVIOUS
<1>5. Min({iter - from, perstat}) = IF iter - from <= perstat THEN iter - from ELSE perstat
  BY <1>4, MinOfTwo, Zenon
<1>6. from < iter
  BY <1>1
<1>7. iiTodo' \in Nat /\ iiTodo' >= 1 /\ iiTodo' <= iter - from /\ iiTodo' <= perstat
  BY <1>3, <1>5, <1>6
<1>8. bench' = [t \in Threads |-> [NoBench EXCEPT !.at = "ready"]]
  BY DEF Fork
<1>9. [NoBench EXCEPT !.at = "ready"] \in BenchRecord
  BY DEF NoBench, BenchRecord
<1>10. /\ [NoBench EXCEPT !.at = "ready"].at = "ready"
       /\ [NoBench EXCEPT !.at = "ready"].i = 0 /\ [NoBench EXCEPT !.at = "ready"].aCount = 0
  BY DEF NoBench
<1> QED
  BY <1>1, <1>2, <1>7, <1>8, <1>9, <1>10

\* Setup forks no threads.
Overruns == phase' = "overrun" /\ UNCHANGED <<iiTodo, bench>>

\* A size that is no int leaves everything as it was before the loop.
LEMMA SetupOverrun ==
  ASSUME IInv, Setup, Overruns
  PROVE  IInv'
<1>1. /\ phase = "init" /\ phase' = "overrun"
      /\ UNCHANGED <<ii, iiTodo, aCount, bench, sigCounter, handler, done, sent>>
  BY DEF Setup, signals, Overruns
<1>2. Typed'
  BY <1>1 DEF IInv, Typed
<1>3. NotStarted'
  BY <1>1 DEF IInv, NotStarted
<1>4. OptionsChosen' /\ InChunk' /\ AtEnd'
  BY <1>1 DEF OptionsChosen, InChunk, AtEnd
<1>5. Handling' = Handling /\ Late' = Late /\ Current' = Current
  BY <1>1 DEF Handling, Late, Current
<1>6. Budget'
  BY <1>1, <1>5 DEF IInv, Budget
<1> QED
  BY <1>2, <1>3, <1>4, <1>6 DEF IInv

\* The first chunk.
LEMMA SetupStep ==
  ASSUME IInv, Setup
  PROVE  IInv'
<1> SUFFICES ASSUME ~Overruns PROVE IInv'
  BY SetupOverrun
<1>1. /\ phase = "init" /\ phase' = "running" /\ Fork(0)
      /\ UNCHANGED <<options, ii, aCount, sigCounter, handler, done, sent>>
  BY DEF Setup, signals, Overruns
<1>2. options \in OptionRecord /\ options.iter + MaxSignals <= MaxCount
  BY <1>1 DEF IInv, OptionsChosen
<1>3. 0 \in Nat /\ 0 < options.iter
  BY <1>2 DEF OptionRecord
<1>4. /\ iiTodo' \in Nat /\ iiTodo' >= 1 /\ iiTodo' <= options.iter - 0
      /\ iiTodo' <= options.iters_perstat
      /\ bench' \in [Threads -> BenchRecord]
      /\ \A t \in Threads : bench'[t].at = "ready" /\ bench'[t].i = 0 /\ bench'[t].aCount = 0
  BY <1>1, <1>2, <1>3, ForkEffect
<1>5. /\ ii = 0 /\ sent = 0
      /\ \A t \in Threads : bench[t].at = "none" /\ handler[t] = NULL /\ done[t] = 0
  BY <1>1 DEF IInv, NotStarted
<1>6. Typed'
  BY <1>1, <1>4 DEF IInv, Typed
<1>7. OptionsChosen' /\ NotStarted' /\ AtEnd'
  BY <1>1, <1>2 DEF OptionsChosen, NotStarted, AtEnd
<1>8. InChunk'
  BY <1>1, <1>3, <1>4, <1>5 DEF InChunk
<1>9. Budget'
  <2>1. Handling' = {}
    BY <1>1, <1>5 DEF Handling
  <2>2. Cardinality(Handling') = 0
    BY <2>1, FS_EmptySet
  <2>3. Late' = 0 /\ Current' = 0
    BY <1>1, <1>4, LastIsThread DEF Late, Current
  <2>4. ii' = 0 /\ sent' = 0 /\ done'[LastThread] = 0
    BY <1>1, <1>5, LastIsThread
  <2> QED
    BY <2>2, <2>3, <2>4 DEF Budget
<1> QED
  BY <1>6, <1>7, <1>8, <1>9 DEF IInv

\* What the threads have counted in this chunk.
ChunkCounts == [t \in Threads |-> bench[t].aCount]

\* What main() adds them up to.
LEMMA ReducedIs ==
  ASSUME IInv
  PROVE  /\ ChunkCounts \in [Threads -> Nat] /\ SumOf(ChunkCounts) \in Nat
         /\ Reduced = CountUp(aCount, SumOf(ChunkCounts)) /\ Reduced \in Nat
<1>1. aCount \in Nat /\ ChunkCounts \in [Threads -> Nat]
  BY DEF IInv, Typed, BenchRecord, ChunkCounts
<1>2. SumOf(ChunkCounts) \in Nat
  BY <1>1, SumOfNat
<1>3. Reduced = CountUp(aCount, SumOf(ChunkCounts))
  BY DEF Reduced, ChunkCounts
<1> QED
  BY <1>1, <1>2, <1>3, CountUpIs

(***************************************************************************)
(* main() counts what the last thread returned, and what has not been      *)
(* counted stays that way.                                                 *)
(***************************************************************************)
LEMMA JoinStep ==
  ASSUME IInv, Join
  PROVE  IInv'
<1>1. /\ phase = "running" /\ ii' = ii + iiDone /\ aCount' = Reduced
      /\ \A t \in Threads : bench[t].at = "returned"
      /\ UNCHANGED <<options, sigCounter, handler, done, sent>>
  BY DEF Join, setup, signals
<1>2. PICK i : i = bench[LastThread].i
  OBVIOUS
<1>3. iiDone = i /\ i \in Nat /\ ii \in Nat /\ ii' = ii + i /\ ii' \in Nat
  <2>1. bench[LastThread] \in BenchRecord /\ ii \in Nat
    BY LastIsThread DEF IInv, Typed
  <2>2. i \in Nat
    BY <1>2, <2>1 DEF BenchRecord
  <2>3. iiDone = i
    BY <1>2 DEF iiDone, LastThread
  <2> QED
    BY <1>1, <2>1, <2>2, <2>3
<1>4. options \in OptionRecord /\ options.iter + MaxSignals <= MaxCount
  BY <1>1 DEF IInv, OptionsChosen
<1>5. options.iter \in Nat
  BY <1>4 DEF OptionRecord
<1>6. i <= iiTodo /\ iiTodo <= options.iter - ii /\ iiTodo \in Nat
  BY <1>1, <1>2, LastIsThread DEF IInv, InChunk, Typed
<1>7. ii + i <= options.iter
  BY <1>3, <1>5, <1>6
<1>8. Late = 0 /\ Current = i
  BY <1>1, <1>2, LastIsThread DEF Late, Current
<1>9. Handling' = Handling
  BY <1>1 DEF Handling
<1>10. ii' <= done'[LastThread] /\ done'[LastThread] + Cardinality(Handling') <= ii' + sent'
  <2>1. ii + i <= done[LastThread] /\ done[LastThread] + 0 + Cardinality(Handling) <= ii + i + sent
    BY <1>8 DEF IInv, Budget
  <2>2. done[LastThread] \in Nat /\ Cardinality(Handling) \in Nat /\ sent \in Nat
    BY LastIsThread, HandlingCounted DEF IInv, Typed
  <2> QED
    BY <1>1, <1>3, <1>9, <2>1, <2>2
<1>11. aCount' \in Nat
  BY <1>1, ReducedIs
<1>12. CASE Stops
  <2>1. phase' = "end" /\ UNCHANGED <<iiTodo, bench>>
    BY <1>12 DEF Join
  <2>2. Typed' /\ OptionsChosen' /\ NotStarted' /\ InChunk'
    BY <1>1, <1>3, <1>4, <1>11, <2>1 DEF IInv, Typed, OptionsChosen, NotStarted, InChunk
  <2>3. AtEnd'
    <3>1. ~options.stopOnSigUSR1 => ii + i >= options.iter
      BY <1>3, <1>12 DEF Stops
    <3>2. ~options.stopOnSigUSR1 => ii' = options.iter
      BY <1>3, <1>5, <1>7, <3>1
    <3> QED
      BY <1>1, <2>1, <3>2 DEF AtEnd
  <2>4. Budget'
    <3>1. Late' = 0 /\ Current' = 0
      BY <1>1, <2>1, LastIsThread DEF Late, Current
    <3>2. done'[LastThread] \in Nat /\ ii' \in Nat
      BY <1>3, <2>2, LastIsThread DEF Typed
    <3> QED
      BY <1>10, <3>1, <3>2 DEF Budget
  <2> QED
    BY <2>2, <2>3, <2>4 DEF IInv
<1>13. CASE ~Stops
  <2>1. Fork(ii + i) /\ phase' = "running"
    BY <1>1, <1>3, <1>13 DEF Join
  <2>2. ii + i \in Nat /\ ii + i < options.iter
    <3>1. ~(ii + i >= options.iter)
      BY <1>3, <1>13 DEF Stops
    <3> QED
      BY <1>3, <1>5, <3>1
  <2>3. /\ iiTodo' \in Nat /\ iiTodo' >= 1 /\ iiTodo' <= options.iter - (ii + i)
        /\ iiTodo' <= options.iters_perstat
        /\ bench' \in [Threads -> BenchRecord]
        /\ \A t \in Threads : bench'[t].at = "ready" /\ bench'[t].i = 0 /\ bench'[t].aCount = 0
    BY <1>4, <2>1, <2>2, ForkEffect
  <2>4. Typed' /\ OptionsChosen' /\ NotStarted' /\ AtEnd'
    BY <1>1, <1>3, <1>4, <1>11, <2>1, <2>3
    DEF IInv, Typed, OptionsChosen, NotStarted, AtEnd
  <2>5. InChunk'
    BY <1>1, <1>3, <2>1, <2>2, <2>3 DEF InChunk
  <2>6. Budget'
    <3>1. Late' = 0 /\ Current' = 0
      BY <2>1, <2>3, LastIsThread DEF Late, Current
    <3>2. done'[LastThread] \in Nat /\ ii' \in Nat
      BY <1>3, <2>4, LastIsThread DEF Typed
    <3> QED
      BY <1>10, <3>1, <3>2 DEF Budget
  <2> QED
    BY <2>4, <2>5, <2>6 DEF IInv
<1> QED
  BY <1>12, <1>13

\* A thread that starts has seen every signal counted so far.
LEMMA StartBenchStep ==
  ASSUME IInv, NEW t \in Threads, StartBench(t)
  PROVE  IInv'
<1>1. /\ bench[t].at = "ready"
      /\ bench' = [bench EXCEPT ![t].at = "running", ![t].oldSigCounter = sigCounter]
      /\ UNCHANGED <<phase, options, ii, iiTodo, aCount, sigCounter, handler, done, sent>>
  BY DEF StartBench, setup, signals
<1>2. bench \in [Threads -> BenchRecord] /\ sigCounter \in Nat
  BY DEF IInv, Typed
<1>3. /\ bench' \in [Threads -> BenchRecord]
      /\ \A u \in Threads : bench'[u].i = bench[u].i
      /\ \A u \in Threads \ {t} : bench'[u] = bench[u]
      /\ bench'[t].at = "running" /\ bench'[t].oldSigCounter = sigCounter
  BY <1>1, <1>2 DEF BenchRecord
<1>4. Typed' /\ OptionsChosen'
  BY <1>1, <1>3 DEF IInv, Typed, OptionsChosen
<1>5. NotStarted' /\ AtEnd'
  BY <1>1 DEF IInv, NotStarted, AtEnd
<1>6. InChunk'
  BY <1>1, <1>3 DEF IInv, InChunk
<1>7. Budget'
  <2>1. Current' = Current /\ Handling' = Handling
    BY <1>1, <1>3, LastIsThread DEF Current, Handling
  <2>2. CASE t = LastThread
    <3>1. Late' = 0
      BY <1>1, <1>2, <1>3, <2>2 DEF Late
    <3>2. Late = 0
      BY <1>1, <2>2 DEF Late
    <3> QED
      BY <1>1, <2>1, <3>1, <3>2 DEF IInv, Budget
  <2>3. CASE t # LastThread
    <3>1. Late' = Late
      BY <1>1, <1>3, <2>3, LastIsThread DEF Late
    <3> QED
      BY <1>1, <2>1, <3>1 DEF IInv, Budget
  <2> QED
    BY <2>2, <2>3
<1> QED
  BY <1>4, <1>5, <1>6, <1>7 DEF IInv

\* A signal pays for one iteration that is not counted.
LEMMA SignalStep ==
  ASSUME IInv, NEW t \in Threads, Signal(t)
  PROVE  IInv'
<1>1. /\ phase = "running" /\ sent < MaxSignals /\ handler[t] = NULL
      /\ handler' = [handler EXCEPT ![t] = sigCounter] /\ sent' = sent + 1
      /\ UNCHANGED <<phase, options, ii, iiTodo, aCount, bench, sigCounter, done>>
  BY DEF Signal, setup
<1>2. /\ sigCounter \in Nat /\ sent \in Nat /\ ii \in Nat
      /\ handler \in [Threads -> Nat \cup {NULL}] /\ done[LastThread] \in Nat
  BY LastIsThread DEF IInv, Typed
<1>3. Typed' /\ OptionsChosen' /\ NotStarted' /\ InChunk' /\ AtEnd'
  BY <1>1, <1>2, DistgenAssumption
  DEF IInv, Typed, OptionsChosen, NotStarted, InChunk, AtEnd
<1>4. Budget'
  <2>1. Late' = Late /\ Current' = Current /\ Late \in {0, 1}
    BY <1>1 DEF Late, Current
  <2>2. t \in Threads \ Handling /\ Handling' = Handling \cup {t}
    BY <1>1, <1>2, DistgenAssumption DEF Handling
  <2>3. Cardinality(Handling') = Cardinality(Handling) + 1
    BY <2>2, HandlingCounted
  <2>4. Cardinality(Handling) \in Nat /\ Current \in Nat
    BY LastIsThread, HandlingCounted DEF Current, IInv, Typed, BenchRecord
  <2> QED
    BY <1>1, <1>2, <2>1, <2>3, <2>4 DEF IInv, Budget
<1> QED
  BY <1>3, <1>4 DEF IInv

\* The handler makes the last thread late at most once.
LEMMA CountSignalStep ==
  ASSUME IInv, NEW t \in Threads, CountSignal(t)
  PROVE  IInv'
<1>1. /\ handler[t] # NULL /\ sigCounter' = handler[t] + 1
      /\ handler' = [handler EXCEPT ![t] = NULL]
      /\ UNCHANGED <<phase, options, ii, iiTodo, aCount, bench, done, sent>>
  BY DEF CountSignal, setup
<1>2. /\ sent \in Nat /\ ii \in Nat
      /\ handler \in [Threads -> Nat \cup {NULL}] /\ done[LastThread] \in Nat
  BY LastIsThread DEF IInv, Typed
<1>3. sigCounter' \in Nat
  BY <1>1, <1>2
<1>4. Typed' /\ OptionsChosen' /\ NotStarted' /\ InChunk' /\ AtEnd'
  BY <1>1, <1>2, <1>3 DEF IInv, Typed, OptionsChosen, NotStarted, InChunk, AtEnd
<1>5. Budget'
  <2>1. Current' = Current /\ Late \in {0, 1} /\ Late' \in {0, 1}
    BY <1>1 DEF Late, Current
  <2>2. t \in Handling /\ Handling' = Handling \ {t}
    BY <1>1, <1>2 DEF Handling
  <2>3. Cardinality(Handling') = Cardinality(Handling) - 1
    BY <2>2, HandlingCounted
  <2>4. Cardinality(Handling) \in Nat /\ Current \in Nat
    BY LastIsThread, HandlingCounted DEF Current, IInv, Typed, BenchRecord
  <2> QED
    BY <1>1, <1>2, <2>1, <2>3, <2>4 DEF IInv, Budget
<1> QED
  BY <1>4, <1>5 DEF IInv

(***************************************************************************)
(* An iteration is counted, or it is the one a signal pays for.            *)
(***************************************************************************)
LEMMA IterateStep ==
  ASSUME IInv, NEW t \in Threads, Iterate(t)
  PROVE  IInv'
<1>1. /\ bench[t].at = "running"
      /\ UNCHANGED <<phase, options, ii, iiTodo, aCount, sigCounter, handler, sent>>
  BY DEF Iterate, setup, signals
<1>2. phase = "running"
  BY <1>1 DEF IInv, Typed, NotStarted, AtEnd
<1>3. /\ bench \in [Threads -> BenchRecord] /\ sigCounter \in Nat /\ ii \in Nat
      /\ iiTodo \in Nat /\ done \in [Threads -> Nat] /\ sent \in 0 .. MaxSignals
  BY DEF IInv, Typed
<1>4. PICK signalled \in BOOLEAN : signalled <=> sigCounter > bench[t].oldSigCounter
  OBVIOUS
<1>5. PICK i : i = IF signalled THEN bench[t].i ELSE bench[t].i + 1
  OBVIOUS
<1>6. PICK n : n = CountUp(bench[t].aCount, 1)
  OBVIOUS
<1>7. PICK at : at = IF signalled \/ i >= iiTodo THEN "returned" ELSE bench[t].at
  OBVIOUS
<1>8. bench' = [bench EXCEPT ![t].i = i, ![t].aCount = n, ![t].at = at]
  BY <1>4, <1>5, <1>6, <1>7 DEF Iterate
<1>9. bench[t].i \in Nat /\ bench[t].i < iiTodo /\ i \in Nat /\ i <= iiTodo
  <2>1. bench[t].i \in Nat
    BY <1>3 DEF BenchRecord
  <2>2. bench[t].i < iiTodo
    BY <1>1, <1>2 DEF IInv, InChunk
  <2> QED
    BY <1>3, <1>5, <2>1, <2>2
<1>10. at \in {"running", "returned"} /\ (at = "running" => ~signalled /\ i < iiTodo)
  BY <1>1, <1>3, <1>7, <1>9
<1>11. n \in Nat
  <2>1. bench[t].aCount \in Nat
    BY <1>3 DEF BenchRecord
  <2> QED
    BY <1>6, <2>1, CountUpEffect
<1>12. /\ bench' \in [Threads -> BenchRecord]
       /\ bench'[t].i = i /\ bench'[t].at = at
       /\ bench'[t].oldSigCounter = bench[t].oldSigCounter
       /\ \A u \in Threads \ {t} : bench'[u] = bench[u]
  <2>1. bench[t] \in BenchRecord
    BY <1>3
  <2>2. PICK r : r = [bench[t] EXCEPT !.i = i, !.aCount = n, !.at = at]
    OBVIOUS
  <2>3. r \in BenchRecord /\ r.i = i /\ r.at = at /\ r.oldSigCounter = bench[t].oldSigCounter
    BY <1>9, <1>10, <1>11, <2>1, <2>2 DEF BenchRecord
  <2>4. bench' = [bench EXCEPT ![t] = r]
    BY <1>3, <1>8, <2>2
  <2>5. bench'[t] = r /\ \A u \in Threads \ {t} : bench'[u] = bench[u]
    BY <1>3, <2>4
  <2>6. bench' \in [Threads -> BenchRecord]
    BY <1>3, <2>3, <2>4
  <2> QED
    BY <2>3, <2>5, <2>6
<1>13. PICK d : d = CountUp(done[t], 1)
  OBVIOUS
<1>14. done' = [done EXCEPT ![t] = d] /\ d \in Nat /\ (done[t] < MaxCount => d = done[t] + 1)
  <2>1. done[t] \in Nat
    BY <1>3
  <2> QED
    BY <1>13, <2>1, CountUpEffect DEF Iterate
<1>15. Typed' /\ OptionsChosen' /\ NotStarted' /\ AtEnd'
  BY <1>1, <1>2, <1>3, <1>12, <1>14 DEF IInv, Typed, OptionsChosen, NotStarted, AtEnd
<1>16. InChunk'
  BY <1>1, <1>2, <1>9, <1>10, <1>12 DEF IInv, InChunk
<1>17. Handling' = Handling /\ Cardinality(Handling) \in Nat
  BY <1>1, HandlingCounted DEF Handling
<1>18. CASE t # LastThread
  <2>1. Late' = Late /\ Current' = Current /\ done'[LastThread] = done[LastThread]
    BY <1>1, <1>3, <1>12, <1>14, <1>18, LastIsThread DEF Late, Current
  <2> QED
    BY <1>1, <1>15, <1>16, <1>17, <2>1 DEF IInv, Budget
<1>19. CASE t = LastThread
  <2>1. PICK old \in Nat : old = bench[t].i
    BY <1>9
  <2>2. PICK before \in Nat : before = done[t]
    BY <1>3
  <2>3. PICK iter \in Nat : iter = options.iter
    BY <1>2 DEF IInv, OptionsChosen, OptionRecord
  <2>4. PICK s \in Nat : s = sent
    BY <1>3, DistgenAssumption
  <2>5. Late = IF signalled THEN 1 ELSE 0
    BY <1>1, <1>4, <1>19 DEF Late
  <2>6. Late' = 0
    BY <1>1, <1>4, <1>10, <1>12, <1>19 DEF Late
  <2>7. Current = old /\ Current' = i /\ done'[LastThread] = d
    BY <1>1, <1>2, <1>3, <1>12, <1>14, <1>19, <2>1, LastIsThread DEF Current
  <2>8. ii + old <= before /\ before + Late + Cardinality(Handling) <= ii + old + s
    BY <1>19, <2>2, <2>4, <2>7 DEF IInv, Budget
  <2>9. d = before + 1
    <3>1. s <= MaxSignals
      BY <1>3, <2>4, DistgenAssumption
    <3>2. iter + MaxSignals <= MaxCount
      BY <1>2, <2>3 DEF IInv, OptionsChosen
    <3>3. old < iiTodo /\ iiTodo <= iter - ii
      BY <1>2, <1>9, <2>1, <2>3 DEF IInv, InChunk
    <3>4. ii + old < iter
      BY <1>3, <3>3
    <3>5. before <= ii + old + s
      BY <1>3, <1>17, <2>5, <2>8
    <3>6. before < MaxCount
      BY <1>3, <3>1, <3>2, <3>4, <3>5, DistgenAssumption
    <3> QED
      BY <1>14, <2>2, <3>6
  <2>10. ii + i <= d /\ d + 0 + Cardinality(Handling) <= ii + i + s
    <3>1. i = IF signalled THEN old ELSE old + 1
      BY <1>5, <2>1
    <3> QED
      BY <1>3, <1>17, <2>5, <2>8, <2>9, <3>1
  <2>11. Budget'
    BY <1>1, <1>17, <2>4, <2>6, <2>7, <2>10 DEF Budget
  <2> QED
    BY <1>15, <1>16, <2>11 DEF IInv
<1> QED
  BY <1>18, <1>19

(***************************************************************************)
(* What the accounting of iterations rests on.                             *)
(***************************************************************************)
THEOREM Invariant == Spec => []IInv
<1>1. Init => IInv
  BY InvInit
<1>2. IInv /\ [Next]_vars => IInv'
  <2> SUFFICES ASSUME IInv, [Next]_vars
               PROVE  IInv'
    OBVIOUS
  <2>1. CASE (\E size \in Sizes : addDist(size)) \/ (\E o \in Options : parseOptions(o))
    BY <2>1, CommandLineStep
  <2>2. CASE Setup
    BY <2>2, SetupStep
  <2>3. CASE Join
    BY <2>3, JoinStep
  <2>4. ASSUME NEW t \in Threads, StartBench(t)
        PROVE  IInv'
    BY <2>4, StartBenchStep
  <2>5. ASSUME NEW t \in Threads, Iterate(t)
        PROVE  IInv'
    BY <2>5, IterateStep
  <2>6. ASSUME NEW t \in Threads, Signal(t)
        PROVE  IInv'
    BY <2>6, SignalStep
  <2>7. ASSUME NEW t \in Threads, CountSignal(t)
        PROVE  IInv'
    BY <2>7, CountSignalStep
  <2>8. CASE UNCHANGED vars
    BY <2>8 DEF vars, IInv, Typed, OptionsChosen, NotStarted, InChunk, AtEnd,
                Budget, Late, Current, Handling
  <2> QED
    BY <2>1, <2>2, <2>3, <2>4, <2>5, <2>6, <2>7, <2>8 DEF Next, Step
<1> QED
  BY <1>1, <1>2, PTL DEF Spec

(***************************************************************************)
(* Without -b the last thread does the iterations asked for, and at most   *)
(* one more for each signal, whichever thread handles it and whichever     *)
(* other signal overwrites its count.                                      *)
(***************************************************************************)
THEOREM IterationsAccounted == Spec => []IterationsDone
<1>1. IInv => IterationsDone
  <2> SUFFICES ASSUME IInv, phase = "end", ~options.stopOnSigUSR1
               PROVE  done[tcount - 1] \in options.iter .. options.iter + sent
    BY DEF IterationsDone
  <2>1. ii = options.iter
    BY DEF IInv, AtEnd
  <2>2. Late \in {0, 1} /\ Current = 0 /\ Cardinality(Handling) \in Nat
    BY HandlingCounted DEF Late, Current
  <2>3. done[LastThread] \in Nat /\ sent \in Nat /\ ii \in Nat
    BY LastIsThread, DistgenAssumption DEF IInv, Typed
  <2>4. ii <= done[LastThread] /\ done[LastThread] <= ii + sent
    BY <2>2, <2>3 DEF IInv, Budget
  <2> QED
    BY <2>1, <2>3, <2>4 DEF LastThread
<1> QED
  BY <1>1, Invariant, PTL

(***************************************************************************)
(* The type invariant: a chunk is never longer than what is left to do or  *)
(* than what statistics are asked for, and no thread goes beyond it.       *)
(***************************************************************************)
THEOREM TypeCorrect == Spec => []TypeOK
<1>1. IInv /\ DistancesSorted => TypeOK
  <2> SUFFICES ASSUME IInv, DistancesSorted PROVE TypeOK
    OBVIOUS
  <2>1. distSize \in Seq(Nat) /\ Len(distSize) <= MAXDISTCOUNT
    <3>1. PICK n \in Nat : n <= MAXDISTCOUNT /\ Descends(distSize, n)
      BY DEF DistancesSorted
    <3> QED
      BY <3>1 DEF Descends
  <2>2. ASSUME NEW t \in Threads, bench[t].at \in {"ready", "running"}
        PROVE  bench[t].i \in 0 .. iiTodo - 1
    <3>1. phase = "running"
      BY <2>2 DEF IInv, Typed, NotStarted, AtEnd
    <3>2. bench[t].i < iiTodo /\ bench[t].i \in Nat /\ iiTodo \in Nat
      BY <2>2, <3>1 DEF IInv, InChunk, Typed, BenchRecord
    <3> QED
      BY <3>2
  <2>3. ASSUME phase = "running"
        PROVE  ii < options.iter /\ iiTodo \in 1 .. options.iters_perstat
    <3>1. iiTodo \in Nat /\ iiTodo >= 1 /\ iiTodo <= options.iters_perstat /\ ii < options.iter
      BY <2>3 DEF IInv, InChunk, Typed
    <3>2. options.iters_perstat \in Nat
      BY <2>3 DEF IInv, OptionsChosen, OptionRecord
    <3> QED
      BY <3>1, <3>2
  <2> QED
    BY <2>1, <2>2, <2>3 DEF IInv, Typed, TypeOK
<1> QED
  BY <1>1, Invariant, SortedAlways, PTL

-----------------------------------------------------------------------------
\* What is added up already and what the threads have counted since is what
\* they have done.
Accounted ==
  /\ \A t \in Threads : bench[t].aCount <= MaxCount /\ done[t] <= MaxCount
  /\ phase = "running" => CountUp(aCount, SumOf(ChunkCounts)) = CountUp(0, SumOf(done))
  /\ phase = "end" => aCount = CountUp(0, SumOf(done))

\* Nothing is done before the loop starts.
LEMMA AccountedInit == Init => Accounted
<1> SUFFICES ASSUME Init PROVE Accounted
  OBVIOUS
<1>1. \A t \in Threads : bench[t].aCount = 0 /\ done[t] = 0
  BY DEF Init, NoBench
<1> QED
  BY <1>1, DistgenAssumption DEF Init, Accounted

\* The threads of a first chunk have counted nothing.
LEMMA AccountedSetup ==
  ASSUME IInv, Accounted, Setup
  PROVE  Accounted'
<1> SUFFICES ASSUME ~Overruns PROVE Accounted'
  BY DEF Setup, Overruns, Accounted
<1>1. /\ phase = "init" /\ phase' = "running" /\ Fork(0) /\ UNCHANGED <<options, aCount, done>>
  BY DEF Setup, Overruns
<1>2. options \in OptionRecord /\ 0 < options.iter
  BY <1>1 DEF IInv, OptionsChosen, OptionRecord
<1>3. \A t \in Threads : bench'[t].aCount = 0
  BY <1>1, <1>2, ForkEffect
<1>4. aCount = 0 /\ \A t \in Threads : done[t] = 0
  BY <1>1 DEF IInv, NotStarted
<1>5. SumOf(ChunkCounts') = 0
  <2>1. \A t \in Threads : ChunkCounts'[t] = 0
    BY <1>3 DEF ChunkCounts
  <2> QED
    BY <2>1, SumOfZero
<1>6. SumOf(done') = 0
  BY <1>1, <1>4, SumOfZero
<1> QED
  BY <1>1, <1>3, <1>4, <1>5, <1>6, DistgenAssumption DEF Accounted

\* The reduction moves what the threads have counted to aCount.
LEMMA AccountedJoin ==
  ASSUME IInv, Accounted, Join
  PROVE  Accounted'
<1>1. /\ phase = "running" /\ ii' = ii + iiDone /\ aCount' = Reduced
      /\ UNCHANGED <<options, done>>
  BY DEF Join, setup
<1>2. /\ done \in [Threads -> Nat] /\ SumOf(done) \in Nat
      /\ \A t \in Threads : bench[t].aCount <= MaxCount /\ done[t] <= MaxCount
  BY SumOfNat DEF IInv, Typed, Accounted
<1>3. aCount' = CountUp(0, SumOf(done))
  BY <1>1, ReducedIs DEF Accounted
<1>4. CASE Stops
  <2>1. phase' = "end" /\ UNCHANGED bench
    BY <1>4 DEF Join
  <2> QED
    BY <1>1, <1>2, <1>3, <2>1 DEF Accounted
<1>5. CASE ~Stops
  <2>1. Fork(ii + iiDone) /\ phase' = "running"
    BY <1>1, <1>5 DEF Join
  <2>2. \A t \in Threads : bench'[t].aCount = 0
    BY <2>1 DEF Fork, NoBench
  <2>3. SumOf(ChunkCounts') = 0
    <3>1. \A t \in Threads : ChunkCounts'[t] = 0
      BY <2>2 DEF ChunkCounts
    <3> QED
      BY <3>1, SumOfZero
  <2>4. PICK a : a = CountUp(0, SumOf(done))
    OBVIOUS
  <2>5. a \in Nat /\ a <= MaxCount
    BY <1>2, <2>4, CountUpIs
  <2>6. CountUp(a, 0) = a
    BY <2>5, CountUpIs
  <2>7. CountUp(aCount', SumOf(ChunkCounts')) = CountUp(0, SumOf(done'))
    BY <1>1, <1>3, <2>3, <2>4, <2>6
  <2> QED
    BY <1>1, <1>2, <2>1, <2>2, <2>7, DistgenAssumption DEF Accounted
<1> QED
  BY <1>4, <1>5

\* A count of a thread goes up by one, or stays where counts end.
LEMMA OneMoreCounted ==
  ASSUME NEW f \in [Threads -> Nat], \A u \in Threads : f[u] <= MaxCount,
         NEW g, NEW t \in Threads,
         g[t] = CountUp(f[t], 1), \A u \in Threads \ {t} : g[u] = f[u]
  PROVE  /\ g[t] <= MaxCount /\ SumOf(f) \in Nat
         /\ SumOf(g) = SumOf(f) + 1 \/ (SumOf(g) = SumOf(f) /\ SumOf(f) >= MaxCount)
<1>1. SumOf(f) \in Nat /\ f[t] <= SumOf(f) /\ f[t] \in Nat /\ f[t] <= MaxCount
  BY SumOfNat
<1>2. g[t] = IF f[t] + 1 <= MaxCount THEN f[t] + 1 ELSE MaxCount
  BY <1>1, CountUpIs
<1>3. PICK more \in {0, 1} : g[t] = f[t] + more /\ (more = 0 => f[t] = MaxCount)
  <2>1. CASE f[t] + 1 <= MaxCount
    BY <1>1, <1>2, <2>1
  <2>2. CASE ~(f[t] + 1 <= MaxCount)
    <3>1. f[t] = MaxCount
      BY <1>1, <2>2, DistgenAssumption
    <3> QED
      BY <1>1, <1>2, <2>2, <3>1
  <2> QED
    BY <2>1, <2>2
<1>4. SumOf(g) = SumOf(f) + more
  BY <1>3, SumOfOneMore
<1> QED
  BY <1>1, <1>2, <1>3, <1>4, DistgenAssumption

\* An iteration is counted for its chunk and in what is done.
LEMMA AccountedIterate ==
  ASSUME IInv, Accounted, NEW t \in Threads, Iterate(t)
  PROVE  Accounted'
<1>1. bench[t].at = "running" /\ UNCHANGED <<phase, aCount>>
  BY DEF Iterate
<1>2. phase = "running"
  BY <1>1 DEF IInv, Typed, NotStarted, AtEnd
<1>3. bench \in [Threads -> BenchRecord] /\ done \in [Threads -> Nat] /\ aCount \in Nat
  BY DEF IInv, Typed
<1>4. PICK b : b = ChunkCounts
  OBVIOUS
<1>5. PICK c : c = ChunkCounts'
  OBVIOUS
<1>6. b \in [Threads -> Nat] /\ \A u \in Threads : b[u] <= MaxCount /\ b[u] = bench[u].aCount
  BY <1>4, ReducedIs DEF Accounted, ChunkCounts
<1>7. \A u \in Threads : c[u] = bench'[u].aCount
  BY <1>5 DEF ChunkCounts
<1>8. /\ bench'[t].aCount = CountUp(bench[t].aCount, 1)
      /\ \A u \in Threads \ {t} : bench'[u] = bench[u]
  <2>1. PICK i, at : bench' = [bench EXCEPT ![t].i = i, ![t].aCount = CountUp(@, 1), ![t].at = at]
    BY DEF Iterate
  <2> QED
    BY <1>3, <2>1 DEF BenchRecord
<1>9. c[t] = CountUp(b[t], 1) /\ \A u \in Threads \ {t} : c[u] = b[u]
  BY <1>6, <1>7, <1>8
<1>10. /\ c[t] <= MaxCount /\ SumOf(b) \in Nat
       /\ SumOf(c) = SumOf(b) + 1 \/ (SumOf(c) = SumOf(b) /\ SumOf(b) >= MaxCount)
  BY <1>6, <1>9, OneMoreCounted
<1>11. done'[t] = CountUp(done[t], 1) /\ \A u \in Threads \ {t} : done'[u] = done[u]
  BY <1>3 DEF Iterate
<1>12. \A u \in Threads : done[u] <= MaxCount
  BY DEF Accounted
<1>13. PICK d : d = done'
  OBVIOUS
<1>14. /\ d[t] <= MaxCount /\ SumOf(done) \in Nat
       /\ SumOf(d) = SumOf(done) + 1 \/ (SumOf(d) = SumOf(done) /\ SumOf(done) >= MaxCount)
  BY <1>3, <1>11, <1>12, <1>13, OneMoreCounted
<1>15. CountUp(aCount, SumOf(c)) = CountUp(0, SumOf(d))
  <2>1. CountUp(aCount, SumOf(b)) = CountUp(0, SumOf(done))
    BY <1>2, <1>4 DEF Accounted
  <2>2. SumOf(c) \in Nat /\ SumOf(d) \in Nat
    BY <1>10, <1>14
  <2>3. CountUp(aCount, SumOf(b)) = IF aCount + SumOf(b) <= MaxCount THEN aCount + SumOf(b) ELSE MaxCount
    BY <1>3, <1>10, CountUpIs
  <2>4. CountUp(0, SumOf(done)) = IF SumOf(done) <= MaxCount THEN SumOf(done) ELSE MaxCount
    BY <1>14, CountUpFromZero
  <2>5. CountUp(aCount, SumOf(c)) = IF aCount + SumOf(c) <= MaxCount THEN aCount + SumOf(c) ELSE MaxCount
    BY <1>3, <2>2, CountUpIs
  <2>6. CountUp(0, SumOf(d)) = IF SumOf(d) <= MaxCount THEN SumOf(d) ELSE MaxCount
    BY <2>2, CountUpFromZero
  <2> QED
    BY <1>3, <1>10, <1>14, <2>1, <2>2, <2>3, <2>4, <2>5, <2>6, DistgenAssumption
<1>16. \A u \in Threads : bench'[u].aCount <= MaxCount /\ done'[u] <= MaxCount
  <2> TAKE u \in Threads
  <2>1. CASE u = t
    BY <1>7, <1>10, <1>13, <1>14, <2>1
  <2>2. CASE u # t
    BY <1>6, <1>8, <1>11, <1>12, <2>2
  <2> QED
    BY <2>1, <2>2
<1> QED
  BY <1>1, <1>2, <1>5, <1>13, <1>15, <1>16 DEF Accounted

(***************************************************************************)
(* At the end aCount is the number of iterations all threads have done,    *)
(* whichever chunks were cut short for whom: the iteration that a signal   *)
(* keeps from being counted in ii is accounted for.                        *)
(***************************************************************************)
THEOREM AllAccounted == Spec => []AccessesAccounted
<1>1. IInv /\ Accounted /\ [Next]_vars => Accounted'
  <2> SUFFICES ASSUME IInv, Accounted, [Next]_vars PROVE Accounted'
    OBVIOUS
  <2>1. ASSUME phase' = phase \/ phase' \notin {"running", "end"},
               aCount' = aCount, done' = done,
               \A t \in Threads : bench'[t].aCount = bench[t].aCount
        PROVE  Accounted'
    <3>1. ChunkCounts' = ChunkCounts
      BY <2>1 DEF ChunkCounts
    <3> QED
      BY <2>1, <3>1 DEF Accounted
  <2>2. CASE \E size \in Sizes : addDist(size)
    <3>1. phase' \notin {"running", "end"} /\ UNCHANGED <<aCount, done, bench>>
      BY <2>2 DEF addDist
    <3> QED
      BY <2>1, <3>1
  <2>3. CASE \E o \in Options : parseOptions(o)
    <3>1. phase' \notin {"running", "end"} /\ UNCHANGED <<aCount, done, bench>>
      BY <2>3 DEF parseOptions
    <3> QED
      BY <2>1, <3>1
  <2>4. CASE Setup
    BY <2>4, AccountedSetup
  <2>5. CASE Join
    BY <2>5, AccountedJoin
  <2>6. ASSUME NEW t \in Threads, StartBench(t) PROVE Accounted'
    <3>1. \A u \in Threads : bench'[u].aCount = bench[u].aCount
      BY <2>6 DEF StartBench, IInv, Typed, BenchRecord
    <3>2. UNCHANGED <<phase, aCount, done>>
      BY <2>6 DEF StartBench
    <3> QED
      BY <2>1, <3>1, <3>2
  <2>7. ASSUME NEW t \in Threads, Iterate(t) PROVE Accounted'
    BY <2>7, AccountedIterate
  <2>8. ASSUME NEW t \in Threads, Signal(t) \/ CountSignal(t) PROVE Accounted'
    BY <2>1, <2>8 DEF Signal, CountSignal
  <2>9. CASE UNCHANGED vars
    BY <2>1, <2>9 DEF vars
  <2> QED
    BY <2>2, <2>3, <2>4, <2>5, <2>6, <2>7, <2>8, <2>9 DEF Next, Step
<1>2. Accounted => AccessesAccounted
  BY DEF Accounted, AccessesAccounted
<1> QED
  BY <1>1, <1>2, AccountedInit, Invariant, PTL DEF Spec

-----------------------------------------------------------------------------
\* Division with remainder.
LEMMA Remainder ==
  ASSUME NEW a \in Nat, NEW b \in Nat \ {0}
  PROVE  a % b \in Nat /\ a % b < b /\ a = b * (a \div b) + (a % b) /\ a \div b \in Nat
<1>1. a % b \in Nat
  OBVIOUS
<1>2. a % b < b
  OBVIOUS
<1>3. a \div b \in Nat
  OBVIOUS
<1>4. a = b * (a \div b) + (a % b)
  <2>1. a \in Int /\ b \in Int /\ b > 0
    OBVIOUS
  <2> QED
    BY <2>1, Z3
<1> QED
  BY <1>1, <1>2, <1>3, <1>4

\* The remainder is the one number below b that is left.
LEMMA RemainderIs ==
  ASSUME NEW b \in Nat \ {0}, NEW q \in Nat, NEW r \in Nat, r < b
  PROVE  (q * b + r) % b = r
<1>0. PICK a \in Nat : a = q * b + r
  OBVIOUS
<1>1. PICK p \in Nat : p = a \div b
  BY Remainder
<1>2. PICK s \in Nat : s = a % b /\ s < b
  BY Remainder
<1>3. q * b + r = b * p + s
  BY <1>0, <1>1, <1>2, Remainder
<1>4. (q - p) * b = s - r
  BY <1>3
<1>5. CASE q - p >= 1
  <2>1. (q - p) * b >= b
    BY <1>5
  <2> QED
    BY <1>2, <1>4, <2>1
<1>6. CASE q - p <= -1
  <2>1. (q - p) * b <= -b
    BY <1>6
  <2> QED
    BY <1>2, <1>4, <2>1
<1>7. CASE q - p = 0
  BY <1>2, <1>4, <1>7
<1> QED
  BY <1>0, <1>2, <1>5, <1>6, <1>7

\* g is gcd, as far as b goes up to n.
IsGcd(g, n) ==
  \A a \in Nat : \A b \in 0 .. n : g[a][b] = IF b = 0 THEN a ELSE g[b][a % b]

\* Two functions that are gcd so far agree so far.
LEMMA GcdAgree ==
  ASSUME NEW n \in Nat, NEW m \in Nat, NEW g, NEW h, IsGcd(g, n), IsGcd(h, m)
  PROVE  \A a \in Nat, b \in Nat : b <= n /\ b <= m => g[a][b] = h[a][b]
<1>1. PICK S : S = {k \in Nat : \A b \in 0 .. k : b <= n /\ b <= m => \A a \in Nat : g[a][b] = h[a][b]}
  OBVIOUS
<1>2. 0 \in S
  <2>1. \A b \in 0 .. 0 : b = 0 /\ b \in 0 .. n /\ b \in 0 .. m
    OBVIOUS
  <2>2. \A a \in Nat : g[a][0] = a /\ h[a][0] = a
    BY <2>1 DEF IsGcd
  <2> QED
    BY <1>1, <2>1, <2>2
<1>3. ASSUME NEW k \in S PROVE k + 1 \in S
  <2>1. k \in Nat /\ \A b \in 0 .. k : b <= n /\ b <= m => \A a \in Nat : g[a][b] = h[a][b]
    BY <1>1
  <2>2. ASSUME NEW b \in 0 .. k + 1, b <= n, b <= m, NEW a \in Nat
        PROVE  g[a][b] = h[a][b]
    <3>1. CASE b \in 0 .. k
      BY <2>1, <2>2, <3>1
    <3>2. CASE b = k + 1
      <4>1. b \in Nat \ {0} /\ b \in 0 .. n /\ b \in 0 .. m
        BY <2>1, <2>2, <3>2
      <4>2. g[a][b] = g[b][a % b] /\ h[a][b] = h[b][a % b]
        BY <4>1 DEF IsGcd
      <4>3. PICK r \in Nat : r = a % b /\ r < b
        BY <4>1, Remainder
      <4>4. r \in 0 .. k /\ r <= n /\ r <= m
        BY <2>1, <2>2, <3>2, <4>3
      <4>5. g[b][r] = h[b][r]
        BY <2>1, <4>1, <4>4
      <4> QED
        BY <4>2, <4>3, <4>5
    <3> QED
      BY <2>1, <3>1, <3>2
  <2> QED
    BY <1>1, <2>1, <2>2
<1>4. S = Nat
  <2>1. S \in SUBSET Nat
    BY <1>1
  <2> QED
    BY <1>2, <1>3, <2>1, Induction
<1>5. ASSUME NEW a \in Nat, NEW b \in Nat, b <= n, b <= m PROVE g[a][b] = h[a][b]
  <2>1. b \in S /\ b \in 0 .. b
    BY <1>4
  <2> QED
    BY <1>1, <1>5, <2>1
<1> QED
  BY <1>5

\* There is one for every n.
LEMMA GcdUpTo == \A n \in Nat : \E g : IsGcd(g, n)
<1>1. PICK S : S = {n \in Nat : \E g : IsGcd(g, n)}
  OBVIOUS
<1>2. 0 \in S
  <2>1. PICK g : g = [a \in Nat |-> [b \in Nat |-> a]]
    OBVIOUS
  <2>2. \A a \in Nat : \A b \in 0 .. 0 : g[a][b] = IF b = 0 THEN a ELSE g[b][a % b]
    BY <2>1
  <2> QED
    BY <1>1, <2>2 DEF IsGcd
<1>3. ASSUME NEW n \in S PROVE n + 1 \in S
  <2>1. n \in Nat
    BY <1>1
  <2>2. PICK g : IsGcd(g, n)
    BY <1>1
  <2>3. PICK h : h = [a \in Nat |-> [b \in Nat |-> IF b = n + 1 THEN g[b][a % b] ELSE g[a][b]]]
    OBVIOUS
  <2>4. \A a \in Nat, b \in Nat : h[a][b] = IF b = n + 1 THEN g[b][a % b] ELSE g[a][b]
    BY <2>3
  <2>5. ASSUME NEW a \in Nat, NEW b \in 0 .. n + 1
        PROVE  h[a][b] = IF b = 0 THEN a ELSE h[b][a % b]
    <3>1. b \in Nat
      OBVIOUS
    <3>2. CASE b = 0
      <4>1. h[a][b] = g[a][b] /\ b \in 0 .. n
        BY <2>1, <2>4, <3>1, <3>2
      <4> QED
        BY <2>2, <3>2, <4>1 DEF IsGcd
    <3>3. CASE b # 0
      <4>1. PICK r \in Nat : r = a % b /\ r < b
        BY <3>1, <3>3, Remainder
      <4>2. h[b][r] = g[b][r]
        BY <2>1, <2>4, <3>1, <4>1
      <4>3. CASE b = n + 1
        BY <2>4, <3>1, <3>3, <4>1, <4>2, <4>3
      <4>4. CASE b # n + 1
        <5>1. b \in 0 .. n
          BY <2>1, <4>4
        <5>2. g[a][b] = g[b][r]
          BY <2>2, <3>3, <4>1, <5>1 DEF IsGcd
        <5> QED
          BY <2>4, <3>1, <3>3, <4>1, <4>2, <4>4, <5>2
      <4> QED
        BY <4>3, <4>4
    <3> QED
      BY <3>2, <3>3
  <2>6. IsGcd(h, n + 1)
    BY <2>5 DEF IsGcd
  <2> QED
    BY <1>1, <2>1, <2>6
<1>4. S = Nat
  <2>1. S \in SUBSET Nat
    BY <1>1
  <2> QED
    BY <1>2, <1>3, <2>1, Induction
<1> QED
  BY <1>1, <1>4

\* gcd is one for all n.
LEMMA GcdStep ==
  \A a \in Nat, b \in Nat : gcd[a][b] = IF b = 0 THEN a ELSE gcd[b][a % b]
<1>1. PICK G : G = [n \in Nat |-> CHOOSE g : IsGcd(g, n)]
  OBVIOUS
<1>2. \A n \in Nat : IsGcd(G[n], n)
  BY <1>1, GcdUpTo
<1>3. PICK h : h = [a \in Nat |-> [b \in Nat |-> G[b][a][b]]]
  OBVIOUS
<1>4. ASSUME NEW a \in Nat, NEW b \in Nat
      PROVE  h[a][b] = IF b = 0 THEN a ELSE h[b][a % b]
  <2>1. h[a][b] = G[b][a][b] /\ b \in 0 .. b
    BY <1>3
  <2>2. IsGcd(G[b], b)
    BY <1>2
  <2>3. G[b][a][b] = IF b = 0 THEN a ELSE G[b][b][a % b]
    BY <2>1, <2>2 DEF IsGcd
  <2>4. ASSUME b # 0 PROVE G[b][b][a % b] = h[b][a % b]
    <3>1. PICK r \in Nat : r = a % b /\ r < b
      BY <2>4, Remainder
    <3>2. h[b][r] = G[r][b][r]
      BY <1>3
    <3>3. IsGcd(G[r], r)
      BY <1>2
    <3>4. G[r][b][r] = G[b][b][r]
      BY <2>2, <3>1, <3>3, GcdAgree
    <3> QED
      BY <3>1, <3>2, <3>4
  <2> QED
    BY <2>1, <2>3, <2>4
<1>5. h = [a \in Nat |-> [b \in Nat |-> IF b = 0 THEN a ELSE h[b][a % b]]]
  BY <1>3, <1>4
<1>6. gcd = CHOOSE g : g = [a \in Nat |-> [b \in Nat |-> IF b = 0 THEN a ELSE g[b][a % b]]]
  BY DEF gcd
<1>7. gcd = [a \in Nat |-> [b \in Nat |-> IF b = 0 THEN a ELSE gcd[b][a % b]]]
  BY <1>5, <1>6
<1> QED
  BY <1>7

\* A number whose product with b is a multiple of a is a multiple of a itself.
Coprime(a, b) ==
  \A x, y \in Int : x * b = y * a => \E z \in Int : x = z * a

\* One step of Euclid's algorithm.
LEMMA CoprimeStep ==
  ASSUME NEW a \in Nat \ {0}, NEW b \in Nat \ {0}, NEW q \in Nat, NEW r \in Nat,
         a = b * q + r, Coprime(b, r)
  PROVE  Coprime(a, b)
<1> SUFFICES ASSUME NEW x \in Int, NEW y \in Int, x * b = y * a
             PROVE  \E z \in Int : x = z * a
  BY DEF Coprime
<1>1. y * r = (x - y * q) * b
  <2>1. y * a = y * (b * q) + y * r
    OBVIOUS
  <2>2. y * (b * q) = (y * q) * b
    OBVIOUS
  <2>3. (x - y * q) * b = x * b - (y * q) * b
    OBVIOUS
  <2>4. PICK u \in Int : u = (y * q) * b
    OBVIOUS
  <2>5. PICK v \in Int : v = y * r
    OBVIOUS
  <2>6. PICK w \in Int : w = x * b
    OBVIOUS
  <2>7. w = u + v
    BY <2>1, <2>2, <2>4, <2>5, <2>6
  <2> QED
    BY <2>3, <2>4, <2>5, <2>6, <2>7
<1>2. x - y * q \in Int
  OBVIOUS
<1>3. PICK z \in Int : y = z * b
  BY <1>1, <1>2 DEF Coprime
<1>4. (x - z * a) * b = 0
  <2>1. x * b = (z * b) * a
    BY <1>3
  <2>2. (z * b) * a = (z * a) * b
    OBVIOUS
  <2>3. (x - z * a) * b = x * b - (z * a) * b
    OBVIOUS
  <2>4. PICK u \in Int : u = (z * a) * b
    OBVIOUS
  <2>5. x * b = u
    BY <2>1, <2>2, <2>4
  <2> QED
    BY <2>3, <2>4, <2>5
<1>5. PICK d \in Int : d = x - z * a
  OBVIOUS
<1>6. d = 0
  BY <1>4, <1>5
<1>7. x = z * a
  BY <1>5, <1>6
<1> QED
  BY <1>7

(***************************************************************************)
(* What gcd() makes sure of.                                               *)
(***************************************************************************)
LEMMA GcdCoprime ==
  ASSUME NEW a \in Nat \ {0}, NEW b \in Nat, gcd[a][b] <= 1
  PROVE  Coprime(a, b)
<1>1. PICK S : S = {k \in Nat : \A n \in 0 .. k : \A m \in Nat \ {0} :
                      gcd[m][n] <= 1 => Coprime(m, n)}
  OBVIOUS
<1>2. 0 \in S
  <2>1. ASSUME NEW m \in Nat \ {0}, gcd[m][0] <= 1
        PROVE  Coprime(m, 0)
    <3>1. gcd[m][0] = m
      BY GcdStep
    <3>2. m = 1
      BY <2>1, <3>1
    <3>3. \A x \in Int : x = x * 1
      OBVIOUS
    <3> QED
      BY <3>2, <3>3 DEF Coprime
  <2>2. \A n \in 0 .. 0 : n = 0
    OBVIOUS
  <2> QED
    BY <1>1, <2>1, <2>2
<1>3. ASSUME NEW k \in S PROVE k + 1 \in S
  <2>1. /\ k \in Nat
        /\ \A n \in 0 .. k : \A m \in Nat \ {0} : gcd[m][n] <= 1 => Coprime(m, n)
    BY <1>1
  <2>2. ASSUME NEW n \in 0 .. k + 1, NEW m \in Nat \ {0}, gcd[m][n] <= 1
        PROVE  Coprime(m, n)
    <3>1. CASE n \in 0 .. k
      BY <2>1, <2>2, <3>1
    <3>2. CASE n = k + 1
      <4>1. n \in Nat \ {0}
        BY <2>1, <3>2
      <4>2. PICK q \in Nat : q = m \div n
        BY <4>1, Remainder
      <4>3. PICK r \in Nat : r = m % n /\ r < n
        BY <4>1, Remainder
      <4>4. m = n * q + r
        BY <4>1, <4>2, <4>3, Remainder
      <4>5. gcd[n][r] <= 1
        BY <2>2, <4>1, <4>3, GcdStep
      <4>6. r \in 0 .. k
        BY <2>1, <3>2, <4>3
      <4>7. Coprime(n, r)
        BY <2>1, <4>1, <4>5, <4>6
      <4> QED
        BY <4>1, <4>4, <4>7, CoprimeStep
    <3> QED
      BY <2>1, <3>1, <3>2
  <2> QED
    BY <1>1, <2>1, <2>2
<1>4. S = Nat
  <2>1. S \in SUBSET Nat
    BY <1>1
  <2> QED
    BY <1>2, <1>3, <2>1, Induction
<1>5. b \in S /\ b \in 0 .. b
  BY <1>4
<1> QED
  BY <1>1, <1>5

\* How far a block is on the way.
Position(k, m, d) == (k * d) % m

\* The way starts at block 0.
LEMMA PositionZero ==
  ASSUME NEW m \in Nat \ {0}, NEW d \in Nat
  PROVE  Position(0, m, d) = 0
<1>1. 0 * d = 0 /\ 0 * m + 0 = 0 /\ 0 < m
  OBVIOUS
<1>2. (0 * m + 0) % m = 0
  BY <1>1, RemainderIs
<1> QED
  BY <1>1, <1>2 DEF Position

\* A step on.
LEMMA PositionStep ==
  ASSUME NEW m \in Nat \ {0}, NEW d \in Nat, d <= m, NEW k \in Nat
  PROVE  /\ Position(0, m, d) = 0
         /\ Position(k, m, d) \in 0 .. m - 1
         /\ Position(k + 1, m, d) = Advance(Position(k, m, d), m, d)
<1>1. PICK a \in Nat : a = k * d
  OBVIOUS
<1>2. PICK q \in Nat : q = a \div m
  BY Remainder
<1>3. PICK r \in Nat : r = a % m /\ r < m
  BY Remainder
<1>4. a = m * q + r
  BY <1>2, <1>3, Remainder
<1>5. Position(k, m, d) = r
  BY <1>1, <1>3 DEF Position
<1>6. (k + 1) * d = a + d
  BY <1>1
<1>7. Position(k + 1, m, d) = (a + d) % m
  BY <1>6 DEF Position
<1>8. CASE r + d >= m
  <2>1. PICK s \in Nat : s = r + d - m
    BY <1>8
  <2>2. s < m
    BY <1>3, <2>1
  <2>3. PICK p \in Nat : p = q + 1
    OBVIOUS
  <2>4. p * m = q * m + m
    BY <2>3
  <2>5. a + d = p * m + s
    BY <1>4, <2>1, <2>4
  <2>6. (a + d) % m = s
    BY <2>2, <2>5, RemainderIs
  <2> QED
    BY <1>3, <1>5, <1>7, <1>8, <2>1, <2>6, PositionZero DEF Advance
<1>9. CASE ~(r + d >= m)
  <2>1. r + d \in Nat /\ r + d < m
    BY <1>3, <1>9
  <2>2. a + d = q * m + (r + d)
    BY <1>4
  <2>3. (a + d) % m = r + d
    BY <2>1, <2>2, RemainderIs
  <2> QED
    BY <1>3, <1>5, <1>7, <1>9, <2>3, PositionZero DEF Advance
<1> QED
  BY <1>8, <1>9

(***************************************************************************)
(* Without a common factor no block comes twice within one round.          *)
(***************************************************************************)
LEMMA PositionsDiffer ==
  ASSUME NEW m \in Nat \ {0}, NEW d \in Nat, Coprime(m, d),
         NEW k \in 0 .. m - 1, NEW l \in 0 .. m - 1, Position(k, m, d) = Position(l, m, d)
  PROVE  k = l
<1>1. PICK a \in Nat : a = k * d
  OBVIOUS
<1>2. PICK b \in Nat : b = l * d
  OBVIOUS
<1>3. PICK p \in Nat : p = a \div m
  BY Remainder
<1>4. PICK q \in Nat : q = b \div m
  BY Remainder
<1>5. PICK r \in Nat : r = a % m /\ r = b % m
  BY <1>1, <1>2, Remainder DEF Position
<1>6. a = m * p + r
  BY <1>3, <1>5, Remainder
<1>7. b = m * q + r
  BY <1>4, <1>5, Remainder
<1>8. (k - l) * d = a - b
  BY <1>1, <1>2
<1>9. (p - q) * m = a - b
  BY <1>6, <1>7
<1>10. PICK z \in Int : k - l = z * m
  <2>1. PICK x \in Int : x = k - l
    OBVIOUS
  <2>2. PICK y \in Int : y = p - q
    OBVIOUS
  <2>3. x * d = y * m
    BY <1>8, <1>9, <2>1, <2>2
  <2>4. PICK z \in Int : x = z * m
    BY <2>3 DEF Coprime
  <2> QED
    BY <2>1, <2>4
<1>11. CASE z >= 1
  <2>1. z * m >= m
    BY <1>11
  <2> QED
    BY <1>10, <2>1
<1>12. CASE z <= -1
  <2>1. z * m <= -m
    BY <1>12
  <2> QED
    BY <1>10, <2>1
<1>13. CASE z = 0
  BY <1>10, <1>13
<1> QED
  BY <1>11, <1>12, <1>13

(***************************************************************************)
(* One round comes through all blocks.                                     *)
(***************************************************************************)
LEMMA PositionsCover ==
  ASSUME NEW m \in Nat \ {0}, NEW d \in Nat, d <= m, Coprime(m, d), NEW b \in 0 .. m - 1
  PROVE  \E k \in 0 .. m - 1 : Position(k, m, d) = b
<1>1. PICK f : f = [k \in 0 .. m - 1 |-> Position(k, m, d)]
  OBVIOUS
<1>2. f \in [0 .. m - 1 -> 0 .. m - 1]
  <2>1. ASSUME NEW k \in 0 .. m - 1 PROVE Position(k, m, d) \in 0 .. m - 1
    <3>1. k \in Nat
      OBVIOUS
    <3> QED
      BY <3>1, PositionStep
  <2> QED
    BY <1>1, <2>1
<1>3. \A k, l \in 0 .. m - 1 : f[k] = f[l] => k = l
  BY <1>1, PositionsDiffer
<1>4. f \in Injection(0 .. m - 1, 0 .. m - 1)
  BY <1>2, <1>3, Fun_IsInj
<1>5. IsFiniteSet(0 .. m - 1)
  BY FS_Interval
<1>6. f \in Surjection(0 .. m - 1, 0 .. m - 1)
  <2>1. PICK S : S = 0 .. m - 1
    OBVIOUS
  <2>2. f \in Injection(S, S) /\ IsFiniteSet(S) /\ Cardinality(S) = Cardinality(S)
    BY <1>4, <1>5, <2>1, Zenon
  <2>3. f \in Surjection(S, S)
    BY <2>2, FS_Injection
  <2> QED
    BY <2>1, <2>3
<1>7. \E k \in 0 .. m - 1 : f[k] = b
  BY <1>6 DEF Surjection
<1> QED
  BY <1>1, <1>7

\* And back to the first one.
LEMMA PositionLast ==
  ASSUME NEW m \in Nat \ {0}, NEW d \in Nat
  PROVE  Position(m, m, d) = 0
<1>1. m * d = d * m + 0 /\ 0 < m
  OBVIOUS
<1>2. (d * m + 0) % m = 0
  BY <1>1, RemainderIs
<1> QED
  BY <1>1, <1>2 DEF Position

(***************************************************************************)
(* The way along the chain.                                                *)
(***************************************************************************)
LEMMA WalkIs ==
  ASSUME NEW m \in Nat \ {0}, NEW d \in Nat, d <= m, NEW n \in Nat
  PROVE  Walk(Chain(m, d), n) = [k \in 1 .. n |-> Position(k - 1, m, d)]
<1>0. PICK c : c = Chain(m, d)
  OBVIOUS
<1>1. \A b \in 0 .. m - 1 : c[b] = Advance(b, m, d)
  BY <1>0 DEF Chain
<1>2. PICK w : w = [k \in 1 .. n |-> Position(k - 1, m, d)]
  OBVIOUS
<1>3. ASSUME NEW k \in 1 .. n
      PROVE  w[k] = IF k = 1 THEN 0 ELSE c[w[k - 1]]
  <2>1. CASE k = 1
    <3>1. k - 1 = 0
      BY <2>1
    <3> QED
      BY <1>2, <2>1, <3>1, PositionZero
  <2>2. CASE k # 1
    <3>1. PICK j \in Nat : j = k - 2
      BY <2>2
    <3>2. k - 1 = j + 1 /\ k - 1 \in 1 .. n /\ (k - 1) - 1 = j
      BY <2>2, <3>1
    <3>3. w[k] = Position(j + 1, m, d) /\ w[k - 1] = Position(j, m, d)
      BY <1>2, <3>2
    <3>4. /\ Position(j, m, d) \in 0 .. m - 1
          /\ Position(j + 1, m, d) = Advance(Position(j, m, d), m, d)
      BY PositionStep
    <3> QED
      BY <1>1, <2>2, <3>3, <3>4
  <2> QED
    BY <2>1, <2>2
<1>4. w = [k \in 1 .. n |-> IF k = 1 THEN 0 ELSE c[w[k - 1]]]
  BY <1>2, <1>3
<1>5. PICK v : v = Walk(c, n)
  OBVIOUS
<1>6. v = CHOOSE f : f = [k \in 1 .. n |-> IF k = 1 THEN 0 ELSE c[f[k - 1]]]
  BY <1>5 DEF Walk
<1>7. v = [k \in 1 .. n |-> IF k = 1 THEN 0 ELSE c[v[k - 1]]]
  BY <1>4, <1>6
<1>8. \A k \in 1 .. n : v[k] = IF k = 1 THEN 0 ELSE c[v[k - 1]]
  BY <1>7
<1>9. PICK S : S = {k \in Nat : k + 1 <= n => v[k + 1] = w[k + 1]}
  OBVIOUS
<1>10. 0 \in S
  <2>1. ASSUME 1 <= n PROVE v[1] = w[1]
    <3>1. 1 \in 1 .. n
      BY <2>1
    <3> QED
      BY <1>3, <1>8, <3>1
  <2> QED
    BY <1>9, <2>1
<1>11. ASSUME NEW k \in S PROVE k + 1 \in S
  <2>1. k \in Nat /\ (k + 1 <= n => v[k + 1] = w[k + 1])
    BY <1>9
  <2>2. ASSUME k + 2 <= n PROVE v[k + 2] = w[k + 2]
    <3>1. k + 2 \in 1 .. n /\ k + 2 # 1 /\ (k + 2) - 1 = k + 1 /\ k + 1 <= n
      BY <2>1, <2>2
    <3>2. v[k + 2] = c[v[k + 1]] /\ w[k + 2] = c[w[k + 1]]
      BY <1>3, <1>8, <3>1
    <3> QED
      BY <2>1, <3>1, <3>2
  <2>3. (k + 1) + 1 = k + 2
    BY <2>1
  <2> QED
    BY <1>9, <2>1, <2>2, <2>3
<1>12. S = Nat
  <2>1. S \in SUBSET Nat
    BY <1>9
  <2> QED
    BY <1>10, <1>11, <2>1, Induction
<1>13. ASSUME NEW k \in 1 .. n PROVE v[k] = Position(k - 1, m, d)
  <2>1. k - 1 \in Nat /\ (k - 1) + 1 = k /\ k <= n
    OBVIOUS
  <2>2. v[k] = w[k]
    BY <1>9, <1>12, <2>1
  <2> QED
    BY <1>2, <2>2
<1>14. v = [k \in 1 .. n |-> v[k]]
  BY <1>7
<1>15. v = [k \in 1 .. n |-> Position(k - 1, m, d)]
  BY <1>13, <1>14
<1> QED
  BY <1>0, <1>5, <1>15

\* The chain of a buffer whose number of blocks has no factor of the increment.
LEMMA ChainCovers ==
  ASSUME NEW m \in Nat \ {0}, NEW d \in Nat, d <= m, Coprime(m, d),
         NEW way, way = Walk(Chain(m, d), m + 1)
  PROVE  {way[k] : k \in 1 .. m} = 0 .. m - 1 /\ way[m + 1] = 0
<1>1. \A k \in 1 .. m + 1 : way[k] = Position(k - 1, m, d)
  <2>1. way = [k \in 1 .. m + 1 |-> Position(k - 1, m, d)]
    BY WalkIs
  <2> QED
    BY <2>1
<1>2. ASSUME NEW k \in 1 .. m PROVE way[k] \in 0 .. m - 1
  <2>1. k \in 1 .. m + 1 /\ k - 1 \in Nat
    OBVIOUS
  <2> QED
    BY <1>1, <2>1, PositionStep
<1>3. ASSUME NEW b \in 0 .. m - 1 PROVE \E k \in 1 .. m : way[k] = b
  <2>1. PICK k \in 0 .. m - 1 : Position(k, m, d) = b
    BY PositionsCover
  <2>2. k + 1 \in 1 .. m /\ k + 1 \in 1 .. m + 1 /\ (k + 1) - 1 = k
    OBVIOUS
  <2>3. way[k + 1] = b
    BY <1>1, <2>1, <2>2
  <2> QED
    BY <2>2, <2>3
<1>4. way[m + 1] = 0
  <2>1. m + 1 \in 1 .. m + 1 /\ (m + 1) - 1 = m
    OBVIOUS
  <2> QED
    BY <1>1, <2>1, PositionLast
<1> QED
  BY <1>2, <1>3, <1>4

\* A number one more than a multiple of d has no factor of d.
LEMMA GcdOfOneMore ==
  ASSUME NEW d \in Nat \ {0}, NEW q \in Nat, NEW n \in Nat, n = q * d + 1
  PROVE  gcd[n][d] = 1
<1>1. gcd[1][0] = 1
  BY GcdStep
<1>2. \A k \in Nat : k % 1 = 0
  <2>1. ASSUME NEW k \in Nat PROVE k % 1 = 0
    <3>1. k = k * 1 + 0
      OBVIOUS
    <3> QED
      BY <3>1, RemainderIs
  <2> QED
    BY <2>1
<1>3. \A k \in Nat : gcd[k][1] = 1
  BY <1>1, <1>2, GcdStep
<1>4. CASE d = 1
  BY <1>3, <1>4
<1>5. CASE d # 1
  <2>1. 1 < d
    BY <1>5
  <2>2. (q * d + 1) % d = 1
    BY <2>1, RemainderIs
  <2>3. gcd[n][d] = gcd[d][1]
    BY <2>2, GcdStep
  <2> QED
    BY <1>3, <2>3
<1> QED
  BY <1>4, <1>5

(***************************************************************************)
(* A number that an int can hold is returned as it is.                     *)
(***************************************************************************)
LEMMA ToIntIs ==
  ASSUME NEW n \in Nat, n <= INT_MAX
  PROVE  ToInt(n) = n
<1>1. PICK range \in Nat : range = 2 * (INT_MAX + 1) /\ n < range
  BY TraversalAssumption
<1>2. n % range = n
  <2>1. 0 * range + n = n
    OBVIOUS
  <2>2. (0 * range + n) % range = n
    BY <1>1, RemainderIs
  <2> QED
    BY <2>1, <2>2
<1> QED
  BY <1>1, <1>2 DEF ToInt

(***************************************************************************)
(* gcd() is not beyond its first argument, if the second one is not.       *)
(***************************************************************************)
LEMMA GcdBelow ==
  ASSUME NEW a \in Nat, NEW b \in Nat, b <= a
  PROVE  gcd[a][b] \in Nat /\ gcd[a][b] <= a
<1>1. PICK S : S = {k \in Nat : \A n \in 0 .. k : \A m \in Nat :
                      n <= m => gcd[m][n] \in Nat /\ gcd[m][n] <= m}
  OBVIOUS
<1>2. 0 \in S
  <2>1. \A n \in 0 .. 0 : \A m \in Nat : gcd[m][n] = m
    BY GcdStep
  <2> QED
    BY <1>1, <2>1
<1>3. ASSUME NEW k \in S PROVE k + 1 \in S
  <2>1. /\ k \in Nat
        /\ \A n \in 0 .. k : \A m \in Nat : n <= m => gcd[m][n] \in Nat /\ gcd[m][n] <= m
    BY <1>1
  <2>2. ASSUME NEW n \in 0 .. k + 1, NEW m \in Nat, n <= m
        PROVE  gcd[m][n] \in Nat /\ gcd[m][n] <= m
    <3>1. CASE n \in 0 .. k
      BY <2>1, <2>2, <3>1
    <3>2. CASE n = k + 1
      <4>1. n \in Nat \ {0}
        BY <2>1, <3>2
      <4>2. PICK r \in Nat : r = m % n /\ r < n
        BY <4>1, Remainder
      <4>3. gcd[m][n] = gcd[n][r]
        BY <4>1, <4>2, GcdStep
      <4>4. r \in 0 .. k /\ r <= n
        BY <2>1, <3>2, <4>2
      <4>5. gcd[n][r] \in Nat /\ gcd[n][r] <= n
        BY <2>1, <4>1, <4>4
      <4> QED
        BY <2>2, <4>1, <4>3, <4>5
    <3> QED
      BY <2>1, <3>1, <3>2
  <2> QED
    BY <1>1, <2>1, <2>2
<1>4. S = Nat
  <2>1. S \in SUBSET Nat
    BY <1>1
  <2> QED
    BY <1>2, <1>3, <2>1, Induction
<1>5. b \in S /\ b \in 0 .. b
  BY <1>4
<1> QED
  BY <1>1, <1>5

(***************************************************************************)
(* adjustSize() finds a size without a common factor, if only 1 is left    *)
(* to go with no increment at all.  If it is an int, it is returned.       *)
(***************************************************************************)
LEMMA AdjustedSize ==
  ASSUME NEW size \in Nat \ {0}, NEW d \in Nat, d <= size, d = 0 => size = 1,
         Adjusted(size, d) <= INT_MAX
  PROVE  /\ adjustSize(size, d) \in Nat /\ adjustSize(size, d) >= size
         /\ Coprime(adjustSize(size, d), d)
<1>0. ToInt(1) = 1
  BY ToIntIs, TraversalAssumption
<1>1. PICK S : S = {n \in size .. size + d : ToInt(gcd[n][d]) <= 1}
  OBVIOUS
<1>2. S # {}
  <2>1. CASE d = 0
    <3>1. gcd[1][0] = 1 /\ 1 \in size .. size + d
      BY <2>1, GcdStep
    <3> QED
      BY <1>0, <1>1, <2>1, <3>1
  <2>2. CASE d # 0
    <3>1. PICK q \in Nat : q = size \div d
      BY <2>2, Remainder
    <3>2. PICK r \in Nat : r = size % d /\ r < d
      BY <2>2, Remainder
    <3>3. size = d * q + r
      BY <2>2, <3>1, <3>2, Remainder
    <3>4. PICK n \in Nat, p \in Nat : n \in size .. size + d /\ n = p * d + 1
      <4>1. CASE r <= 1
        <5>1. q * d + 1 \in size .. size + d /\ q * d + 1 \in Nat
          BY <3>2, <3>3, <4>1, <2>2
        <5> QED
          BY <5>1
      <4>2. CASE r > 1
        <5>1. PICK p \in Nat : p = q + 1
          OBVIOUS
        <5>2. p * d = q * d + d
          BY <5>1
        <5>3. p * d + 1 \in size .. size + d /\ p * d + 1 \in Nat
          BY <3>2, <3>3, <4>2, <5>2
        <5> QED
          BY <5>3
      <4> QED
        BY <4>1, <4>2
    <3>5. gcd[n][d] = 1
      BY <2>2, <3>4, GcdOfOneMore
    <3> QED
      BY <1>0, <1>1, <3>4, <3>5
  <2> QED
    BY <2>1, <2>2
<1>3. S \in SUBSET Nat
  BY <1>1
<1>4. PICK m : m = Adjusted(size, d)
  OBVIOUS
<1>5. m = Min(S)
  BY <1>1, <1>4 DEF Adjusted
<1>6. m \in S
  BY <1>2, <1>3, <1>5, MinExists
<1>7. m \in Nat \ {0} /\ m >= size /\ m <= INT_MAX /\ ToInt(gcd[m][d]) <= 1
  BY <1>1, <1>4, <1>6
<1>8. gcd[m][d] \in Nat /\ gcd[m][d] <= m
  BY <1>7, GcdBelow
<1>9. gcd[m][d] <= 1
  <2>1. PICK g \in Nat : g = gcd[m][d] /\ g <= INT_MAX
    BY <1>7, <1>8, TraversalAssumption
  <2> QED
    BY <1>7, <2>1, ToIntIs
<1>10. adjustSize(size, d) = m
  BY <1>4, <1>7, ToIntIs DEF adjustSize
<1> QED
  BY <1>7, <1>9, <1>10, GcdCoprime

\* The increment between blocks.
LEMMA BlockDiffIs ==
  ASSUME NEW size \in Nat \ {0}, NEW pseudoRandom
  PROVE  /\ BlockDiff(size, pseudoRandom) \in Nat /\ BlockDiff(size, pseudoRandom) <= size
         /\ BlockDiff(size, pseudoRandom) = 0 => size = 1
<1>1. CASE ~pseudoRandom
  BY <1>1 DEF BlockDiff
<1>2. CASE pseudoRandom
  <2>1. PICK a \in Nat : a = size * 987
    OBVIOUS
  <2>2. PICK p \in Nat : p = a \div 1597
    BY Remainder
  <2>3. PICK r \in Nat : r = a % 1597 /\ r < 1597
    BY Remainder
  <2>4. a = 1597 * p + r
    BY <2>2, <2>3, Remainder
  <2>5. BlockDiff(size, pseudoRandom) = p
    BY <1>2, <2>1, <2>2 DEF BlockDiff
  <2>6. p <= size /\ (p = 0 => size = 1)
    BY <2>1, <2>3, <2>4
  <2> QED
    BY <2>5, <2>6
<1> QED
  BY <1>1, <1>2

\* A distance of at least a byte takes at least a block.
LEMMA BlocksRoundUp ==
  ASSUME NEW len \in Nat \ {0}, NEW s \in Nat \ {0}
  PROVE  (s + len - 1) \div len \in Nat \ {0}
<1>1. PICK a \in Nat : a = s + len - 1 /\ a >= len
  OBVIOUS
<1>2. PICK q \in Nat : q = a \div len
  BY Remainder
<1>3. PICK r \in Nat : r = a % len /\ r < len
  BY Remainder
<1>4. a = len * q + r
  BY <1>2, <1>3, Remainder
<1>5. q # 0
  BY <1>1, <1>3, <1>4
<1> QED
  BY <1>1, <1>2, <1>5

-----------------------------------------------------------------------------
\* The buffer's blocks have no factor of the increment, and are chained by it.
Chained ==
  /\ blocks \in Nat \ {0} /\ blockDiff \in Nat /\ blockDiff <= blocks
  /\ Coprime(blocks, blockDiff)
  /\ next = Chain(blocks, blockDiff)
  /\ distBlocks(1) <= blocks

\* What main() needs to chain the blocks, and what it gets.
ChainInv ==
  /\ given \subseteq Nat \ {0}
  /\ phase \in {"init", "running"} => distSize # << >>
  /\ phase = "running" => Chained

(***************************************************************************)
(* The buffer is as large as the largest distance at least.                *)
(***************************************************************************)
LEMMA ChainSetup ==
  ASSUME DistancesSorted, ChainInv, Setup
  PROVE  ChainInv'
<1>1. phase = "init" /\ phase' \in {"running", "overrun"} /\ UNCHANGED <<distSize, given, options>>
  BY DEF Setup
<1>2. PICK n \in Nat : Descends(distSize, n)
  BY DEF DistancesSorted
<1>3. PICK s : s = distSize
  OBVIOUS
<1>4. s \in Seq(Nat) /\ s # << >> /\ Range(s) = given
  BY <1>1, <1>2, <1>3 DEF ChainInv, DistancesSorted, Descends
<1>5. 1 \in DOMAIN s
  BY <1>4
<1>6. s[1] \in given
  BY <1>4, <1>5 DEF Range
<1>7. s[1] \in Nat \ {0}
  BY <1>6 DEF ChainInv
<1>8. PICK size \in Nat \ {0} : size = distBlocks(1)
  BY <1>3, <1>7, BlocksRoundUp, DistgenAssumption DEF distBlocks
<1>9. PICK d \in Nat : d = BlockDiff(size, options.pseudoRandom) /\ d <= size /\ (d = 0 => size = 1)
  BY BlockDiffIs
<1>10. blockDiff' = d /\ blocks' = adjustSize(size, d)
  BY <1>8, <1>9 DEF Setup
<1>11. CASE Adjusted(size, d) <= INT_MAX
  <2>1. PICK m \in Nat : m = adjustSize(size, d) /\ m >= size /\ Coprime(m, d)
    BY <1>9, <1>11, AdjustedSize
  <2>2. next' = Chain(m, d)
    BY <1>8, <1>9, <1>11, <2>1 DEF Setup
  <2>3. distBlocks(1)' = size
    BY <1>1, <1>8 DEF distBlocks
  <2>4. m \in Nat \ {0} /\ d <= m
    BY <1>9, <2>1
  <2>5. Chained'
    BY <1>10, <2>1, <2>2, <2>3, <2>4 DEF Chained, Coprime, Chain
  <2> QED
    BY <1>1, <1>6, <1>4, <1>3, <2>5 DEF ChainInv
<1>12. CASE ~(Adjusted(size, d) <= INT_MAX)
  <2>1. phase' = "overrun"
    BY <1>8, <1>9, <1>12 DEF Setup
  <2> QED
    BY <1>1, <2>1 DEF ChainInv
<1> QED
  BY <1>11, <1>12

\* The rest of the program leaves the buffer alone.
LEMMA ChainKept ==
  ASSUME ChainInv, UNCHANGED setup, phase' = phase \/ phase' = "end"
  PROVE  ChainInv'
<1>1. Chained => Chained'
  BY DEF Chained, setup, distBlocks, Chain, Coprime
<1> QED
  BY <1>1 DEF ChainInv, setup

\* The buffer is chained in every state in which it is traversed.
LEMMA ChainAlways == Spec => [](DistancesSorted /\ ChainInv)
<1>1. Init => ChainInv
  BY DEF Init, ChainInv
<1>2. DistancesSorted /\ ChainInv /\ [Next]_vars => ChainInv'
  <2> SUFFICES ASSUME DistancesSorted, ChainInv, [Next]_vars
               PROVE  ChainInv'
    OBVIOUS
  <2>1. ASSUME NEW size \in Sizes, addDist(size)
        PROVE  ChainInv'
    <3>1. size \in Nat \ {0}
      BY DistgenAssumption
    <3>2. phase = "options" /\ phase' \in {"options", "aborted"} /\ given' = given \cup {size}
      BY <2>1 DEF addDist
    <3> QED
      BY <3>1, <3>2 DEF ChainInv
  <2>2. ASSUME NEW o \in Options, parseOptions(o)
        PROVE  ChainInv'
    BY <2>2 DEF parseOptions, ChainInv
  <2>3. CASE Setup
    BY <2>3, ChainSetup
  <2>4. CASE Join
    BY <2>4, ChainKept DEF Join
  <2>5. ASSUME NEW t \in Threads, Step(t) \/ Signal(t)
        PROVE  ChainInv'
    <3>1. UNCHANGED setup /\ phase' = phase
      BY <2>5 DEF Step, StartBench, Iterate, CountSignal, Signal
    <3> QED
      BY <3>1, ChainKept
  <2>6. CASE UNCHANGED vars
    <3>1. UNCHANGED setup /\ phase' = phase
      BY <2>6 DEF vars, setup
    <3> QED
      BY <3>1, ChainKept
  <2> QED
    BY <2>1, <2>2, <2>3, <2>4, <2>5, <2>6 DEF Next
<1> QED
  BY <1>1, <1>2, SortedAlways, PTL DEF Spec

(***************************************************************************)
(* The chain goes through every block of the buffer once and comes back to *)
(* the first, for all distances for which the number of blocks comes back  *)
(* from adjustSize() as it is, which is up to INT_MAX, and whether the     *)
(* increment is one block or follows the golden ratio.                     *)
(***************************************************************************)
THEOREM ChainComplete == Spec => []ChainVisitsAll
<1>1. ChainInv => ChainVisitsAll
  <2> SUFFICES ASSUME ChainInv, phase = "running", NEW way, way = Walk(next, blocks + 1)
               PROVE  {way[k] : k \in 1 .. blocks} = 0 .. blocks - 1 /\ way[blocks + 1] = 0
    BY DEF ChainVisitsAll
  <2>1. Chained
    BY DEF ChainInv
  <2>2. way = Walk(Chain(blocks, blockDiff), blocks + 1)
    BY <2>1 DEF Chained
  <2> QED
    BY <2>1, <2>2, ChainCovers DEF Chained
<1> QED
  BY <1>1, ChainAlways, PTL

-----------------------------------------------------------------------------
\* What VisitsUnrolled() does at the jth access, if it goes on by g.
Unrolled(g, inner, idx, j, max, m, d) ==
  IF ~inner /\ j >= max
  THEN << >>
  ELSE IF ~inner /\ j + UNROLL < max /\ idx + UNROLL * d < m
  THEN [l \in 1 .. UNROLL |-> idx + (l - 1) * d]
         \o g[FALSE][idx + UNROLL * d][j + UNROLL]
  ELSE IF j < max /\ idx + d < m
  THEN << idx >> \o g[TRUE][idx + d][j + 1]
  ELSE << idx >> \o g[FALSE][Advance(idx, m, d)][j + 1]

\* g is the loop's function from the kth access on.
GoesOn(g, k, max, m, d) ==
  \A inner \in BOOLEAN, idx \in Nat, j \in Nat :
    j >= k => g[inner][idx][j] = Unrolled(g, inner, idx, j, max, m, d)

\* g and h are the same after the kth access.
SameAfter(g, h, k) ==
  \A inner \in BOOLEAN, idx \in Nat, j \in Nat : j > k => g[inner][idx][j] = h[inner][idx][j]

\* The jth access looks no further back.
LEMMA UnrolledLooksOn ==
  ASSUME NEW max \in Nat, NEW m \in Nat, NEW d \in Nat, NEW g, NEW h,
         NEW inner \in BOOLEAN, NEW idx \in Nat, NEW j \in Nat, SameAfter(g, h, j)
  PROVE  Unrolled(g, inner, idx, j, max, m, d) = Unrolled(h, inner, idx, j, max, m, d)
<1>1. /\ idx + d \in Nat /\ j + 1 \in Nat /\ j + 1 > j
      /\ Advance(idx, m, d) \in Nat
  BY DEF Advance
<1>2. PICK a \in Nat : a = idx + UNROLL * d
  BY TraversalAssumption
<1>3. PICK b \in Nat : b = j + UNROLL /\ b > j
  BY TraversalAssumption
<1>4. g[FALSE][a][b] = h[FALSE][a][b]
  BY <1>3 DEF SameAfter
<1>5. g[TRUE][idx + d][j + 1] = h[TRUE][idx + d][j + 1]
  BY <1>1 DEF SameAfter
<1>6. g[FALSE][Advance(idx, m, d)][j + 1] = h[FALSE][Advance(idx, m, d)][j + 1]
  BY <1>1 DEF SameAfter
<1> QED
  BY <1>2, <1>3, <1>4, <1>5, <1>6 DEF Unrolled

\* There is such a function, found from the last access to the first.
LEMMA GoesOnFrom ==
  ASSUME NEW max \in Nat, NEW m \in Nat, NEW d \in Nat
  PROVE  \E g : GoesOn(g, 0, max, m, d)
<1>1. PICK S : S = {n \in Nat : \A k \in Nat : k + n = max => \E g : GoesOn(g, k, max, m, d)}
  OBVIOUS
<1>2. 0 \in S
  <2>1. PICK g : g = [inner \in BOOLEAN |-> [idx \in Nat |-> [j \in Nat |->
                       IF inner THEN << idx >> ELSE << >>]]]
    OBVIOUS
  <2>2. \A idx \in Nat, j \in Nat : g[TRUE][idx][j] = << idx >> /\ g[FALSE][idx][j] = << >>
    BY <2>1
  <2>3. ASSUME NEW inner \in BOOLEAN, NEW idx \in Nat, NEW j \in Nat, j >= max
        PROVE  g[inner][idx][j] = Unrolled(g, inner, idx, j, max, m, d)
    <3>1. CASE inner = FALSE
      <4>1. Unrolled(g, FALSE, idx, j, max, m, d) = << >>
        BY <2>3 DEF Unrolled
      <4>2. g[FALSE][idx][j] = << >>
        BY <2>2
      <4> QED
        BY <3>1, <4>1, <4>2
    <3>2. CASE inner = TRUE
      <4>1. Advance(idx, m, d) \in Nat /\ j + 1 \in Nat /\ ~(j < max)
        BY <2>3 DEF Advance
      <4>2. g[FALSE][Advance(idx, m, d)][j + 1] = << >>
        BY <2>2, <4>1
      <4>3. << idx >> \o << >> = << idx >>
        OBVIOUS
      <4> QED
        BY <2>2, <3>2, <4>1, <4>2, <4>3 DEF Unrolled
    <3> QED
      BY <3>1, <3>2
  <2>4. GoesOn(g, max, max, m, d)
    BY <2>3 DEF GoesOn
  <2>5. \A k \in Nat : k + 0 = max => k = max
    OBVIOUS
  <2> QED
    BY <1>1, <2>4, <2>5
<1>3. ASSUME NEW n \in S PROVE n + 1 \in S
  <2>1. n \in Nat
    BY <1>1
  <2>2. ASSUME NEW k \in Nat, k + (n + 1) = max
        PROVE  \E g : GoesOn(g, k, max, m, d)
    <3>1. (k + 1) + n = max /\ k + 1 \in Nat
      BY <2>1, <2>2
    <3>2. PICK g : GoesOn(g, k + 1, max, m, d)
      BY <1>1, <3>1
    <3>3. PICK h : h = [inner \in BOOLEAN |-> [idx \in Nat |-> [j \in Nat |->
                         IF j = k THEN Unrolled(g, inner, idx, j, max, m, d)
                                  ELSE g[inner][idx][j]]]]
      OBVIOUS
    <3>4. \A inner \in BOOLEAN, idx \in Nat, j \in Nat :
            h[inner][idx][j] = IF j = k THEN Unrolled(g, inner, idx, j, max, m, d)
                                        ELSE g[inner][idx][j]
      BY <3>3
    <3>5. ASSUME NEW inner \in BOOLEAN, NEW idx \in Nat, NEW j \in Nat, j >= k
          PROVE  h[inner][idx][j] = Unrolled(h, inner, idx, j, max, m, d)
      <4>1. SameAfter(g, h, j)
        BY <3>4, <3>5 DEF SameAfter
      <4>2. Unrolled(g, inner, idx, j, max, m, d) = Unrolled(h, inner, idx, j, max, m, d)
        BY <4>1, UnrolledLooksOn
      <4>3. CASE j = k
        BY <3>4, <4>2, <4>3
      <4>4. CASE j # k
        <5>1. j >= k + 1
          BY <3>5, <4>4
        <5>2. g[inner][idx][j] = Unrolled(g, inner, idx, j, max, m, d)
          BY <3>2, <5>1 DEF GoesOn
        <5> QED
          BY <3>4, <4>2, <4>4, <5>2
      <4> QED
        BY <4>3, <4>4
    <3>6. GoesOn(h, k, max, m, d)
      BY <3>5 DEF GoesOn
    <3> QED
      BY <3>6
  <2> QED
    BY <1>1, <2>1, <2>2
<1>4. S = Nat
  <2>1. S \in SUBSET Nat
    BY <1>1
  <2> QED
    BY <1>2, <1>3, <2>1, Induction
<1>5. max \in S /\ 0 \in Nat /\ 0 + max = max
  BY <1>4
<1> QED
  BY <1>1, <1>5

\* And VisitsUnrolled() starts with it.
LEMMA UnrolledGoesOn ==
  ASSUME NEW max \in Nat, NEW m \in Nat, NEW d \in Nat
  PROVE  \E g : GoesOn(g, 0, max, m, d) /\ VisitsUnrolled(max, m, d) = g[FALSE][0][0]
<1>1. PICK g : GoesOn(g, 0, max, m, d)
  BY GoesOnFrom
<1>2. PICK h : h = [inner \in BOOLEAN |-> [idx \in Nat |-> [j \in Nat |-> g[inner][idx][j]]]]
  OBVIOUS
<1>3. ASSUME NEW inner \in BOOLEAN, NEW idx \in Nat, NEW j \in Nat
      PROVE  h[inner][idx][j] = Unrolled(h, inner, idx, j, max, m, d)
  <2>1. SameAfter(g, h, j)
    BY <1>2 DEF SameAfter
  <2>2. g[inner][idx][j] = Unrolled(g, inner, idx, j, max, m, d)
    BY <1>1 DEF GoesOn
  <2>3. h[inner][idx][j] = g[inner][idx][j]
    BY <1>2
  <2> QED
    BY <2>1, <2>2, <2>3, UnrolledLooksOn
<1> DEFINE After(f) == [inner \in BOOLEAN |-> [idx \in Nat |-> [j \in Nat |->
                        Unrolled(f, inner, idx, j, max, m, d)]]]
<1>4. h = After(h)
  <2>1. PICK e : e = After(h)
    OBVIOUS
  <2>2. ASSUME NEW inner \in BOOLEAN, NEW idx \in Nat
        PROVE  h[inner][idx] = e[inner][idx]
    <3>1. PICK p : p = h[inner][idx]
      OBVIOUS
    <3>2. PICK q : q = e[inner][idx]
      OBVIOUS
    <3>3. q = [j \in Nat |-> Unrolled(h, inner, idx, j, max, m, d)]
      BY <2>1, <3>2
    <3>4. p = [j \in Nat |-> g[inner][idx][j]]
      BY <1>2, <3>1
    <3>5. \A j \in Nat : p[j] = q[j]
      BY <1>3, <3>1, <3>3
    <3>6. p = [j \in Nat |-> p[j]] /\ q = [j \in Nat |-> q[j]]
      BY <3>3, <3>4
    <3> QED
      BY <3>1, <3>2, <3>5, <3>6
  <2>3. \A inner \in BOOLEAN : h[inner] = e[inner]
    <3>1. \A inner \in BOOLEAN :
            /\ h[inner] = [idx \in Nat |-> h[inner][idx]]
            /\ e[inner] = [idx \in Nat |-> e[inner][idx]]
      BY <1>2, <2>1
    <3> QED
      BY <2>2, <3>1
  <2>4. h = [inner \in BOOLEAN |-> h[inner]] /\ e = [inner \in BOOLEAN |-> e[inner]]
    BY <1>2, <2>1
  <2> QED
    BY <2>1, <2>3, <2>4
<1> HIDE DEF After
<1>5. PICK v : v = CHOOSE f : f = After(f)
  OBVIOUS
<1>6. v = After(v)
  BY <1>4, <1>5, Zenon
<1>7. GoesOn(v, 0, max, m, d)
  <2>1. PICK e : e = After(v)
    OBVIOUS
  <2>2. ASSUME NEW inner \in BOOLEAN, NEW idx \in Nat, NEW j \in Nat
        PROVE  e[inner][idx][j] = Unrolled(v, inner, idx, j, max, m, d)
    BY <2>1 DEF After
  <2>3. e = v
    BY <1>6, <2>1
  <2> QED
    BY <2>2, <2>3 DEF GoesOn
<1>8. VisitsUnrolled(max, m, d) = v[FALSE][0][0]
  BY <1>5 DEF After, VisitsUnrolled, Unrolled
<1> QED
  BY <1>7, <1>8

\* As long as there is no wrap around.
LEMMA PositionsOn ==
  ASSUME NEW m \in Nat \ {0}, NEW d \in Nat, NEW j \in Nat, NEW l \in Nat,
         Position(j, m, d) + l * d < m
  PROVE  Position(j + l, m, d) = Position(j, m, d) + l * d
<1>1. PICK a \in Nat : a = j * d
  OBVIOUS
<1>2. PICK q \in Nat : q = a \div m
  BY Remainder
<1>3. PICK r \in Nat : r = a % m /\ r < m
  BY Remainder
<1>4. a = m * q + r
  BY <1>2, <1>3, Remainder
<1>5. Position(j, m, d) = r
  BY <1>1, <1>3 DEF Position
<1>6. PICK u \in Nat : u = l * d
  OBVIOUS
<1>7. (j + l) * d = q * m + (r + u)
  BY <1>1, <1>4, <1>6
<1>8. r + u \in Nat /\ r + u < m
  BY <1>5, <1>6
<1>9. (q * m + (r + u)) % m = r + u
  BY <1>8, RemainderIs
<1> QED
  BY <1>5, <1>6, <1>7, <1>9 DEF Position

\* s are the blocks from the jth access on, up to max or one more.
IsWay(s, j, max, m, d) ==
  /\ s \in Seq(Nat)
  /\ \A k \in 1 .. Len(s) : s[k] = Position(j + k - 1, m, d)
  /\ j + Len(s) = max \/ j + Len(s) = max + 1

\* One access, and then the way from the next.
LEMMA WayFromNext ==
  ASSUME NEW m \in Nat \ {0}, NEW d \in Nat, d <= m, NEW max \in Nat, NEW j \in Nat,
         NEW s, IsWay(s, j + 1, max, m, d)
  PROVE  IsWay(<< Position(j, m, d) >> \o s, j, max, m, d)
<1>1. PICK p \in Nat : p = Position(j, m, d)
  BY PositionStep
<1>2. PICK r : r = << p >> \o s
  OBVIOUS
<1>3. PICK n \in Nat : n = Len(s) /\ s \in Seq(Nat)
  BY DEF IsWay
<1>4. r \in Seq(Nat) /\ Len(r) = n + 1 /\ r[1] = p
  BY <1>2, <1>3
<1>5. \A k \in 1 .. n : r[k + 1] = s[k]
  BY <1>2, <1>3
<1>6. ASSUME NEW k \in 1 .. n + 1
      PROVE  r[k] = Position(j + k - 1, m, d)
  <2>1. CASE k = 1
    <3>1. j + 1 - 1 = j
      OBVIOUS
    <3> QED
      BY <1>1, <1>4, <2>1, <3>1
  <2>2. CASE k # 1
    <3>1. k - 1 \in 1 .. n /\ (k - 1) + 1 = k
      BY <2>2
    <3>2. s[k - 1] = Position((j + 1) + (k - 1) - 1, m, d)
      BY <1>3, <3>1 DEF IsWay
    <3>3. (j + 1) + (k - 1) - 1 = j + k - 1
      OBVIOUS
    <3> QED
      BY <1>5, <3>1, <3>2, <3>3
  <2> QED
    BY <2>1, <2>2
<1>7. j + Len(r) = max \/ j + Len(r) = max + 1
  BY <1>3, <1>4 DEF IsWay
<1> QED
  BY <1>1, <1>2, <1>4, <1>6, <1>7 DEF IsWay

\* A round of the unrolled loop, and then the way from there.
LEMMA WayFromUnrolled ==
  ASSUME NEW m \in Nat \ {0}, NEW d \in Nat, d <= m, NEW max \in Nat, NEW j \in Nat,
         NEW idx, idx = Position(j, m, d), idx + UNROLL * d < m,
         NEW s, IsWay(s, j + UNROLL, max, m, d)
  PROVE  IsWay([l \in 1 .. UNROLL |-> idx + (l - 1) * d] \o s, j, max, m, d)
<1>1. idx \in Nat
  BY PositionStep
<1>2. PICK u \in Nat \ {0} : u = UNROLL
  BY TraversalAssumption
<1>3. PICK t : t = [l \in 1 .. u |-> idx + (l - 1) * d]
  OBVIOUS
<1>4. ASSUME NEW l \in 1 .. u
      PROVE  t[l] \in Nat /\ t[l] = Position(j + l - 1, m, d)
  <2>1. PICK i \in Nat : i = l - 1
    OBVIOUS
  <2>2. i <= u
    BY <2>1
  <2>3. i * d <= u * d
    BY <2>2
  <2>4. PICK a \in Nat : a = i * d
    OBVIOUS
  <2>5. idx + a < m
    <3>1. PICK b \in Nat : b = u * d
      OBVIOUS
    <3> QED
      BY <1>1, <1>2, <2>3, <2>4, <3>1
  <2>6. Position(j + i, m, d) = idx + a
    BY <2>4, <2>5, PositionsOn
  <2>7. j + l - 1 = j + i
    BY <2>1
  <2>8. t[l] = idx + a
    BY <1>3, <2>1, <2>4
  <2> QED
    BY <1>1, <2>6, <2>7, <2>8
<1>5. t \in Seq(Nat) /\ Len(t) = u
  <2>1. t \in [1 .. u -> Nat]
    BY <1>3, <1>4
  <2> QED
    BY <2>1
<1>6. PICK r : r = t \o s
  OBVIOUS
<1>7. PICK n \in Nat : n = Len(s) /\ s \in Seq(Nat)
  BY DEF IsWay
<1>8. /\ r \in Seq(Nat) /\ Len(r) = u + n
      /\ \A k \in 1 .. u + n : r[k] = IF k <= u THEN t[k] ELSE s[k - u]
  BY <1>5, <1>6, <1>7, ConcatProperties
<1>9. ASSUME NEW k \in 1 .. u + n
      PROVE  r[k] = Position(j + k - 1, m, d)
  <2>1. CASE k <= u
    <3>1. k \in 1 .. u
      BY <2>1
    <3>2. r[k] = t[k]
      BY <1>8, <2>1
    <3> QED
      BY <1>4, <3>1, <3>2
  <2>2. CASE k > u
    <3>1. PICK i \in 1 .. n : i = k - u
      BY <2>2
    <3>2. r[k] = s[i]
      BY <1>8, <2>2, <3>1
    <3>3. s[i] = Position((j + UNROLL) + i - 1, m, d)
      BY <1>7 DEF IsWay
    <3>4. (j + UNROLL) + i - 1 = j + k - 1
      BY <1>2, <3>1
    <3> QED
      BY <3>2, <3>3, <3>4
  <2> QED
    BY <2>1, <2>2
<1>10. j + Len(r) = max \/ j + Len(r) = max + 1
  BY <1>2, <1>7, <1>8 DEF IsWay
<1>11. IsWay(r, j, max, m, d)
  BY <1>8, <1>9, <1>10 DEF IsWay
<1> QED
  BY <1>2, <1>3, <1>6, <1>11

\* The loop is on its way when n accesses are left at most.
OnItsWay(g, n, max, m, d) ==
  \A j \in Nat : j + n = max + 1 =>
    /\ IsWay(g[FALSE][Position(j, m, d)][j], j, max, m, d)
    /\ j <= max => IsWay(g[TRUE][Position(j, m, d)][j], j, max, m, d)

\* One access, outside the unrolled loop.
LEMMA SingleOnItsWay ==
  ASSUME NEW m \in Nat \ {0}, NEW d \in Nat, d <= m, NEW max \in Nat, NEW g,
         NEW n \in Nat, OnItsWay(g, n, max, m, d), NEW j \in Nat, j + n = max,
         NEW idx, idx = Position(j, m, d)
  PROVE  IsWay(IF j < max /\ idx + d < m
               THEN << idx >> \o g[TRUE][idx + d][j + 1]
               ELSE << idx >> \o g[FALSE][Advance(idx, m, d)][j + 1], j, max, m, d)
<1>1. idx \in Nat /\ Position(j + 1, m, d) = Advance(idx, m, d)
  BY PositionStep
<1>2. j + 1 \in Nat /\ (j + 1) + n = max + 1
  OBVIOUS
<1>3. IsWay(g[FALSE][Advance(idx, m, d)][j + 1], j + 1, max, m, d)
  BY <1>1, <1>2 DEF OnItsWay
<1>4. ASSUME j < max, idx + d < m
      PROVE  IsWay(g[TRUE][idx + d][j + 1], j + 1, max, m, d)
  <2>1. Advance(idx, m, d) = idx + d
    BY <1>1, <1>4 DEF Advance
  <2>2. j + 1 <= max
    BY <1>4
  <2>3. IsWay(g[TRUE][Position(j + 1, m, d)][j + 1], j + 1, max, m, d)
    BY <1>2, <2>2 DEF OnItsWay
  <2> QED
    BY <1>1, <2>1, <2>3
<1>5. CASE j < max /\ idx + d < m
  <2>1. IsWay(<< idx >> \o g[TRUE][idx + d][j + 1], j, max, m, d)
    BY <1>4, <1>5, WayFromNext
  <2> QED
    BY <1>5, <2>1
<1>6. CASE ~(j < max /\ idx + d < m)
  <2>1. IsWay(<< idx >> \o g[FALSE][Advance(idx, m, d)][j + 1], j, max, m, d)
    BY <1>3, WayFromNext
  <2> QED
    BY <1>6, <2>1
<1> QED
  BY <1>5, <1>6

(***************************************************************************)
(* The unrolled loop takes the steps of the simple one.                    *)
(***************************************************************************)
LEMMA UnrolledIsWay ==
  ASSUME NEW m \in Nat \ {0}, NEW d \in Nat, d <= m, NEW max \in Nat
  PROVE  IsWay(VisitsUnrolled(max, m, d), 0, max, m, d)
<1>1. PICK g : GoesOn(g, 0, max, m, d) /\ VisitsUnrolled(max, m, d) = g[FALSE][0][0]
  BY UnrolledGoesOn
<1>2. PICK S : S = {n \in Nat : \A i \in 0 .. n : OnItsWay(g, i, max, m, d)}
  OBVIOUS
<1>3. 0 \in S
  <2>1. ASSUME NEW j \in Nat, j + 0 = max + 1
        PROVE  IsWay(g[FALSE][Position(j, m, d)][j], j, max, m, d) /\ ~(j <= max)
    <3>1. PICK idx \in Nat : idx = Position(j, m, d)
      BY PositionStep
    <3>2. j >= max /\ j = max + 1 /\ j >= 0
      BY <2>1
    <3>3. g[FALSE][idx][j] = Unrolled(g, FALSE, idx, j, max, m, d)
      BY <1>1, <3>2 DEF GoesOn
    <3>4. g[FALSE][idx][j] = << >>
      BY <3>2, <3>3 DEF Unrolled
    <3>5. IsWay(<< >>, j, max, m, d)
      BY <3>2 DEF IsWay
    <3>6. ~(j <= max)
      BY <3>2
    <3> QED
      BY <3>1, <3>4, <3>5, <3>6
  <2>2. OnItsWay(g, 0, max, m, d)
    BY <2>1 DEF OnItsWay
  <2>3. \A i \in 0 .. 0 : i = 0
    OBVIOUS
  <2> QED
    BY <1>2, <2>2, <2>3
<1>4. ASSUME NEW n \in S PROVE n + 1 \in S
  <2>1. n \in Nat /\ \A i \in 0 .. n : OnItsWay(g, i, max, m, d)
    BY <1>2
  <2>2. ASSUME NEW j \in Nat, j + (n + 1) = max + 1
        PROVE  /\ IsWay(g[FALSE][Position(j, m, d)][j], j, max, m, d)
               /\ IsWay(g[TRUE][Position(j, m, d)][j], j, max, m, d)
    <3>1. PICK idx \in Nat : idx = Position(j, m, d)
      BY PositionStep
    <3>2. j + n = max /\ j <= max /\ j >= 0
      BY <2>1, <2>2
    <3>3. OnItsWay(g, n, max, m, d)
      BY <2>1
    <3>4. PICK single : single = IF j < max /\ idx + d < m
                                 THEN << idx >> \o g[TRUE][idx + d][j + 1]
                                 ELSE << idx >> \o g[FALSE][Advance(idx, m, d)][j + 1]
      OBVIOUS
    <3>5. IsWay(single, j, max, m, d)
      BY <2>1, <3>1, <3>2, <3>3, <3>4, SingleOnItsWay
    <3>6. g[TRUE][idx][j] = single
      <4>1. g[TRUE][idx][j] = Unrolled(g, TRUE, idx, j, max, m, d)
        BY <1>1, <3>2 DEF GoesOn
      <4> QED
        BY <3>4, <4>1 DEF Unrolled
    <3>7. IsWay(g[FALSE][idx][j], j, max, m, d)
      <4>1. g[FALSE][idx][j] = Unrolled(g, FALSE, idx, j, max, m, d)
        BY <1>1, <3>2 DEF GoesOn
      <4>2. CASE j >= max
        <5>1. g[FALSE][idx][j] = << >>
          BY <4>1, <4>2 DEF Unrolled
        <5>2. j = max
          BY <3>2, <4>2
        <5>3. IsWay(<< >>, j, max, m, d)
          BY <5>2 DEF IsWay
        <5> QED
          BY <5>1, <5>3
      <4>3. CASE ~(j >= max) /\ j + UNROLL < max /\ idx + UNROLL * d < m
        <5>1. PICK u \in Nat \ {0} : u = UNROLL
          BY TraversalAssumption
        <5>2. PICK i \in 0 .. n : (j + u) + i = max + 1
          <6>1. n + 1 - u \in 0 .. n /\ (j + u) + (n + 1 - u) = max + 1
            BY <2>1, <2>2, <4>3, <5>1
          <6> QED
            BY <6>1
        <5>3. OnItsWay(g, i, max, m, d)
          BY <2>1
        <5>4. IsWay(g[FALSE][Position(j + u, m, d)][j + u], j + u, max, m, d)
          <6>1. j + u \in Nat
            OBVIOUS
          <6> QED
            BY <5>2, <5>3, <6>1 DEF OnItsWay
        <5>5. Position(j + u, m, d) = idx + u * d
          BY <3>1, <4>3, <5>1, PositionsOn
        <5>6. IsWay(g[FALSE][idx + UNROLL * d][j + UNROLL], j + UNROLL, max, m, d)
          BY <5>1, <5>4, <5>5
        <5>7. IsWay([l \in 1 .. UNROLL |-> idx + (l - 1) * d]
                      \o g[FALSE][idx + UNROLL * d][j + UNROLL], j, max, m, d)
          BY <3>1, <4>3, <5>6, WayFromUnrolled
        <5>8. g[FALSE][idx][j] = [l \in 1 .. UNROLL |-> idx + (l - 1) * d]
                                   \o g[FALSE][idx + UNROLL * d][j + UNROLL]
          BY <4>1, <4>3 DEF Unrolled
        <5> QED
          BY <5>7, <5>8
      <4>4. CASE ~(j >= max) /\ ~(j + UNROLL < max /\ idx + UNROLL * d < m)
        <5>1. g[FALSE][idx][j] = single
          BY <3>4, <4>1, <4>4 DEF Unrolled
        <5> QED
          BY <3>5, <5>1
      <4> QED
        BY <4>2, <4>3, <4>4, Zenon
    <3> QED
      BY <3>1, <3>5, <3>6, <3>7
  <2>3. OnItsWay(g, n + 1, max, m, d)
    BY <2>2 DEF OnItsWay
  <2>4. \A i \in 0 .. n + 1 : i \in 0 .. n \/ i = n + 1
    BY <2>1
  <2> QED
    BY <1>2, <2>1, <2>3, <2>4
<1>5. S = Nat
  <2>1. S \in SUBSET Nat
    BY <1>2
  <2> QED
    BY <1>3, <1>4, <2>1, Induction
<1>6. max + 1 \in S /\ max + 1 \in 0 .. max + 1 /\ 0 + (max + 1) = max + 1
  BY <1>5
<1>7. OnItsWay(g, max + 1, max, m, d)
  BY <1>2, <1>6
<1>8. IsWay(g[FALSE][Position(0, m, d)][0], 0, max, m, d)
  BY <1>6, <1>7 DEF OnItsWay
<1> QED
  BY <1>1, <1>8, PositionZero

\* Following the chain is such a way.
LEMMA WalkIsWay ==
  ASSUME NEW m \in Nat \ {0}, NEW d \in Nat, d <= m, NEW n \in Nat
  PROVE  Len(Walk(Chain(m, d), n)) = n /\ IsWay(Walk(Chain(m, d), n), 0, n, m, d)
<1>1. PICK s : s = Walk(Chain(m, d), n)
  OBVIOUS
<1>2. s = [k \in 1 .. n |-> Position(k - 1, m, d)]
  BY <1>1, WalkIs
<1>3. ASSUME NEW k \in 1 .. n
      PROVE  Position(k - 1, m, d) \in Nat /\ 0 + k - 1 = k - 1
  <2>1. k - 1 \in Nat
    OBVIOUS
  <2> QED
    BY <2>1, PositionStep
<1>4. s \in [1 .. n -> Nat]
  BY <1>2, <1>3
<1>5. s \in Seq(Nat) /\ Len(s) = n
  BY <1>4
<1>6. \A k \in 1 .. Len(s) : s[k] = Position(0 + k - 1, m, d)
  BY <1>2, <1>3, <1>5
<1>7. IsWay(s, 0, n, m, d)
  BY <1>5, <1>6 DEF IsWay
<1> QED
  BY <1>1, <1>5, <1>7

(***************************************************************************)
(* A way of no more accesses than blocks touches a new one each time.      *)
(***************************************************************************)
LEMMA WayTraverses ==
  ASSUME NEW m \in Nat \ {0}, NEW d \in Nat, d <= m, Coprime(m, d),
         NEW n \in Nat, n <= m, NEW s, IsWay(s, 0, n, m, d)
  PROVE  /\ s = Walk(Chain(m, d), Len(s))
         /\ Cardinality(Range(s)) >= n
         /\ Len(s) - n \in {0, 1}
<1>1. PICK l \in Nat : l = Len(s) /\ (l = n \/ l = n + 1) /\ s \in Seq(Nat)
  BY DEF IsWay
<1>2. \A k \in 1 .. l : s[k] = Position(0 + k - 1, m, d) /\ 0 + k - 1 = k - 1
  BY <1>1 DEF IsWay
<1>3. \A k \in 1 .. l : s[k] = Position(k - 1, m, d)
  BY <1>2
<1>4. s = Walk(Chain(m, d), l)
  <2>1. s = [k \in 1 .. l |-> s[k]]
    BY <1>1
  <2>2. s = [k \in 1 .. l |-> Position(k - 1, m, d)]
    BY <1>3, <2>1
  <2> QED
    BY <2>2, WalkIs
<1>5. PICK R : R = Range(s)
  OBVIOUS
<1>6. IsFiniteSet(R)
  <2>1. ASSUME NEW k \in 1 .. l PROVE s[k] \in 0 .. m - 1
    <3>1. k - 1 \in Nat
      OBVIOUS
    <3> QED
      BY <1>3, <3>1, PositionStep
  <2>2. DOMAIN s = 1 .. l
    BY <1>1
  <2>3. R \subseteq 0 .. m - 1
    BY <1>5, <2>1, <2>2 DEF Range
  <2>4. IsFiniteSet(0 .. m - 1)
    BY FS_Interval
  <2> QED
    BY <2>3, <2>4, FS_Subset
<1>7. PICK f : f = [k \in 1 .. n |-> s[k]]
  OBVIOUS
<1>8. f \in [1 .. n -> R]
  <2>1. \A k \in 1 .. n : k \in DOMAIN s
    BY <1>1
  <2>2. \A k \in 1 .. n : s[k] \in R
    BY <1>5, <2>1 DEF Range
  <2> QED
    BY <1>7, <2>2
<1>9. ASSUME NEW a \in 1 .. n, NEW b \in 1 .. n, f[a] = f[b]
      PROVE  a = b
  <2>1. a \in 1 .. l /\ b \in 1 .. l /\ a - 1 \in 0 .. m - 1 /\ b - 1 \in 0 .. m - 1
    BY <1>1
  <2>2. Position(a - 1, m, d) = Position(b - 1, m, d)
    BY <1>3, <1>7, <1>9, <2>1
  <2>3. a - 1 = b - 1
    BY <2>1, <2>2, PositionsDiffer
  <2> QED
    BY <2>3
<1>10. PICK D : D = 1 .. n
  OBVIOUS
<1>11. f \in Injection(D, R)
  BY <1>8, <1>9, <1>10, Fun_IsInj
<1>12. Cardinality(D) <= Cardinality(R)
  BY <1>6, <1>11, FS_Injection
<1>13. Cardinality(D) = n
  BY <1>10, FS_Interval
<1>14. Cardinality(R) \in Nat
  BY <1>6, FS_CardinalityType
<1>15. Cardinality(R) >= n
  BY <1>12, <1>13, <1>14
<1> QED
  BY <1>1, <1>4, <1>5, <1>15

\* A shorter distance takes no more blocks.
LEMMA BlocksMonotone ==
  ASSUME NEW len \in Nat \ {0}, NEW s \in Nat, NEW t \in Nat, s <= t
  PROVE  /\ (s + len - 1) \div len \in Nat
         /\ (s + len - 1) \div len <= (t + len - 1) \div len
<1>1. PICK a \in Nat : a = s + len - 1
  OBVIOUS
<1>2. PICK b \in Nat : b = t + len - 1 /\ a <= b
  BY <1>1
<1>3. PICK p \in Nat : p = a \div len
  BY Remainder
<1>4. PICK q \in Nat : q = b \div len
  BY Remainder
<1>5. PICK r \in Nat : r = a % len
  BY Remainder
<1>6. PICK u \in Nat : u = b % len /\ u < len
  BY Remainder
<1>7. a = len * p + r /\ b = len * q + u
  BY <1>3, <1>4, <1>5, <1>6, Remainder
<1>8. p <= q
  <2> SUFFICES ASSUME p >= q + 1 PROVE FALSE
    OBVIOUS
  <2>1. len * p >= len * (q + 1)
    OBVIOUS
  <2>2. len * (q + 1) = len * q + len
    OBVIOUS
  <2>3. PICK x \in Nat : x = len * q
    OBVIOUS
  <2>4. PICK y \in Nat : y = len * p
    OBVIOUS
  <2>5. y >= x + len
    BY <2>1, <2>2, <2>3, <2>4
  <2> QED
    BY <1>2, <1>6, <1>7, <2>3, <2>4, <2>5
<1> QED
  BY <1>1, <1>2, <1>3, <1>4, <1>8

(***************************************************************************)
(* All ways of traversing the buffer, the unrolled loop with its shortcuts *)
(* too, take the blocks in the order of the chain, as many of them as the  *)
(* distance has, and at most one more, as long as the buffer's number of   *)
(* blocks is an int.                                                       *)
(***************************************************************************)
THEOREM TraversalsCorrect == Spec => []TraversesItsBlocks
<1>1. DistancesSorted /\ ChainInv => TraversesItsBlocks
  <2> SUFFICES ASSUME DistancesSorted, ChainInv, phase = "running", NEW c \in DOMAIN distSize,
                      NEW v,
                      v = Visits(distBlocks(c), blocks, blockDiff, next, options.depChain,
                                 options.doWrite)
               PROVE  /\ v = Walk(next, Len(v))
                      /\ Cardinality(Range(v)) >= distBlocks(c)
                      /\ Len(v) - distBlocks(c) \in
                           IF options.depChain \/ options.doWrite THEN {0} ELSE {0, 1}
    BY DEF TraversesItsBlocks
  <2>1. PICK m \in Nat \ {0} : m = blocks /\ distBlocks(1) <= m
    BY DEF ChainInv, Chained
  <2>2. PICK d \in Nat : d = blockDiff /\ d <= m /\ Coprime(m, d) /\ next = Chain(m, d)
    BY <2>1 DEF ChainInv, Chained
  <2>3. PICK n \in Nat : n = distBlocks(c) /\ n <= m
    <3>1. PICK k \in Nat : Descends(distSize, k)
      BY DEF DistancesSorted
    <3>2. PICK s : s = distSize
      OBVIOUS
    <3>3. /\ s \in Seq(Nat) /\ Len(s) = k /\ c \in 1 .. k
          /\ \A a, b \in 1 .. k : a < b => s[a] > s[b]
      BY <3>1, <3>2 DEF Descends
    <3>4. s[c] \in Nat /\ s[1] \in Nat /\ s[c] <= s[1]
      BY <3>3
    <3>5. /\ (s[c] + BLOCKLEN - 1) \div BLOCKLEN \in Nat
          /\ (s[c] + BLOCKLEN - 1) \div BLOCKLEN <= (s[1] + BLOCKLEN - 1) \div BLOCKLEN
          /\ (s[1] + BLOCKLEN - 1) \div BLOCKLEN \in Nat
      BY <3>4, BlocksMonotone, DistgenAssumption
    <3> QED
      BY <2>1, <3>2, <3>5 DEF distBlocks
  <2>4. CASE options.depChain \/ options.doWrite
    <3>1. v = Walk(Chain(m, d), n)
      BY <2>1, <2>2, <2>3, <2>4 DEF Visits
    <3>2. Len(v) = n /\ IsWay(v, 0, n, m, d)
      BY <2>2, <3>1, WalkIsWay
    <3>3. v = Walk(Chain(m, d), Len(v)) /\ Cardinality(Range(v)) >= n
      BY <2>2, <2>3, <3>2, WayTraverses
    <3> QED
      BY <2>2, <2>3, <2>4, <3>2, <3>3
  <2>5. CASE ~(options.depChain \/ options.doWrite)
    <3>1. v = VisitsUnrolled(n, m, d)
      BY <2>1, <2>2, <2>3, <2>5 DEF Visits
    <3>2. IsWay(v, 0, n, m, d)
      BY <2>2, <3>1, UnrolledIsWay
    <3>3. /\ v = Walk(Chain(m, d), Len(v)) /\ Cardinality(Range(v)) >= n
          /\ Len(v) - n \in {0, 1}
      BY <2>2, <2>3, <3>2, WayTraverses
    <3> QED
      BY <2>2, <2>3, <2>5, <3>3
  <2> QED
    BY <2>4, <2>5
<1> QED
  BY <1>1, ChainAlways, PTL
=============================================================================
