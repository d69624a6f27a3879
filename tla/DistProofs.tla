------------------------------ MODULE DistProofs ------------------------------
(***************************************************************************)
(* Proofs about the simulation of pindist.  A registration, an access and  *)
(* a region change state that other calls rely on much later, so the       *)
(* invariant the proofs rest on, Consistent, speaks of registry, iterators *)
(* and stacks together; types, sums, pairs and regions follow in sections  *)
(* of their own.                                                           *)
(***************************************************************************)
EXTENDS Dist, CacheSimProofs, WellFoundedInduction

-----------------------------------------------------------------------------
\* Sequences.

\* Induction on the natural numbers, for sets.
LEMMA Induction ==
  ASSUME NEW S \in SUBSET Nat, 0 \in S, \A n \in S : n + 1 \in S
  PROVE  S = Nat
<1> DEFINE Less == OpToRel(<, Nat)
           Rest == Nat \ S
<1>1. IsWellFoundedOn(Less, Nat)
  BY NatLessThanWellFounded, Zenon
<1>2. \A x, y \in Nat : y < x => <<y, x>> \in Less
  BY DEF OpToRel
<1> HIDE DEF Less
<1>3. CASE Rest # {}
  <2>1. PICK x \in Rest : \A y \in Rest : ~ (<<y, x>> \in Less)
    BY <1>1, <1>3, WFMin, Zenon
  <2>2. x \in Nat /\ x \notin S /\ x # 0
    OBVIOUS
  <2>3. x - 1 \in Nat /\ x - 1 < x /\ (x - 1) + 1 = x
    BY <2>2
  <2>4. x - 1 \notin S
    BY <2>2, <2>3
  <2> QED
    BY <1>2, <2>1, <2>2, <2>3, <2>4
<1> QED
  BY <1>3

\* size() of a vector of n elements.
LEMMA VectorSize ==
  ASSUME NEW v, NEW n \in Nat, DOMAIN v = 0 .. n - 1
  PROVE  SizeOf(v) = n
<1>1. Cardinality(0 .. n - 1) = n
  BY FS_Interval
<1> QED
  BY <1>1 DEF SizeOf

\* push_back() adds an element at the end and keeps the others.
LEMMA PushBackEffect ==
  ASSUME NEW v, NEW n \in Nat, DOMAIN v = 0 .. n - 1, NEW x
  PROVE  /\ DOMAIN PushBack(v, x) = 0 .. (n + 1) - 1
         /\ PushBack(v, x)[n] = x
         /\ \A i \in DOMAIN v : i \in DOMAIN PushBack(v, x) /\ PushBack(v, x)[i] = v[i]
BY VectorSize DEF PushBack

\* What a sequence over S is made of.
LEMMA SequenceFacts ==
  ASSUME NEW S, NEW s \in Seq(S)
  PROVE  /\ Len(s) \in Nat /\ DOMAIN s = 1 .. Len(s)
         /\ \A i \in 1 .. Len(s) : s[i] \in S
         /\ ToSet(s) = {s[i] : i \in 1 .. Len(s)}
         /\ ToSet(s) \subseteq S
BY LenProperties, ElementOfSeq DEF ToSet

\* The elements of a sequence with x appended.
LEMMA AppendFacts ==
  ASSUME NEW S, NEW s \in Seq(S), NEW x \in S
  PROVE  /\ Append(s, x) \in Seq(S)
         /\ Len(Append(s, x)) = Len(s) + 1
         /\ \A i \in 1 .. Len(s) : Append(s, x)[i] = s[i]
         /\ Append(s, x)[Len(s) + 1] = x
         /\ ToSet(Append(s, x)) = ToSet(s) \cup {x}
<1>1. /\ Append(s, x) \in Seq(S)
      /\ Len(Append(s, x)) = Len(s) + 1
      /\ \A i \in 1 .. Len(s) : Append(s, x)[i] = s[i]
      /\ Append(s, x)[Len(s) + 1] = x
  BY AppendProperties
<1> DEFINE t == Append(s, x)
<1>2. /\ ToSet(s) = {s[i] : i \in 1 .. Len(s)}
      /\ ToSet(t) = {t[i] : i \in 1 .. Len(t)}
      /\ Len(s) \in Nat
  BY <1>1, SequenceFacts
<1> HIDE DEF t
<1>3. 1 .. Len(t) = (1 .. Len(s)) \cup {Len(s) + 1}
  BY <1>1, <1>2 DEF t
<1>4. ToSet(t) = ToSet(s) \cup {x}
  BY <1>1, <1>2, <1>3 DEF t
<1> QED
  BY <1>1, <1>4 DEF t

\* A sequence without repetitions stays so when a new element is appended.
LEMMA AppendKeepsInjective ==
  ASSUME NEW S, NEW s \in Seq(S), NEW x \in S, IsInjective(s), x \notin ToSet(s)
  PROVE  IsInjective(Append(s, x))
<1> DEFINE t == Append(s, x)
<1>1. /\ Len(s) \in Nat /\ DOMAIN s = 1 .. Len(s) /\ DOMAIN t = 1 .. Len(s) + 1
      /\ \A i \in 1 .. Len(s) : t[i] = s[i] /\ s[i] # x
      /\ t[Len(s) + 1] = x
  BY AppendFacts, SequenceFacts
<1> HIDE DEF t
<1>2. IsInjective(t)
  BY <1>1 DEF IsInjective
<1> QED
  BY <1>2 DEF t

\* The elements of two sequences one after the other.
LEMMA ConcatFacts ==
  ASSUME NEW S, NEW s \in Seq(S), NEW t \in Seq(S)
  PROVE  /\ s \o t \in Seq(S)
         /\ Len(s \o t) = Len(s) + Len(t)
         /\ \A i \in 1 .. Len(s) : (s \o t)[i] = s[i]
         /\ \A i \in 1 .. Len(t) : (s \o t)[Len(s) + i] = t[i]
         /\ ToSet(s \o t) = ToSet(s) \cup ToSet(t)
<1> DEFINE u == s \o t
<1>1. /\ u \in Seq(S) /\ Len(u) = Len(s) + Len(t)
      /\ \A i \in 1 .. Len(s) + Len(t) :
           u[i] = IF i <= Len(s) THEN s[i] ELSE t[i - Len(s)]
  BY ConcatProperties, Zenon
<1>2. /\ Len(s) \in Nat /\ Len(t) \in Nat
      /\ ToSet(s) = {s[i] : i \in 1 .. Len(s)}
      /\ ToSet(t) = {t[i] : i \in 1 .. Len(t)}
      /\ ToSet(u) = {u[i] : i \in 1 .. Len(u)}
  BY <1>1, SequenceFacts
<1> HIDE DEF u
<1>3. \A i \in 1 .. Len(s) : u[i] = s[i]
  BY <1>1, <1>2
<1>4. \A i \in 1 .. Len(t) : u[Len(s) + i] = t[i]
  BY <1>1, <1>2
<1>5. ToSet(u) \subseteq ToSet(s) \cup ToSet(t)
  <2>1. ASSUME NEW i \in 1 .. Len(u)
        PROVE  u[i] \in ToSet(s) \cup ToSet(t)
    <3>1. CASE i <= Len(s)
      <4>1. i \in 1 .. Len(s)
        BY <1>1, <1>2, <3>1
      <4> QED
        BY <1>2, <1>3, <4>1
    <3>2. CASE ~(i <= Len(s))
      <4>1. i - Len(s) \in 1 .. Len(t) /\ u[i] = t[i - Len(s)]
        BY <1>1, <1>2, <3>2
      <4> QED
        BY <1>2, <4>1
    <3> QED
      BY <3>1, <3>2
  <2> QED
    BY <1>2, <2>1
<1>6. ToSet(s) \subseteq ToSet(u)
  <2>1. \A i \in 1 .. Len(s) : i \in 1 .. Len(u)
    BY <1>1, <1>2
  <2> QED
    BY <1>2, <1>3, <2>1
<1>7. ToSet(t) \subseteq ToSet(u)
  <2>1. \A i \in 1 .. Len(t) : Len(s) + i \in 1 .. Len(u)
    BY <1>1, <1>2
  <2> QED
    BY <1>2, <1>4, <2>1
<1> QED
  BY <1>1, <1>3, <1>4, <1>5, <1>6, <1>7 DEF u

\* Two sequences without repetitions and common elements have none together.
LEMMA ConcatInjective ==
  ASSUME NEW S, NEW s \in Seq(S), NEW t \in Seq(S),
         IsInjective(s), IsInjective(t), ToSet(s) \cap ToSet(t) = {}
  PROVE  IsInjective(s \o t)
<1> DEFINE u == s \o t
<1>1. /\ u \in Seq(S) /\ Len(u) = Len(s) + Len(t)
      /\ \A i \in 1 .. Len(s) + Len(t) :
           u[i] = IF i <= Len(s) THEN s[i] ELSE t[i - Len(s)]
  BY ConcatProperties, Zenon
<1>2. /\ Len(s) \in Nat /\ Len(t) \in Nat /\ DOMAIN u = 1 .. Len(s) + Len(t)
      /\ DOMAIN s = 1 .. Len(s) /\ DOMAIN t = 1 .. Len(t)
      /\ ToSet(s) = {s[i] : i \in 1 .. Len(s)}
      /\ ToSet(t) = {t[i] : i \in 1 .. Len(t)}
  BY <1>1, SequenceFacts
<1> HIDE DEF u
<1>3. \A i \in 1 .. Len(s), j \in 1 .. Len(t) : s[i] # t[j]
  BY <1>2
<1>4. ASSUME NEW i \in 1 .. Len(s) + Len(t), NEW j \in 1 .. Len(s) + Len(t), u[i] = u[j]
      PROVE  i = j
  <2>1. CASE i <= Len(s) /\ j <= Len(s)
    BY <1>1, <1>2, <1>4, <2>1 DEF IsInjective
  <2>2. CASE i <= Len(s) /\ ~(j <= Len(s))
    <3>1. i \in 1 .. Len(s) /\ j - Len(s) \in 1 .. Len(t)
      BY <1>2, <2>2
    <3> QED
      BY <1>1, <1>3, <1>4, <2>2, <3>1
  <2>3. CASE ~(i <= Len(s)) /\ j <= Len(s)
    <3>1. j \in 1 .. Len(s) /\ i - Len(s) \in 1 .. Len(t)
      BY <1>2, <2>3
    <3> QED
      BY <1>1, <1>3, <1>4, <2>3, <3>1
  <2>4. CASE ~(i <= Len(s)) /\ ~(j <= Len(s))
    <3>1. i - Len(s) \in 1 .. Len(t) /\ j - Len(s) \in 1 .. Len(t)
      BY <1>2, <2>4
    <3>2. t[i - Len(s)] = t[j - Len(s)]
      BY <1>1, <1>4, <2>4
    <3>3. i - Len(s) = j - Len(s)
      BY <1>2, <3>1, <3>2 DEF IsInjective
    <3> QED
      BY <1>2, <3>3
  <2> QED
    BY <2>1, <2>2, <2>3, <2>4
<1>5. IsInjective(u)
  BY <1>2, <1>4 DEF IsInjective
<1> QED
  BY <1>5 DEF u

\* Earlier(d) lists every number below d once.
LEMMA EarlierFacts ==
  ASSUME NEW d \in Nat
  PROVE  /\ Earlier(d) \in Seq(0 .. d - 1)
         /\ ToSet(Earlier(d)) = 0 .. d - 1
         /\ IsInjective(Earlier(d))
<1>1. Earlier(d) \in [1 .. d -> 0 .. d - 1]
  BY DEF Earlier
<1>2. \A i \in 1 .. d : Earlier(d)[i] = i - 1
  BY DEF Earlier
<1>3. DOMAIN Earlier(d) = 1 .. d
  BY DEF Earlier
<1>4. ASSUME NEW x \in 0 .. d - 1
      PROVE  x \in ToSet(Earlier(d))
  <2>1. x + 1 \in 1 .. d /\ Earlier(d)[x + 1] = x
    BY <1>2
  <2> QED
    BY <1>3, <2>1 DEF ToSet
<1>5. \A x \in ToSet(Earlier(d)) : x \in 0 .. d - 1
  BY <1>2, <1>3 DEF ToSet
<1>6. Earlier(d) \in Seq(0 .. d - 1)
  BY <1>1, SeqDef
<1>7. IsInjective(Earlier(d))
  BY <1>2, <1>3 DEF IsInjective
<1> QED
  BY <1>4, <1>5, <1>6, <1>7

\* f is the function Among() is defined by.
Visits(f, s, S) ==
  f = [n \in 0 .. Len(s) |->
         IF n = 0 THEN << >>
         ELSE IF s[n] \in S THEN Append(f[n - 1], s[n]) ELSE f[n - 1]]

\* One step of the loop Among() stands for.
LEMMA VisitsFacts ==
  ASSUME NEW f, NEW s, NEW S, Len(s) \in Nat, Visits(f, s, S)
  PROVE  /\ f[0] = << >>
         /\ \A n \in Nat : n + 1 <= Len(s) =>
              f[n + 1] = IF s[n + 1] \in S THEN Append(f[n], s[n + 1]) ELSE f[n]
<1>1. f[0] = << >>
  BY DEF Visits
<1>2. ASSUME NEW n \in Nat, n + 1 <= Len(s)
      PROVE  f[n + 1] = IF s[n + 1] \in S THEN Append(f[n], s[n + 1]) ELSE f[n]
  <2>1. n + 1 \in 0 .. Len(s) /\ n + 1 # 0 /\ (n + 1) - 1 = n
    BY <1>2
  <2> QED
    BY <2>1 DEF Visits
<1> QED
  BY <1>1, <1>2

\* Among() is the value of that loop after the last element.
LEMMA AmongVisits ==
  ASSUME NEW T, NEW s \in Seq(T), NEW S
  PROVE  \E f : Visits(f, s, S) /\ Among(s, S) = f[Len(s)]
<1> DEFINE Round(g, n) ==
             IF n = 0 THEN << >>
             ELSE IF s[n] \in S THEN Append(g[n - 1], s[n]) ELSE g[n - 1]
           Some == {m \in Nat : \E g : \A n \in 0 .. m : g[n] = Round(g, n)}
<1>1. ASSUME NEW g, NEW h, NEW n \in Nat, n # 0 => h[n - 1] = g[n - 1]
      PROVE  Round(h, n) = Round(g, n)
  BY <1>1
<1>2. 0 \in Some
  <2>1. PICK g : g = [n \in {0} |-> << >>]
    OBVIOUS
  <2>2. g[0] = Round(g, 0)
    BY <2>1
  <2>3. \A n \in 0 .. 0 : n = 0
    OBVIOUS
  <2> HIDE DEF Round
  <2>4. \A n \in 0 .. 0 : g[n] = Round(g, n)
    BY <2>2, <2>3
  <2> QED
    BY <2>4
<1> HIDE DEF Round
<1>3. ASSUME NEW m \in Some
      PROVE  m + 1 \in Some
  <2>1. PICK g : \A n \in 0 .. m : g[n] = Round(g, n)
    OBVIOUS
  <2>2. PICK h : h = [n \in 0 .. m + 1 |-> IF n = m + 1 THEN Round(g, n) ELSE g[n]]
    OBVIOUS
  <2>3. h[m + 1] = Round(g, m + 1) /\ \A n \in 0 .. m : h[n] = g[n]
    BY <2>2
  <2>4. ASSUME NEW n \in 0 .. m + 1
        PROVE  h[n] = Round(h, n)
    <3>1. n # 0 => n - 1 \in 0 .. m
      OBVIOUS
    <3>2. Round(h, n) = Round(g, n)
      BY <1>1, <2>3, <3>1
    <3>3. n = m + 1 \/ n \in 0 .. m
      OBVIOUS
    <3> QED
      BY <2>1, <2>3, <3>2, <3>3
  <2> QED
    BY <2>4
<1>4. Some = Nat
  <2>1. Some \in SUBSET Nat
    OBVIOUS
  <2> HIDE DEF Some
  <2> QED
    BY <1>2, <1>3, <2>1, Induction
<1>5. Len(s) \in Nat
  BY LenProperties
<1>6. PICK g : \A n \in 0 .. Len(s) : g[n] = Round(g, n)
  BY <1>4, <1>5
<1>7. PICK f : f = [n \in 0 .. Len(s) |-> g[n]]
  OBVIOUS
<1>8. \A n \in 0 .. Len(s) : g[n] = Round(f, n)
  <2>1. ASSUME NEW n \in 0 .. Len(s)
        PROVE  Round(f, n) = Round(g, n)
    <3>1. n # 0 => f[n - 1] = g[n - 1]
      BY <1>5, <1>7
    <3> QED
      BY <1>1, <1>5, <3>1
  <2> QED
    BY <1>6, <2>1
<1>9. f = [n \in 0 .. Len(s) |-> Round(f, n)]
  BY <1>7, <1>8
<1>10. Visits(f, s, S)
  BY <1>9 DEF Visits, Round
<1>11. Among(s, S) = (CHOOSE h : Visits(h, s, S))[Len(s)]
  BY DEF Among, Visits
<1> QED
  BY <1>10, <1>11

\* The first n elements of s.
FirstOf(s, n) == {s[i] : i \in 1 .. n}

\* Among(s, S) has the elements of s that are in S, repeated no more than in s.
LEMMA AmongFacts ==
  ASSUME NEW T, NEW s \in Seq(T), NEW S
  PROVE  /\ Among(s, S) \in Seq(T)
         /\ ToSet(Among(s, S)) = ToSet(s) \cap S
         /\ IsInjective(s) => IsInjective(Among(s, S))
<1>1. PICK f : Visits(f, s, S) /\ Among(s, S) = f[Len(s)]
  BY AmongVisits
<1>2. /\ Len(s) \in Nat /\ DOMAIN s = 1 .. Len(s)
      /\ \A i \in 1 .. Len(s) : s[i] \in T
      /\ ToSet(s) = FirstOf(s, Len(s))
  BY SequenceFacts DEF FirstOf
<1> DEFINE Good(n) == n <= Len(s) =>
             /\ f[n] \in Seq(T)
             /\ ToSet(f[n]) = FirstOf(s, n) \cap S
             /\ IsInjective(s) => IsInjective(f[n])
           Goods == {n \in Nat : Good(n)}
<1>3. Good(0)
  <2>1. f[0] = << >>
    BY <1>1, <1>2, VisitsFacts
  <2>2. << >> \in Seq(T) /\ ToSet(<< >>) = {} /\ IsInjective(<< >>)
    BY DEF ToSet, IsInjective
  <2>3. FirstOf(s, 0) = {}
    BY DEF FirstOf
  <2> QED
    BY <2>1, <2>2, <2>3
<1>4. ASSUME NEW n \in Nat, Good(n), n + 1 <= Len(s)
      PROVE  Good(n + 1)
  <2>1. f[n + 1] = IF s[n + 1] \in S THEN Append(f[n], s[n + 1]) ELSE f[n]
    BY <1>1, <1>2, <1>4, VisitsFacts
  <2>2. /\ f[n] \in Seq(T)
        /\ ToSet(f[n]) = FirstOf(s, n) \cap S
        /\ IsInjective(s) => IsInjective(f[n])
    BY <1>2, <1>4
  <2>3. s[n + 1] \in T /\ FirstOf(s, n + 1) = FirstOf(s, n) \cup {s[n + 1]}
    <3>1. n + 1 \in 1 .. Len(s) /\ 1 .. n + 1 = (1 .. n) \cup {n + 1}
      BY <1>2, <1>4
    <3> QED
      BY <1>2, <3>1 DEF FirstOf
  <2>4. IsInjective(s) => s[n + 1] \notin FirstOf(s, n)
    <3>1. \A i \in 1 .. n : i \in DOMAIN s /\ n + 1 \in DOMAIN s /\ i # n + 1
      BY <1>2, <1>4
    <3> QED
      BY <3>1 DEF FirstOf, IsInjective
  <2>5. CASE s[n + 1] \in S
    <3>1. Append(f[n], s[n + 1]) \in Seq(T)
      BY <2>2, <2>3, AppendFacts
    <3>2. ToSet(Append(f[n], s[n + 1])) = ToSet(f[n]) \cup {s[n + 1]}
      BY <2>2, <2>3, AppendFacts
    <3>3. IsInjective(s) => IsInjective(Append(f[n], s[n + 1]))
      BY <2>2, <2>3, <2>4, AppendKeepsInjective
    <3> QED
      BY <2>1, <2>2, <2>3, <2>5, <3>1, <3>2, <3>3
  <2>6. CASE s[n + 1] \notin S
    BY <2>1, <2>2, <2>3, <2>6
  <2> QED
    BY <2>5, <2>6
<1>5. Goods = Nat
  <2>1. \A n \in Nat : n + 1 <= Len(s) => n <= Len(s)
    BY <1>2
  <2>2. \A n \in Nat : Good(n) => Good(n + 1)
    BY <1>4
  <2>3. Goods \in SUBSET Nat /\ 0 \in Goods /\ \A n \in Goods : n + 1 \in Goods
    BY <1>3, <2>2
  <2> HIDE DEF Goods
  <2> QED
    BY <2>3, Induction
<1> QED
  BY <1>1, <1>2, <1>5

\* s is the beginning of t.
Begins(s, t) == Len(s) <= Len(t) /\ \A i \in 1 .. Len(s) : t[i] = s[i]

\* Begins is IsPrefix, element by element.
LEMMA PrefixBegins ==
  ASSUME NEW T, NEW s \in Seq(T), NEW t \in Seq(T)
  PROVE  IsPrefix(s, t) <=> Begins(s, t)
<1>1. Len(s) \in Nat /\ Len(t) \in Nat
  BY LenProperties
<1>2. CASE Len(s) <= Len(t)
  <2>1. 1 \in 1 .. Len(s) + 1 /\ 1 \in 1 .. Len(t) + 1
        /\ Len(s) \in 0 .. Len(s) /\ Len(s) \in 0 .. Len(t)
    BY <1>1, <1>2
  <2>2. /\ SubSeq(s, 1, Len(s)) = [i \in 1 .. Len(s) |-> s[i]]
        /\ SubSeq(t, 1, Len(s)) = [i \in 1 .. Len(s) |-> t[i]]
    OBVIOUS
  <2> QED
    BY <1>2, <2>2 DEF IsPrefix, Begins
<1>3. CASE ~(Len(s) <= Len(t))
  BY <1>3 DEF IsPrefix, Begins
<1> QED
  BY <1>2, <1>3

\* A longer sequence has a longer selection: Among is monotonic.
LEMMA AmongBegins ==
  ASSUME NEW T, NEW s \in Seq(T), NEW t \in Seq(T), Begins(s, t), NEW S, NEW R,
         \A i \in 1 .. Len(s) : s[i] \in S <=> s[i] \in R
  PROVE  Begins(Among(s, S), Among(t, R))
<1>1. PICK f : Visits(f, s, S) /\ Among(s, S) = f[Len(s)]
  BY AmongVisits
<1>2. PICK g : Visits(g, t, R) /\ Among(t, R) = g[Len(t)]
  BY AmongVisits
<1>3. /\ Len(s) \in Nat /\ Len(t) \in Nat /\ Len(s) <= Len(t)
      /\ \A i \in 1 .. Len(t) : t[i] \in T
      /\ \A i \in 1 .. Len(s) : t[i] = s[i]
  BY SequenceFacts DEF Begins
<1>4. /\ f[0] = << >>
      /\ \A n \in Nat : n + 1 <= Len(s) =>
           f[n + 1] = IF s[n + 1] \in S THEN Append(f[n], s[n + 1]) ELSE f[n]
  BY <1>1, <1>3, VisitsFacts
<1>5. /\ g[0] = << >>
      /\ \A n \in Nat : n + 1 <= Len(t) =>
           g[n + 1] = IF t[n + 1] \in R THEN Append(g[n], t[n + 1]) ELSE g[n]
  BY <1>2, <1>3, VisitsFacts
<1> DEFINE Goods == {n \in Nat : n <= Len(t) =>
                       /\ g[n] \in Seq(T)
                       /\ n <= Len(s) => f[n] = g[n]
                       /\ Len(s) <= n => Begins(f[Len(s)], g[n])}
<1>7. 0 \in Goods
  <2>1. Begins(<< >>, << >>) /\ << >> \in Seq(T)
    <3>1. << >> \in Seq(T) /\ Len(<< >>) = 0
      OBVIOUS
    <3> QED
      BY <3>1 DEF Begins
  <2>2. Len(s) <= 0 => Len(s) = 0
    BY <1>3
  <2>3. f[0] = << >> /\ g[0] = << >>
    BY <1>4, <1>5
  <2> HIDE DEF Begins
  <2>4. Len(s) <= 0 => Begins(f[Len(s)], g[0])
    BY <2>1, <2>2, <2>3
  <2> QED
    BY <2>1, <2>3, <2>4
<1>8. ASSUME NEW n \in Goods, n + 1 <= Len(t)
      PROVE  /\ g[n + 1] \in Seq(T)
             /\ n + 1 <= Len(s) => f[n + 1] = g[n + 1]
             /\ Len(s) <= n + 1 => Begins(f[Len(s)], g[n + 1])
  <2>1. /\ n \in Nat /\ n + 1 \in 1 .. Len(t) /\ (n + 1) - 1 = n
        /\ g[n] \in Seq(T)
        /\ n <= Len(s) => f[n] = g[n]
        /\ Len(s) <= n => Begins(f[Len(s)], g[n])
    BY <1>3, <1>8
  <2>2. g[n + 1] = IF t[n + 1] \in R THEN Append(g[n], t[n + 1]) ELSE g[n]
    BY <1>5, <2>1
  <2>3. t[n + 1] \in T
    BY <1>3, <2>1
  <2>4. g[n + 1] \in Seq(T) /\ Begins(g[n], g[n + 1])
    <3>1. Len(g[n]) \in Nat
      BY <2>1, LenProperties
    <3>2. CASE t[n + 1] \in R
      BY <2>1, <2>2, <2>3, <3>1, <3>2, AppendFacts DEF Begins
    <3>3. CASE t[n + 1] \notin R
      BY <2>1, <2>2, <3>1, <3>3 DEF Begins
    <3> QED
      BY <3>2, <3>3
  <2>5. CASE n + 1 <= Len(s)
    <3>1. n + 1 \in 1 .. Len(s) /\ n <= Len(s)
      BY <1>3, <2>1, <2>5
    <3>2. f[n + 1] = IF s[n + 1] \in S THEN Append(f[n], s[n + 1]) ELSE f[n]
      BY <1>4, <2>1, <3>1
    <3>3. f[n + 1] = g[n + 1]
      BY <1>3, <2>1, <2>2, <3>1, <3>2
    <3>4. Len(s) <= n + 1 => Begins(f[Len(s)], g[n + 1])
      <4>1. CASE Len(s) = n + 1
        <5>1. Len(g[n + 1]) \in Nat
          BY <2>4, LenProperties
        <5> QED
          BY <3>3, <4>1, <5>1 DEF Begins
      <4> QED
        BY <1>3, <2>1, <2>5, <4>1
    <3> QED
      BY <2>4, <3>3, <3>4
  <2>6. CASE ~(n + 1 <= Len(s))
    <3>1. Len(s) <= n
      BY <1>3, <2>1, <2>6
    <3>2. f[Len(s)] \in Seq(T)
      BY <1>1, AmongFacts
    <3>3. Begins(f[Len(s)], g[n]) /\ Begins(g[n], g[n + 1])
      BY <2>1, <2>4, <3>1
    <3>4. /\ Len(f[Len(s)]) \in Nat /\ Len(g[n]) \in Nat /\ Len(g[n + 1]) \in Nat
      BY <2>1, <2>4, <3>2, LenProperties
    <3>5. Begins(f[Len(s)], g[n + 1])
      BY <3>3, <3>4 DEF Begins
    <3> QED
      BY <2>4, <2>6, <3>5
  <2> QED
    BY <2>5, <2>6
<1>9. Goods = Nat
  <2>1. ASSUME NEW n \in Goods
        PROVE  n + 1 \in Goods
    <3>1. n + 1 \in Nat
      OBVIOUS
    <3>2. CASE n + 1 <= Len(t)
      BY <1>8, <3>1, <3>2
    <3>3. CASE ~(n + 1 <= Len(t))
      BY <3>1, <3>3
    <3> QED
      BY <3>2, <3>3
  <2>2. \A n \in Goods : n \in Nat
    OBVIOUS
  <2> HIDE DEF Goods
  <2>3. Goods \in SUBSET Nat
    BY <2>2
  <2> QED
    BY <1>7, <2>1, <2>3, Induction
<1>10. Len(t) \in Goods
  BY <1>3, <1>9
<1>11. Begins(f[Len(s)], g[Len(t)])
  <2> HIDE DEF Begins
  <2> QED
    BY <1>3, <1>10
<1> QED
  BY <1>1, <1>2, <1>11

-----------------------------------------------------------------------------
\* The registry: how data structures and simulations belong together.

\* The data structures of a simulation.
Members(sim) == ToSet(sim.ds_nums)

\* A registry of n data structures and m simulations.
Sized(reg, n, m) ==
  /\ DOMAIN reg = {"datastructs", "indices_of", "cachesims", "regions"}
  /\ DOMAIN reg.datastructs = 0 .. n - 1
  /\ DOMAIN reg.indices_of = 0 .. n - 1
  /\ DOMAIN reg.cachesims = 0 .. m - 1

Linked(reg, n, m) ==
  /\ Sized(reg, n, m)
  /\ \A k \in 0 .. m - 1 :
       reg.cachesims[k] \in CacheSimType /\ Members(reg.cachesims[k]) \subseteq 0 .. n - 1
  /\ \A d \in 0 .. n - 1 :
       reg.indices_of[d] \in Seq(0 .. m - 1) /\ IsInjective(reg.indices_of[d])
  /\ \A d \in 0 .. n - 1, k \in 0 .. m - 1 :
       k \in ToSet(reg.indices_of[d]) <=> d \in Members(reg.cachesims[k])

OwnSim(reg, d) == reg.cachesims[reg.indices_of[d][1]]

Owned(reg, n) ==
  /\ \A d \in 0 .. n - 1 :
       /\ Len(reg.indices_of[d]) >= 1
       /\ OwnSim(reg, d).complement = 0
       /\ Members(OwnSim(reg, d)) = {d}
  /\ reg.indices_of[0][1] = 0

Paired(reg, n, m) ==
  \A k \in 0 .. m - 1 : IsComplement(reg.cachesims[k]) =>
    LET c == reg.cachesims[k].complement
    IN  /\ c \in 0 .. m - 1 /\ ~IsComplement(reg.cachesims[c])
        /\ \A d \in 0 .. n - 1 : d \in Members(reg.cachesims[k]) <=> d \notin Members(reg.cachesims[c])

\* new CacheSim{c} after add_datastruct for each of nums.
FreshSim(c, nums) == [NewCacheSim(c) EXCEPT !.ds_nums = nums]

IsAdded(new, reg, c, nums, n, m) ==
  /\ Sized(new, n, m + 1)
  /\ new.datastructs = reg.datastructs /\ new.regions = reg.regions
  /\ new.cachesims[m] = FreshSim(c, nums)
  /\ \A k \in 0 .. m - 1 : new.cachesims[k] = reg.cachesims[k]
  /\ \A d \in 0 .. n - 1 :
       new.indices_of[d] = IF d \in ToSet(nums) THEN Append(reg.indices_of[d], m)
                           ELSE reg.indices_of[d]

\* AddCacheSim() appends one simulation and lists it for each data structure of nums.
LEMMA AddCacheSimEffect ==
  ASSUME NEW reg, NEW n \in Nat, NEW m \in Nat, Sized(reg, n, m), NEW c, NEW nums
  PROVE  IsAdded(AddCacheSim(reg, c, nums), reg, c, nums, n, m)
<1> DEFINE new == AddCacheSim(reg, c, nums)
           sim == FreshSim(c, nums)
<1>1. SizeOf(reg.cachesims) = m
  BY VectorSize DEF Sized
<1>2. /\ DOMAIN new = DOMAIN reg
      /\ new.datastructs = reg.datastructs /\ new.regions = reg.regions
      /\ new.cachesims = PushBack(reg.cachesims, sim)
      /\ new.indices_of = [d \in DOMAIN reg.indices_of |->
           IF d \in ToSet(nums) THEN Append(reg.indices_of[d], m) ELSE reg.indices_of[d]]
  BY <1>1 DEF AddCacheSim, Sized, FreshSim
<1> HIDE DEF new, sim
<1>3. /\ DOMAIN new.cachesims = 0 .. (m + 1) - 1
      /\ new.cachesims[m] = sim
      /\ \A k \in 0 .. m - 1 : new.cachesims[k] = reg.cachesims[k]
  BY <1>2, PushBackEffect DEF Sized
<1>4. IsAdded(new, reg, c, nums, n, m)
  BY <1>2, <1>3 DEF IsAdded, Sized, sim
<1> QED
  BY <1>4 DEF new

\* The type, data structures and complement of a new simulation.
LEMMA NewSimType ==
  ASSUME NEW c \in Nat, NEW nums \in Seq(Nat)
  PROVE  /\ FreshSim(c, nums) \in CacheSimType
         /\ Members(FreshSim(c, nums)) = ToSet(nums)
         /\ FreshSim(c, nums).complement = c
<1>1. NewCacheSim(c) \in CacheSimType
  BY NewCacheSimWellFormed DEF WellFormed
<1>2. PICK old : old = NewCacheSim(c)
  OBVIOUS
<1>3. old.complement = c /\ old \in CacheSimType
  BY <1>1, <1>2 DEF NewCacheSim
<1>4. /\ [old EXCEPT !.ds_nums = nums] \in CacheSimType
      /\ [old EXCEPT !.ds_nums = nums].ds_nums = nums
      /\ [old EXCEPT !.ds_nums = nums].complement = c
  BY <1>3 DEF CacheSimType
<1> QED
  BY <1>2, <1>4 DEF FreshSim, Members

\* indices_of and ds_nums_ stay two views of one relation when a simulation is added ...
LEMMA AddLinked ==
  ASSUME NEW reg, NEW n \in Nat, NEW m \in Nat, Linked(reg, n, m),
         NEW c \in Nat, NEW nums \in Seq(0 .. n - 1), NEW new,
         IsAdded(new, reg, c, nums, n, m)
  PROVE  Linked(new, n, m + 1)
<1>1. nums \in Seq(Nat) /\ ToSet(nums) \subseteq 0 .. n - 1
  BY SeqMonotonic, SequenceFacts
<1>2. /\ new.cachesims[m] \in CacheSimType
      /\ Members(new.cachesims[m]) = ToSet(nums)
  BY <1>1, NewSimType DEF IsAdded
<1>3. \A k \in 0 .. (m + 1) - 1 : k = m \/ k \in 0 .. m - 1
  OBVIOUS
<1>4. ASSUME NEW k \in 0 .. (m + 1) - 1
      PROVE  new.cachesims[k] \in CacheSimType /\ Members(new.cachesims[k]) \subseteq 0 .. n - 1
  <2>1. CASE k = m
    BY <1>1, <1>2, <2>1
  <2>2. CASE k \in 0 .. m - 1
    <3>1. new.cachesims[k] = reg.cachesims[k]
      BY <2>2 DEF IsAdded
    <3> QED
      BY <2>2, <3>1 DEF Linked
  <2> QED
    BY <1>3, <2>1, <2>2
<1>5. ASSUME NEW d \in 0 .. n - 1
      PROVE  /\ new.indices_of[d] \in Seq(0 .. (m + 1) - 1)
             /\ IsInjective(new.indices_of[d])
             /\ ToSet(new.indices_of[d])
                  = ToSet(reg.indices_of[d]) \cup (IF d \in ToSet(nums) THEN {m} ELSE {})
  <2>1. PICK s : s = reg.indices_of[d]
    OBVIOUS
  <2>2. s \in Seq(0 .. m - 1) /\ IsInjective(s)
    BY <2>1 DEF Linked
  <2> PICK T : T = 0 .. (m + 1) - 1
    OBVIOUS
  <2>3. s \in Seq(T) /\ m \in T /\ m \notin ToSet(s)
    <3>1. 0 .. m - 1 \subseteq T /\ m \in T
      OBVIOUS
    <3>2. ToSet(s) \subseteq 0 .. m - 1
      BY <2>2, SequenceFacts
    <3> QED
      BY <2>2, <3>1, <3>2, SeqMonotonic
  <2>4. CASE d \in ToSet(nums)
    <3>1. new.indices_of[d] = Append(s, m)
      BY <2>1, <2>4 DEF IsAdded
    <3>2. Append(s, m) \in Seq(T)
      BY <2>3, AppendFacts
    <3>4. ToSet(Append(s, m)) = ToSet(s) \cup {m}
      BY <2>3, AppendFacts
    <3>3. IsInjective(Append(s, m))
      BY <2>2, <2>3, AppendKeepsInjective
    <3> QED
      BY <2>1, <2>4, <3>1, <3>2, <3>3, <3>4
  <2>5. CASE d \notin ToSet(nums)
    BY <2>1, <2>2, <2>3, <2>5 DEF IsAdded
  <2> QED
    BY <2>4, <2>5
<1>6. ASSUME NEW d \in 0 .. n - 1, NEW k \in 0 .. (m + 1) - 1
      PROVE  k \in ToSet(new.indices_of[d]) <=> d \in Members(new.cachesims[k])
  <2>1. ToSet(reg.indices_of[d]) \subseteq 0 .. m - 1
    BY SequenceFacts DEF Linked
  <2>2. CASE k = m
    <3>1. k \notin ToSet(reg.indices_of[d])
      BY <2>1, <2>2
    <3> QED
      BY <1>2, <1>5, <2>2, <3>1
  <2>3. CASE k \in 0 .. m - 1
    <3>1. new.cachesims[k] = reg.cachesims[k] /\ k # m
      BY <2>3 DEF IsAdded
    <3>2. k \in ToSet(reg.indices_of[d]) <=> d \in Members(reg.cachesims[k])
      BY <2>3 DEF Linked
    <3> QED
      BY <1>5, <3>1, <3>2
  <2> QED
    BY <1>3, <2>2, <2>3
<1> QED
  BY <1>4, <1>5, <1>6 DEF Linked, IsAdded

\* ... each data structure keeps its own simulation ...
LEMMA AddOwned ==
  ASSUME NEW reg, NEW n \in Nat, NEW m \in Nat, Linked(reg, n, m),
         NEW p \in 1 .. n, Owned(reg, p),
         NEW c \in Nat, NEW nums \in Seq(0 .. n - 1), NEW new,
         IsAdded(new, reg, c, nums, n, m)
  PROVE  Owned(new, p)
<1>1. ASSUME NEW d \in 0 .. p - 1
      PROVE  /\ Len(new.indices_of[d]) >= 1
             /\ new.indices_of[d][1] = reg.indices_of[d][1]
             /\ new.indices_of[d][1] \in 0 .. m - 1
  <2>1. PICK s : s = reg.indices_of[d] /\ d \in 0 .. n - 1
    OBVIOUS
  <2>2. s \in Seq(0 .. m - 1) /\ Len(s) >= 1 /\ Len(s) \in Nat
    BY <2>1, LenProperties DEF Linked, Owned
  <2>3. s[1] \in 0 .. m - 1
    BY <2>2, SequenceFacts
  <2>4. s \in Seq(Nat) /\ m \in Nat
    BY <2>2, SeqMonotonic
  <2>5. Len(Append(s, m)) >= 1 /\ Append(s, m)[1] = s[1]
    <3>1. Len(Append(s, m)) = Len(s) + 1 /\ \A i \in 1 .. Len(s) : Append(s, m)[i] = s[i]
      BY <2>4, AppendFacts
    <3> QED
      BY <2>2, <3>1
  <2>6. new.indices_of[d] = s \/ new.indices_of[d] = Append(s, m)
    BY <2>1 DEF IsAdded
  <2> QED
    BY <2>1, <2>2, <2>3, <2>5, <2>6
<1>2. \A d \in 0 .. p - 1 : OwnSim(new, d) = OwnSim(reg, d)
  BY <1>1 DEF IsAdded, OwnSim
<1>3. new.indices_of[0][1] = 0
  BY <1>1 DEF Owned
<1> QED
  BY <1>1, <1>2, <1>3 DEF Owned

\* ... and complements keep their partners, also the new one if it is one.
LEMMA AddPaired ==
  ASSUME NEW reg, NEW n \in Nat, NEW m \in Nat, NEW p \in 0 .. n, Paired(reg, p, m),
         NEW c \in Nat, NEW nums \in Seq(Nat), NEW new,
         IsAdded(new, reg, c, nums, n, m),
         c # 0 => /\ c \in 0 .. m - 1 /\ ~IsComplement(reg.cachesims[c])
                  /\ \A d \in 0 .. p - 1 : d \in ToSet(nums) <=> d \notin Members(reg.cachesims[c])
  PROVE  Paired(new, p, m + 1)
<1>1. /\ new.cachesims[m].complement = c
      /\ Members(new.cachesims[m]) = ToSet(nums)
  <2>1. new.cachesims[m] = FreshSim(c, nums)
    BY DEF IsAdded
  <2> QED
    BY <2>1, NewSimType
<1>2. \A k \in 0 .. m - 1 : new.cachesims[k] = reg.cachesims[k] /\ k \in 0 .. (m + 1) - 1
  BY DEF IsAdded
<1>3. \A k \in 0 .. (m + 1) - 1 : k = m \/ k \in 0 .. m - 1
  OBVIOUS
<1>4. ASSUME NEW k \in 0 .. m - 1, IsComplement(new.cachesims[k])
      PROVE  LET e == new.cachesims[k].complement
             IN  /\ e \in 0 .. (m + 1) - 1 /\ ~IsComplement(new.cachesims[e])
                 /\ \A d \in 0 .. p - 1 :
                      d \in Members(new.cachesims[k]) <=> d \notin Members(new.cachesims[e])
  <2>1. PICK e : e = reg.cachesims[k].complement
    OBVIOUS
  <2>2. /\ e \in 0 .. m - 1 /\ ~IsComplement(reg.cachesims[e])
        /\ \A d \in 0 .. p - 1 :
             d \in Members(reg.cachesims[k]) <=> d \notin Members(reg.cachesims[e])
    BY <1>2, <1>4, <2>1 DEF Paired
  <2> QED
    BY <1>2, <2>1, <2>2
<1>5. ASSUME c # 0
      PROVE  /\ c \in 0 .. (m + 1) - 1 /\ ~IsComplement(new.cachesims[c])
             /\ \A d \in 0 .. p - 1 :
                  d \in Members(new.cachesims[m]) <=> d \notin Members(new.cachesims[c])
  BY <1>1, <1>2, <1>5
<1>6. IsComplement(new.cachesims[m]) <=> c # 0
  BY <1>1 DEF IsComplement
<1> QED
  BY <1>1, <1>3, <1>4, <1>5, <1>6 DEF Paired

SameStack(t, s) ==
  /\ t.next_bucket = s.next_bucket /\ t.complement = s.complement
  /\ t.stack = s.stack /\ t.bucket = s.bucket /\ t.marker = s.marker
  /\ t.aCount = s.aCount /\ t.aCount_excl = s.aCount_excl

Continues(new, old, n, m, m2) ==
  /\ m <= m2
  /\ \A i \in 0 .. n - 1 : new.datastructs[i] = old.datastructs[i]
                            /\ Begins(old.indices_of[i], new.indices_of[i])
  /\ \A k \in 0 .. m - 1 : SameStack(new.cachesims[k], old.cachesims[k])
  /\ \A k \in m .. m2 - 1 :
       SameStack(new.cachesims[k], NewCacheSim(new.cachesims[k].complement))
  /\ DOMAIN new.regions = DOMAIN old.regions

\* SameStack is transitive ...
LEMMA SameStackTransitive ==
  ASSUME NEW r, NEW s, NEW t, SameStack(r, s), SameStack(s, t)
  PROVE  SameStack(r, t)
BY DEF SameStack

\* ... and so is Begins ...
LEMMA BeginsTransitive ==
  ASSUME NEW S, NEW T, NEW r \in Seq(S), NEW s \in Seq(T), NEW t, Len(t) \in Nat,
         Begins(r, s), Begins(s, t)
  PROVE  Begins(r, t)
<1>1. Len(r) \in Nat /\ Len(s) \in Nat
  BY LenProperties
<1> QED
  BY <1>1 DEF Begins

Typed(reg, n) == \A i \in 0 .. n - 1 : reg.indices_of[i] \in Seq(Nat)

\* ... and hence Continues, over several changes of the registry.
LEMMA ContinuesTransitive ==
  ASSUME NEW a, NEW b, NEW c, NEW n \in Nat, NEW n2 \in Nat, n <= n2,
         NEW m \in Nat, NEW m2 \in Nat, NEW m3 \in Nat,
         Typed(a, n), Typed(b, n), Typed(c, n),
         Continues(b, a, n, m, m2), Continues(c, b, n2, m2, m3)
  PROVE  Continues(c, a, n, m, m3)
<1>1. m <= m2 /\ m2 <= m3
  BY DEF Continues
<1>2. ASSUME NEW i \in 0 .. n - 1
      PROVE  c.datastructs[i] = a.datastructs[i] /\ Begins(a.indices_of[i], c.indices_of[i])
  <2>1. i \in 0 .. n2 - 1
    OBVIOUS
  <2>2. /\ c.datastructs[i] = b.datastructs[i] /\ Begins(b.indices_of[i], c.indices_of[i])
        /\ b.datastructs[i] = a.datastructs[i] /\ Begins(a.indices_of[i], b.indices_of[i])
    BY <2>1 DEF Continues
  <2>3. /\ a.indices_of[i] \in Seq(Nat) /\ b.indices_of[i] \in Seq(Nat)
        /\ Len(c.indices_of[i]) \in Nat
    BY LenProperties DEF Typed
  <2> QED
    BY <2>2, <2>3, BeginsTransitive
<1>3. ASSUME NEW k \in 0 .. m - 1
      PROVE  SameStack(c.cachesims[k], a.cachesims[k])
  <2>1. k \in 0 .. m2 - 1
    BY <1>1
  <2> QED
    BY <2>1, SameStackTransitive DEF Continues
<1>4. ASSUME NEW k \in m .. m3 - 1
      PROVE  SameStack(c.cachesims[k], NewCacheSim(c.cachesims[k].complement))
  <2>1. CASE k \in m2 .. m3 - 1
    BY <2>1 DEF Continues
  <2>2. CASE k \in m .. m2 - 1
    <3>1. k \in 0 .. m2 - 1
      BY <2>2
    <3>2. SameStack(c.cachesims[k], b.cachesims[k])
      BY <3>1 DEF Continues
    <3>3. SameStack(b.cachesims[k], NewCacheSim(b.cachesims[k].complement))
      BY <2>2 DEF Continues
    <3>4. b.cachesims[k].complement = c.cachesims[k].complement
      BY <3>2 DEF SameStack
    <3> QED
      BY <3>2, <3>3, <3>4, SameStackTransitive
  <2>3. k \in m2 .. m3 - 1 \/ k \in m .. m2 - 1
    BY <1>1
  <2> QED
    BY <2>1, <2>2, <2>3
<1> QED
  BY <1>1, <1>2, <1>3, <1>4 DEF Continues

\* A new simulation leaves the others as they are and has an empty stack.
LEMMA AddContinues ==
  ASSUME NEW reg, NEW n \in Nat, NEW m \in Nat, Linked(reg, n, m),
         NEW c \in Nat, NEW nums \in Seq(0 .. n - 1), NEW new,
         IsAdded(new, reg, c, nums, n, m)
  PROVE  Continues(new, reg, n, m, m + 1)
<1>1. ASSUME NEW i \in 0 .. n - 1
      PROVE  Begins(reg.indices_of[i], new.indices_of[i])
  <2>1. PICK s : s = reg.indices_of[i]
    OBVIOUS
  <2>2. s \in Seq(0 .. m - 1)
    BY <2>1 DEF Linked
  <2>3. s \in Seq(Nat) /\ Len(s) \in Nat
    BY <2>2, SeqMonotonic, LenProperties
  <2>4. Begins(s, s)
    BY <2>3 DEF Begins
  <2>5. Begins(s, Append(s, m))
    BY <2>3, AppendFacts DEF Begins
  <2>6. new.indices_of[i] = s \/ new.indices_of[i] = Append(s, m)
    BY <2>1 DEF IsAdded
  <2> QED
    BY <2>1, <2>4, <2>5, <2>6
<1>2. \A k \in 0 .. m - 1 : SameStack(new.cachesims[k], reg.cachesims[k])
  BY DEF IsAdded, SameStack
<1>3. SameStack(new.cachesims[m], NewCacheSim(new.cachesims[m].complement))
  <2>1. new.cachesims[m] = FreshSim(c, nums)
    BY DEF IsAdded
  <2>2. nums \in Seq(Nat)
    BY SeqMonotonic
  <2>3. new.cachesims[m].complement = c
    BY <2>1, <2>2, NewSimType
  <2>4. SameStack(FreshSim(c, nums), NewCacheSim(c))
    BY DEF FreshSim, NewCacheSim, SameStack
  <2> QED
    BY <2>1, <2>3, <2>4
<1>4. m <= m + 1 /\ \A k \in m .. (m + 1) - 1 : k = m
  OBVIOUS
<1> QED
  BY <1>1, <1>2, <1>3, <1>4 DEF Continues, IsAdded

IsGrown(new, reg) ==
  /\ DOMAIN new = DOMAIN reg
  /\ new.datastructs = reg.datastructs
  /\ new.indices_of = reg.indices_of
  /\ new.cachesims = reg.cachesims
  /\ new.regions = [r \in DOMAIN reg.regions |-> RegisterDatastructInRegion(reg.regions[r])]

\* GrowRegions() changes the regions only ...
LEMMA GrowRegionsEffect ==
  ASSUME NEW reg, NEW n, NEW m, Sized(reg, n, m)
  PROVE  IsGrown(GrowRegions(reg), reg)
BY DEF GrowRegions, IsGrown, Sized

\* ... so it keeps what is known of the rest.
LEMMA GrowKeeps ==
  ASSUME NEW reg, NEW n \in Nat, NEW m \in Nat, NEW new, IsGrown(new, reg), NEW p
  PROVE  /\ Linked(reg, n, m) => Linked(new, n, m) /\ Continues(new, reg, n, m, m)
         /\ Owned(reg, p) => Owned(new, p)
         /\ Paired(reg, p, m) => Paired(new, p, m)
<1>1. /\ new.datastructs = reg.datastructs
      /\ new.indices_of = reg.indices_of
      /\ new.cachesims = reg.cachesims
      /\ DOMAIN new = DOMAIN reg
      /\ DOMAIN new.regions = DOMAIN reg.regions
  BY DEF IsGrown
<1>2. ASSUME Linked(reg, n, m)
      PROVE  Continues(new, reg, n, m, m)
  <2>1. ASSUME NEW i \in 0 .. n - 1
        PROVE  Begins(reg.indices_of[i], reg.indices_of[i])
    <3>1. Len(reg.indices_of[i]) \in Nat
      BY <1>2, LenProperties DEF Linked
    <3> QED
      BY <3>1 DEF Begins
  <2>2. \A k \in 0 .. m - 1 : SameStack(reg.cachesims[k], reg.cachesims[k])
    BY DEF SameStack
  <2>3. m <= m /\ \A k : k \notin m .. m - 1
    OBVIOUS
  <2> QED
    BY <1>1, <2>1, <2>2, <2>3 DEF Continues
<1>3. Linked(reg, n, m) => Linked(new, n, m)
  BY <1>1 DEF Linked, Sized
<1>4. Owned(reg, p) => Owned(new, p)
  BY <1>1 DEF Owned, OwnSim
<1>5. Paired(reg, p, m) => Paired(new, p, m)
  BY <1>1 DEF Paired
<1> QED
  BY <1>2, <1>3, <1>4, <1>5

Complements(reg, m) == {k \in 0 .. m - 1 : IsComplement(reg.cachesims[k])}

IsJoined(new, reg, d, n, m) ==
  /\ Sized(new, n, m)
  /\ new.datastructs = reg.datastructs /\ new.regions = reg.regions
  /\ \A k \in 0 .. m - 1 :
       new.cachesims[k] = IF IsComplement(reg.cachesims[k])
                          THEN AddDatastruct(reg.cachesims[k], d) ELSE reg.cachesims[k]
  /\ \A e \in (0 .. n - 1) \ {d} : new.indices_of[e] = reg.indices_of[e]
  /\ new.indices_of[d] = reg.indices_of[d] \o
       Among(Earlier(m), Complements(reg, m))

\* JoinComplements() adds d to the complements, and them to indices_of[d].
LEMMA JoinComplementsEffect ==
  ASSUME NEW reg, NEW n \in Nat, NEW m \in Nat, Sized(reg, n, m), NEW d \in 0 .. n - 1
  PROVE  IsJoined(JoinComplements(reg, d), reg, d, n, m)
<1> DEFINE new == JoinComplements(reg, d)
           complements == Complements(reg, m)
<1>1. SizeOf(reg.cachesims) = m
  BY VectorSize DEF Sized
<1>2. /\ DOMAIN new = DOMAIN reg
      /\ new.datastructs = reg.datastructs /\ new.regions = reg.regions
      /\ new.cachesims = [k \in 0 .. m - 1 |-> IF k \in complements
                            THEN AddDatastruct(reg.cachesims[k], d) ELSE reg.cachesims[k]]
      /\ new.indices_of = [reg.indices_of EXCEPT
           ![d] = reg.indices_of[d] \o Among(Earlier(m), complements)]
  <2> DEFINE sims == DOMAIN reg.cachesims
             some == {k \in sims : IsComplement(reg.cachesims[k])}
             cs  == [k \in sims |-> IF k \in some
                       THEN AddDatastruct(reg.cachesims[k], d) ELSE reg.cachesims[k]]
             idx == [reg.indices_of EXCEPT
                      ![d] = reg.indices_of[d] \o Among(Earlier(SizeOf(reg.cachesims)), some)]
  <2>1. DOMAIN reg.cachesims = 0 .. m - 1 /\ SizeOf(reg.cachesims) = m /\ some = complements
    BY <1>1 DEF Sized, Complements
  <2>2. new = [reg EXCEPT !.cachesims = cs, !.indices_of = idx]
    BY DEF JoinComplements
  <2> HIDE DEF new, cs, idx
  <2>3. /\ DOMAIN new = DOMAIN reg
        /\ new.datastructs = reg.datastructs /\ new.regions = reg.regions
        /\ new.cachesims = cs /\ new.indices_of = idx
    BY <2>2 DEF Sized
  <2> QED
    BY <2>1, <2>3 DEF cs, idx
<1> HIDE DEF new
<1>3. /\ DOMAIN new.indices_of = 0 .. n - 1
      /\ \A e \in (0 .. n - 1) \ {d} : new.indices_of[e] = reg.indices_of[e]
      /\ new.indices_of[d] = reg.indices_of[d] \o Among(Earlier(m), complements)
  BY <1>2 DEF Sized
<1>4. IsJoined(new, reg, d, n, m)
  BY <1>2, <1>3 DEF IsJoined, Sized, Complements
<1> QED
  BY <1>4 DEF new

\* add_datastruct() leaves the stack alone.
LEMMA AddDatastructEffect ==
  ASSUME NEW sim \in CacheSimType, NEW d \in Nat
  PROVE  /\ AddDatastruct(sim, d) \in CacheSimType
         /\ Members(AddDatastruct(sim, d)) = Members(sim) \cup {d}
         /\ SameStack(AddDatastruct(sim, d), sim)
<1>1. sim.ds_nums \in Seq(Nat)
  BY DEF CacheSimType
<1>2. Append(sim.ds_nums, d) \in Seq(Nat)
  BY <1>1, AppendFacts
<1>3. ToSet(Append(sim.ds_nums, d)) = ToSet(sim.ds_nums) \cup {d}
  BY <1>1, AppendFacts
<1>4. PICK t : t = [sim EXCEPT !.ds_nums = Append(sim.ds_nums, d)]
  OBVIOUS
<1>5. t \in CacheSimType /\ t.ds_nums = Append(sim.ds_nums, d) /\ SameStack(t, sim)
  BY <1>2, <1>4 DEF CacheSimType, SameStack
<1>6. t = AddDatastruct(sim, d)
  BY <1>4 DEF AddDatastruct
<1> QED
  BY <1>3, <1>5, <1>6 DEF Members

\* What JoinComplements expects: d is in no complement and in no partner.
Unjoined(reg, d, m) ==
  \A k \in 0 .. m - 1 : IsComplement(reg.cachesims[k]) =>
    /\ d \notin Members(reg.cachesims[k])
    /\ d \notin Members(reg.cachesims[reg.cachesims[k].complement])

HasJoined(new, reg, d, m) ==
  /\ \A k \in 0 .. m - 1 :
       /\ new.cachesims[k] \in CacheSimType
       /\ SameStack(new.cachesims[k], reg.cachesims[k])
       /\ IsComplement(new.cachesims[k]) <=> IsComplement(reg.cachesims[k])
       /\ Members(new.cachesims[k]) = Members(reg.cachesims[k])
            \cup (IF IsComplement(reg.cachesims[k]) THEN {d} ELSE {})
  /\ new.indices_of[d] \in Seq(0 .. m - 1)
  /\ IsInjective(new.indices_of[d])
  /\ Begins(reg.indices_of[d], new.indices_of[d])
  /\ ToSet(new.indices_of[d]) = ToSet(reg.indices_of[d]) \cup Complements(reg, m)

\* What JoinComplements() does when d is in no complement yet.
LEMMA JoinFacts ==
  ASSUME NEW reg, NEW n \in Nat, NEW m \in Nat, Linked(reg, n, m), NEW d \in 0 .. n - 1,
         Unjoined(reg, d, m), NEW new, IsJoined(new, reg, d, n, m)
  PROVE  HasJoined(new, reg, d, m)
<1>1. ASSUME NEW k \in 0 .. m - 1
      PROVE  /\ new.cachesims[k] \in CacheSimType
             /\ SameStack(new.cachesims[k], reg.cachesims[k])
             /\ IsComplement(new.cachesims[k]) <=> IsComplement(reg.cachesims[k])
             /\ Members(new.cachesims[k]) =
                  Members(reg.cachesims[k])
                    \cup (IF IsComplement(reg.cachesims[k]) THEN {d} ELSE {})
  <2>1. PICK s, t : s = reg.cachesims[k] /\ t = new.cachesims[k]
    OBVIOUS
  <2>2. s \in CacheSimType
    BY <2>1 DEF Linked
  <2>3. t = IF IsComplement(s) THEN AddDatastruct(s, d) ELSE s
    BY <2>1 DEF IsJoined
  <2>4. CASE IsComplement(s)
    <3>1. t \in CacheSimType /\ Members(t) = Members(s) \cup {d} /\ SameStack(t, s)
      BY <2>2, <2>3, <2>4, AddDatastructEffect
    <3>2. t.complement = s.complement
      BY <3>1 DEF SameStack
    <3> QED
      BY <2>1, <2>4, <3>1, <3>2 DEF IsComplement
  <2>5. CASE ~IsComplement(s)
    BY <2>1, <2>2, <2>3, <2>5 DEF SameStack
  <2> QED
    BY <2>4, <2>5
<1> DEFINE old == reg.indices_of[d]
           complements == Complements(reg, m)
           added == Among(Earlier(m), complements)
<1>2. old \in Seq(0 .. m - 1) /\ IsInjective(old)
  BY DEF Linked
<1>3. /\ added \in Seq(0 .. m - 1)
      /\ ToSet(added) = complements
      /\ IsInjective(added)
  <2>1. /\ Earlier(m) \in Seq(0 .. m - 1)
        /\ ToSet(Earlier(m)) = 0 .. m - 1
        /\ IsInjective(Earlier(m))
    BY EarlierFacts
  <2> HIDE DEF complements
  <2>2. /\ added \in Seq(0 .. m - 1)
        /\ ToSet(added) = ToSet(Earlier(m)) \cap complements
        /\ IsInjective(Earlier(m)) => IsInjective(added)
    BY <2>1, AmongFacts
  <2>3. ToSet(added) = (0 .. m - 1) \cap complements
    BY <2>1, <2>2
  <2> QED
    BY <2>1, <2>2, <2>3 DEF complements, Complements
<1>4. ToSet(old) \cap ToSet(added) = {}
  <2>1. \A k \in complements : d \notin Members(reg.cachesims[k])
    BY DEF Unjoined, Complements
  <2>2. \A k \in complements : k \notin ToSet(old)
    BY <2>1 DEF Linked, Complements
  <2> QED
    BY <1>3, <2>2
<1>5. new.indices_of[d] = old \o added
  BY DEF IsJoined
<1> HIDE DEF old, added, complements
<1>6. IsInjective(old \o added)
  BY <1>2, <1>3, <1>4, ConcatInjective
<1>7. old \o added \in Seq(0 .. m - 1)
  BY <1>2, <1>3, ConcatFacts
<1>8. ToSet(old \o added) = ToSet(old) \cup complements
  BY <1>2, <1>3, ConcatFacts
<1>9. Begins(old, old \o added)
  <2>1. Len(old) \in Nat /\ Len(added) \in Nat
    BY <1>2, <1>3, LenProperties
  <2>2. Len(old \o added) = Len(old) + Len(added)
    BY <1>2, <1>3, ConcatFacts
  <2>3. \A i \in 1 .. Len(old) : (old \o added)[i] = old[i]
    BY <1>2, <1>3, ConcatFacts
  <2> QED
    BY <2>1, <2>2, <2>3 DEF Begins
<1>10. /\ new.indices_of[d] \in Seq(0 .. m - 1)
       /\ IsInjective(new.indices_of[d])
       /\ Begins(reg.indices_of[d], new.indices_of[d])
       /\ ToSet(new.indices_of[d]) = ToSet(reg.indices_of[d]) \cup complements
  BY <1>5, <1>6, <1>7, <1>8, <1>9 DEF old
<1> QED
  BY <1>1, <1>10 DEF complements, HasJoined

\* Afterwards complements are right for one data structure more.
LEMMA JoinKeeps ==
  ASSUME NEW reg, NEW n \in Nat, NEW m \in Nat, Linked(reg, n, m), NEW d \in 0 .. n - 1,
         Unjoined(reg, d, m), NEW new, IsJoined(new, reg, d, n, m)
  PROVE  /\ Linked(new, n, m)
         /\ Continues(new, reg, n, m, m)
         /\ Owned(reg, n) => Owned(new, n)
         /\ d = n - 1 /\ Paired(reg, n - 1, m) => Paired(new, n, m)
<1> HasJoined(new, reg, d, m)
  BY JoinFacts
<1>1. ASSUME NEW k \in 0 .. m - 1
      PROVE  /\ new.cachesims[k] \in CacheSimType
             /\ SameStack(new.cachesims[k], reg.cachesims[k])
             /\ IsComplement(new.cachesims[k]) <=> IsComplement(reg.cachesims[k])
             /\ Members(new.cachesims[k]) =
                  Members(reg.cachesims[k])
                    \cup (IF IsComplement(reg.cachesims[k]) THEN {d} ELSE {})
  BY DEF HasJoined
<1>2. /\ new.indices_of[d] \in Seq(0 .. m - 1)
      /\ IsInjective(new.indices_of[d])
      /\ Begins(reg.indices_of[d], new.indices_of[d])
      /\ ToSet(new.indices_of[d]) = ToSet(reg.indices_of[d]) \cup Complements(reg, m)
  BY DEF HasJoined
<1>3. \A e \in (0 .. n - 1) \ {d} : new.indices_of[e] = reg.indices_of[e]
  BY DEF IsJoined
<1>4. ASSUME NEW e \in 0 .. n - 1
      PROVE  Begins(reg.indices_of[e], new.indices_of[e])
  <2>1. CASE e = d
    BY <1>2, <2>1
  <2>2. CASE e # d
    <3>1. Len(reg.indices_of[e]) \in Nat
      BY LenProperties DEF Linked
    <3> QED
      BY <1>3, <2>2, <3>1 DEF Begins
  <2> QED
    BY <2>1, <2>2
<1>5. Linked(new, n, m)
  <2>1. ASSUME NEW k \in 0 .. m - 1
        PROVE  new.cachesims[k] \in CacheSimType /\ Members(new.cachesims[k]) \subseteq 0 .. n - 1
    BY <1>1 DEF Linked
  <2>2. ASSUME NEW e \in 0 .. n - 1
        PROVE  new.indices_of[e] \in Seq(0 .. m - 1) /\ IsInjective(new.indices_of[e])
    BY <1>2, <1>3 DEF Linked
  <2>3. ASSUME NEW e \in 0 .. n - 1, NEW k \in 0 .. m - 1
        PROVE  k \in ToSet(new.indices_of[e]) <=> e \in Members(new.cachesims[k])
    <3>1. k \in ToSet(reg.indices_of[e]) <=> e \in Members(reg.cachesims[k])
      BY DEF Linked
    <3>2. CASE e = d
      BY <1>1, <1>2, <3>1, <3>2 DEF Complements
    <3>3. CASE e # d
      BY <1>1, <1>3, <3>1, <3>3
    <3> QED
      BY <3>2, <3>3
  <2> QED
    BY <2>1, <2>2, <2>3 DEF Linked, IsJoined
<1>6. Continues(new, reg, n, m, m)
  <2>1. m <= m /\ \A k : k \notin m .. m - 1
    OBVIOUS
  <2> QED
    BY <1>1, <1>4, <2>1 DEF Continues, IsJoined
<1>7. ASSUME Owned(reg, n)
      PROVE  Owned(new, n)
  <2>1. ASSUME NEW e \in 0 .. n - 1
        PROVE  /\ Len(new.indices_of[e]) >= 1
               /\ new.indices_of[e][1] = reg.indices_of[e][1]
               /\ reg.indices_of[e][1] \in 0 .. m - 1
    <3>1. PICK s, t : s = reg.indices_of[e] /\ t = new.indices_of[e]
      OBVIOUS
    <3>2. s \in Seq(0 .. m - 1) /\ t \in Seq(0 .. m - 1)
      BY <1>5, <3>1 DEF Linked
    <3>3. Len(s) >= 1 /\ Begins(s, t)
      BY <1>4, <1>7, <3>1 DEF Owned
    <3>4. Len(s) \in Nat /\ Len(t) \in Nat
      BY <3>2, LenProperties
    <3>5. 1 \in 1 .. Len(s)
      BY <3>3, <3>4
    <3>6. s[1] \in 0 .. m - 1
      BY <3>2, <3>5, SequenceFacts
    <3>7. Len(t) >= 1 /\ t[1] = s[1]
      BY <3>3, <3>4, <3>5 DEF Begins
    <3> QED
      BY <3>1, <3>6, <3>7
  <2>2. ASSUME NEW e \in 0 .. n - 1
        PROVE  OwnSim(new, e).complement = 0 /\ Members(OwnSim(new, e)) = {e}
    <3>1. PICK k : k = reg.indices_of[e][1]
      OBVIOUS
    <3>2. k \in 0 .. m - 1 /\ OwnSim(reg, e) = reg.cachesims[k] /\ OwnSim(new, e) = new.cachesims[k]
      BY <2>1, <3>1 DEF OwnSim
    <3>3. reg.cachesims[k].complement = 0 /\ Members(reg.cachesims[k]) = {e}
      BY <1>7, <3>2 DEF Owned
    <3>4. new.cachesims[k].complement = 0
      BY <1>1, <3>2, <3>3 DEF SameStack
    <3>5. Members(new.cachesims[k]) = Members(reg.cachesims[k])
      BY <1>1, <3>2, <3>3 DEF IsComplement
    <3> QED
      BY <3>2, <3>3, <3>4, <3>5
  <2>3. new.indices_of[0][1] = 0
    <3>1. 0 \in 0 .. n - 1
      OBVIOUS
    <3>2. new.indices_of[0][1] = reg.indices_of[0][1]
      BY <2>1, <3>1
    <3> QED
      BY <1>7, <3>2 DEF Owned
  <2> QED
    BY <2>1, <2>2, <2>3 DEF Owned
<1>8. ASSUME d = n - 1, Paired(reg, n - 1, m)
      PROVE  Paired(new, n, m)
  <2>1. ASSUME NEW k \in 0 .. m - 1, IsComplement(new.cachesims[k])
        PROVE  LET c == new.cachesims[k].complement
               IN  /\ c \in 0 .. m - 1 /\ ~IsComplement(new.cachesims[c])
                   /\ \A e \in 0 .. n - 1 :
                        e \in Members(new.cachesims[k]) <=> e \notin Members(new.cachesims[c])
    <3>1. PICK c : c = reg.cachesims[k].complement
      OBVIOUS
    <3>2. IsComplement(reg.cachesims[k]) /\ new.cachesims[k].complement = c
      BY <1>1, <2>1, <3>1 DEF SameStack
    <3>3. /\ c \in 0 .. m - 1 /\ ~IsComplement(reg.cachesims[c])
          /\ \A e \in 0 .. (n - 1) - 1 :
               e \in Members(reg.cachesims[k]) <=> e \notin Members(reg.cachesims[c])
      BY <1>8, <3>1, <3>2 DEF Paired
    <3>4. d \notin Members(reg.cachesims[c])
      BY <3>1, <3>2 DEF Unjoined
    <3>5. /\ Members(new.cachesims[k]) = Members(reg.cachesims[k]) \cup {d}
          /\ Members(new.cachesims[c]) = Members(reg.cachesims[c])
          /\ ~IsComplement(new.cachesims[c])
      BY <1>1, <3>2, <3>3
    <3>6. \A e \in 0 .. n - 1 : e = d \/ e \in 0 .. (n - 1) - 1
      BY <1>8
    <3>7. \A e \in 0 .. n - 1 :
            e \in Members(new.cachesims[k]) <=> e \notin Members(new.cachesims[c])
      BY <1>8, <3>3, <3>4, <3>5, <3>6
    <3> QED
      BY <3>2, <3>3, <3>5, <3>7
  <2> QED
    BY <2>1 DEF Paired
<1> QED
  BY <1>5, <1>6, <1>7, <1>8

-----------------------------------------------------------------------------
\* combine().

Registry(reg, n, m) ==
  /\ n >= 1 /\ m >= 1
  /\ Linked(reg, n, m)
  /\ Owned(reg, n)
  /\ Paired(reg, n, m)

\* indices_of holds sequences.
LEMMA LinkedTyped ==
  ASSUME NEW reg, NEW n \in Nat, NEW m \in Nat, Linked(reg, n, m)
  PROVE  Typed(reg, n)
<1>1. 0 .. m - 1 \subseteq Nat
  OBVIOUS
<1>2. \A i \in 0 .. n - 1 : reg.indices_of[i] \in Seq(0 .. m - 1)
  BY DEF Linked
<1> QED
  BY <1>1, <1>2, SeqMonotonic DEF Typed

\* A pair and its complement leave a registry a registry.
LEMMA CombinePairKeeps ==
  ASSUME NEW reg, NEW n \in Nat, NEW m \in Nat, Registry(reg, n, m), NEW other \in 0 .. n - 2
  PROVE  /\ Registry(CombinePair(n - 1, reg, other), n, m + 2)
         /\ Continues(CombinePair(n - 1, reg, other), reg, n, m, m + 2)
<1> DEFINE d == n - 1
           a == AddCacheSim(reg, 0, <<d, other>>)
           b == GrowRegions(a)
           rest == Among(Earlier(d), DOMAIN reg.datastructs \ {other})
           c == AddCacheSim(b, m, rest)
<1>1. /\ n >= 1 /\ m >= 1 /\ Linked(reg, n, m) /\ Owned(reg, n) /\ Paired(reg, n, m)
      /\ Sized(reg, n, m)
  BY DEF Registry, Linked
<1>2. SizeOf(reg.cachesims) = m /\ DOMAIN reg.datastructs = 0 .. n - 1
  BY <1>1, VectorSize DEF Sized
<1>3. CombinePair(d, reg, other) = c
  BY <1>2 DEF CombinePair
<1>4. d \in 0 .. n - 1 /\ other \in 0 .. n - 1 /\ d \in Nat
  BY <1>1
<1>5. /\ <<d, other>> \in Seq(0 .. n - 1) /\ <<d, other>> \in Seq(Nat)
      /\ ToSet(<<d, other>>) = {d, other}
  <2> HIDE DEF d
  <2>1. <<d, other>> \in Seq(0 .. n - 1) /\ <<d, other>> \in Seq(Nat)
    BY <1>4
  <2>2. DOMAIN <<d, other>> = 1 .. 2 /\ <<d, other>>[1] = d /\ <<d, other>>[2] = other
    BY <1>4
  <2>3. ToSet(<<d, other>>) = {d, other}
    BY <2>2 DEF ToSet
  <2> QED
    BY <2>1, <2>3
<1>6. /\ rest \in Seq(0 .. n - 1) /\ rest \in Seq(Nat)
      /\ ToSet(rest) = (0 .. d - 1) \ {other}
  <2> DEFINE R == DOMAIN reg.datastructs \ {other}
  <2> HIDE DEF R
  <2>1. /\ Earlier(d) \in Seq(0 .. d - 1)
        /\ ToSet(Earlier(d)) = 0 .. d - 1
    BY <1>4, EarlierFacts
  <2>2. 0 .. d - 1 \subseteq 0 .. n - 1 /\ 0 .. d - 1 \subseteq Nat
    OBVIOUS
  <2>3. Among(Earlier(d), R) \in Seq(0 .. d - 1)
        /\ ToSet(Among(Earlier(d), R)) = ToSet(Earlier(d)) \cap R
    BY <2>1, AmongFacts
  <2>4. (0 .. d - 1) \cap R = (0 .. d - 1) \ {other}
    BY <1>2, <2>2 DEF R
  <2>5. rest = Among(Earlier(d), R)
    BY DEF R
  <2> HIDE DEF rest, d
  <2>6. rest \in Seq(0 .. n - 1)
    BY <2>2, <2>3, <2>5, SeqMonotonic
  <2>7. rest \in Seq(Nat)
    BY <2>2, <2>3, <2>5, SeqMonotonic
  <2> QED
    BY <2>1, <2>3, <2>4, <2>5, <2>6, <2>7
<1> HIDE DEF d, a, b, c, rest
<1>7. IsAdded(a, reg, 0, <<d, other>>, n, m)
  BY <1>1, AddCacheSimEffect DEF a
<1>8. /\ Linked(a, n, m + 1) /\ Owned(a, n) /\ Paired(a, n, m + 1)
      /\ Continues(a, reg, n, m, m + 1)
  <2>1. Linked(a, n, m + 1)
    BY <1>1, <1>5, <1>7, AddLinked
  <2>2. Owned(a, n)
    <3>1. n \in 1 .. n
      BY <1>1
    <3> QED
      BY <1>1, <1>5, <1>7, <3>1, AddOwned
  <2>3. Paired(a, n, m + 1)
    <3>1. n \in 0 .. n
      OBVIOUS
    <3> QED
      BY <1>1, <1>5, <1>7, <3>1, AddPaired
  <2>4. Continues(a, reg, n, m, m + 1)
    BY <1>1, <1>5, <1>7, AddContinues
  <2> QED
    BY <2>1, <2>2, <2>3, <2>4
<1>9. IsGrown(b, a)
  BY <1>8, GrowRegionsEffect DEF b, Linked
<1>10. /\ Linked(b, n, m + 1) /\ Owned(b, n) /\ Paired(b, n, m + 1)
       /\ Continues(b, a, n, m + 1, m + 1)
  BY <1>8, <1>9, GrowKeeps
<1>11. IsAdded(c, b, m, rest, n, m + 1)
  BY <1>10, AddCacheSimEffect DEF c, Linked
<1>12. b.cachesims[m] = FreshSim(0, <<d, other>>)
  BY <1>7, <1>9 DEF IsAdded, IsGrown
<1>13. /\ m \in 0 .. (m + 1) - 1 /\ ~IsComplement(b.cachesims[m])
       /\ \A e \in 0 .. n - 1 : e \in ToSet(rest) <=> e \notin Members(b.cachesims[m])
  <2>1. b.cachesims[m].complement = 0 /\ Members(b.cachesims[m]) = {d, other}
    BY <1>5, <1>12, NewSimType
  <2>2. \A e \in 0 .. n - 1 : e \in (0 .. d - 1) \ {other} <=> e \notin {d, other}
    BY DEF d
  <2> QED
    BY <1>6, <2>1, <2>2 DEF IsComplement
<1>14. m + 1 \in Nat /\ (m + 1) + 1 = m + 2
  OBVIOUS
<1>15. Linked(c, n, m + 2)
  BY <1>6, <1>10, <1>11, <1>14, AddLinked
<1>16. Owned(c, n)
  <2>1. n \in 1 .. n
    BY <1>1
  <2> QED
    BY <1>6, <1>10, <1>11, <1>14, <2>1, AddOwned
<1>17. Paired(c, n, m + 2)
  <2>1. n \in 0 .. n
    OBVIOUS
  <2> QED
    BY <1>6, <1>10, <1>11, <1>13, <1>14, <2>1, AddPaired
<1>18. Continues(c, b, n, m + 1, m + 2)
  BY <1>6, <1>10, <1>11, <1>14, AddContinues
<1>19. Continues(c, reg, n, m, m + 2)
  <2>1. Typed(reg, n) /\ Typed(a, n) /\ Typed(b, n) /\ Typed(c, n)
    <3>1. m + 2 \in Nat
      OBVIOUS
    <3> QED
      BY <1>1, <1>8, <1>10, <1>14, <1>15, <3>1, LinkedTyped
  <2>4. n <= n
    OBVIOUS
  <2>2. Continues(b, reg, n, m, m + 1)
    BY <1>8, <1>10, <1>14, <2>1, <2>4, ContinuesTransitive
  <2>3. m + 2 \in Nat
    OBVIOUS
  <2> QED
    BY <1>14, <1>18, <2>1, <2>2, <2>3, <2>4, ContinuesTransitive
<1> QED
  BY <1>1, <1>3, <1>15, <1>16, <1>17, <1>19 DEF Registry, d

\* f is the function Combine() is defined by.
Rounds(f, reg, d) ==
  f = [n \in 0 .. d |->
         IF n = 0 THEN reg
         ELSE IF Large(reg, n - 1) THEN CombinePair(d, f[n - 1], n - 1) ELSE f[n - 1]]

\* One round of the loop in combine().
LEMMA RoundsFacts ==
  ASSUME NEW f, NEW reg, NEW d \in Nat, Rounds(f, reg, d)
  PROVE  /\ f[0] = reg
         /\ \A n \in Nat : n + 1 <= d =>
              f[n + 1] = IF Large(reg, n) THEN CombinePair(d, f[n], n) ELSE f[n]
<1>1. f[0] = reg
  BY DEF Rounds
<1>2. ASSUME NEW n \in Nat, n + 1 <= d
      PROVE  f[n + 1] = IF Large(reg, n) THEN CombinePair(d, f[n], n) ELSE f[n]
  <2>1. n + 1 \in 0 .. d /\ n + 1 # 0 /\ (n + 1) - 1 = n
    BY <1>2
  <2> QED
    BY <2>1 DEF Rounds
<1> QED
  BY <1>1, <1>2

\* Combine() is the registry after the last round.
LEMMA CombineRounds ==
  ASSUME NEW reg, NEW d \in Nat, Large(reg, d)
  PROVE  \E f : Rounds(f, reg, d) /\ Combine(reg, d) = f[d]
<1> DEFINE Round(g, n) ==
             IF n = 0 THEN reg
             ELSE IF Large(reg, n - 1) THEN CombinePair(d, g[n - 1], n - 1) ELSE g[n - 1]
           Some == {m \in Nat : \E g : \A n \in 0 .. m : g[n] = Round(g, n)}
<1>1. ASSUME NEW g, NEW h, NEW n \in Nat, n # 0 => h[n - 1] = g[n - 1]
      PROVE  Round(h, n) = Round(g, n)
  BY <1>1
<1>2. 0 \in Some
  <2>1. PICK g : g = [n \in {0} |-> reg]
    OBVIOUS
  <2>2. g[0] = Round(g, 0)
    BY <2>1
  <2>3. \A n \in 0 .. 0 : n = 0
    OBVIOUS
  <2> HIDE DEF Round
  <2>4. \A n \in 0 .. 0 : g[n] = Round(g, n)
    BY <2>2, <2>3
  <2> QED
    BY <2>4
<1> HIDE DEF Round
<1>3. ASSUME NEW m \in Some
      PROVE  m + 1 \in Some
  <2>1. PICK g : \A n \in 0 .. m : g[n] = Round(g, n)
    OBVIOUS
  <2>2. PICK h : h = [n \in 0 .. m + 1 |-> IF n = m + 1 THEN Round(g, n) ELSE g[n]]
    OBVIOUS
  <2>3. h[m + 1] = Round(g, m + 1) /\ \A n \in 0 .. m : h[n] = g[n]
    BY <2>2
  <2>4. ASSUME NEW n \in 0 .. m + 1
        PROVE  h[n] = Round(h, n)
    <3>1. n # 0 => n - 1 \in 0 .. m
      OBVIOUS
    <3>2. Round(h, n) = Round(g, n)
      BY <1>1, <2>3, <3>1
    <3>3. n = m + 1 \/ n \in 0 .. m
      OBVIOUS
    <3> QED
      BY <2>1, <2>3, <3>2, <3>3
  <2> QED
    BY <2>4
<1>4. Some = Nat
  <2>1. Some \in SUBSET Nat
    OBVIOUS
  <2> HIDE DEF Some
  <2> QED
    BY <1>2, <1>3, <2>1, Induction
<1>5. PICK g : \A n \in 0 .. d : g[n] = Round(g, n)
  BY <1>4
<1>6. PICK f : f = [n \in 0 .. d |-> g[n]]
  OBVIOUS
<1>7. \A n \in 0 .. d : g[n] = Round(f, n)
  <2>1. ASSUME NEW n \in 0 .. d
        PROVE  Round(f, n) = Round(g, n)
    <3>1. n # 0 => f[n - 1] = g[n - 1]
      BY <1>6
    <3> QED
      BY <1>1, <3>1
  <2> QED
    BY <1>5, <2>1
<1>8. f = [n \in 0 .. d |-> Round(f, n)]
  BY <1>6, <1>7
<1>9. Rounds(f, reg, d)
  BY <1>8 DEF Rounds, Round
<1>10. Combine(reg, d) = (CHOOSE h : Rounds(h, reg, d))[d]
  BY DEF Combine, Rounds
<1> QED
  BY <1>9, <1>10

\* What new has become of a registry of n data structures and m simulations.
Grows(new, reg, n, m) ==
  \E m2 \in Nat : Registry(new, n, m2) /\ Continues(new, reg, n, m, m2)

\* A registry continues itself.
LEMMA RegistryContinues ==
  ASSUME NEW reg, NEW n \in Nat, NEW m \in Nat, Registry(reg, n, m)
  PROVE  Continues(reg, reg, n, m, m)
<1>2. ASSUME NEW i \in 0 .. n - 1
      PROVE  Begins(reg.indices_of[i], reg.indices_of[i])
  <2>1. Len(reg.indices_of[i]) \in Nat
    BY LenProperties DEF Registry, Linked
  <2> QED
    BY <2>1 DEF Begins
<1>3. \A k \in 0 .. m - 1 : SameStack(reg.cachesims[k], reg.cachesims[k])
  BY DEF SameStack
<1>4. m <= m /\ \A k : k \notin m .. m - 1
  OBVIOUS
<1> QED
  BY <1>2, <1>3, <1>4 DEF Continues

\* A registry that has grown grows by a further pair.
LEMMA GrowsOnce ==
  ASSUME NEW reg, NEW n \in Nat, NEW m \in Nat, Registry(reg, n, m),
         NEW mid, Grows(mid, reg, n, m), NEW other \in 0 .. n - 2
  PROVE  Grows(CombinePair(n - 1, mid, other), reg, n, m)
<1>1. PICK m2 \in Nat : Registry(mid, n, m2) /\ Continues(mid, reg, n, m, m2)
  BY DEF Grows
<1> DEFINE new == CombinePair(n - 1, mid, other)
<1>2. Registry(new, n, m2 + 2) /\ Continues(new, mid, n, m2, m2 + 2)
  BY <1>1, CombinePairKeeps
<1> HIDE DEF new
<1>3. Linked(reg, n, m) /\ Linked(mid, n, m2) /\ Linked(new, n, m2 + 2) /\ m2 + 2 \in Nat
  BY <1>1, <1>2 DEF Registry
<1>4. Typed(reg, n) /\ Typed(mid, n) /\ Typed(new, n)
  BY <1>3, LinkedTyped
<1>5. Continues(new, reg, n, m, m2 + 2)
  <2>1. n <= n
    OBVIOUS
  <2> QED
    BY <1>1, <1>2, <1>3, <1>4, <2>1, ContinuesTransitive
<1>6. Grows(new, reg, n, m)
  BY <1>2, <1>3, <1>5 DEF Grows
<1> QED
  BY <1>6 DEF new

\* combine() turns a registry into a larger one.
LEMMA CombineGrows ==
  ASSUME NEW reg, NEW n \in Nat, NEW m \in Nat, Registry(reg, n, m)
  PROVE  Grows(Combine(reg, n - 1), reg, n, m)
<1>0. n - 1 \in Nat
  BY DEF Registry
<1>1. Grows(reg, reg, n, m)
  BY RegistryContinues DEF Grows
<1>2. CASE ~Large(reg, n - 1)
  BY <1>1, <1>2 DEF Combine
<1>3. CASE Large(reg, n - 1)
  <2>1. PICK f : Rounds(f, reg, n - 1) /\ Combine(reg, n - 1) = f[n - 1]
    BY <1>0, <1>3, CombineRounds
  <2>2. /\ f[0] = reg
        /\ \A i \in Nat : i + 1 <= n - 1 =>
             f[i + 1] = IF Large(reg, i) THEN CombinePair(n - 1, f[i], i) ELSE f[i]
    BY <1>0, <2>1, RoundsFacts
  <2> DEFINE Goods == {i \in Nat : i <= n - 1 => Grows(f[i], reg, n, m)}
  <2>3. 0 \in Goods
    BY <1>1, <2>2
  <2>4. ASSUME NEW i \in Goods
        PROVE  i + 1 \in Goods
    <3>1. i \in Nat /\ i + 1 \in Nat
      OBVIOUS
    <3>2. CASE i + 1 <= n - 1
      <4>1. i \in 0 .. n - 2 /\ i <= n - 1
        BY <1>0, <3>1, <3>2
      <4>2. Grows(f[i], reg, n, m)
        BY <4>1
      <4>3. Grows(CombinePair(n - 1, f[i], i), reg, n, m)
        BY <4>1, <4>2, GrowsOnce
      <4>4. f[i + 1] = f[i] \/ f[i + 1] = CombinePair(n - 1, f[i], i)
        BY <2>2, <3>1, <3>2
      <4> QED
        BY <3>1, <4>2, <4>3, <4>4
    <3>3. CASE ~(i + 1 <= n - 1)
      BY <3>1, <3>3
    <3> QED
      BY <3>2, <3>3
  <2>5. \A i \in Goods : i \in Nat
    OBVIOUS
  <2>6. Goods = Nat
    <3> HIDE DEF Goods
    <3>1. Goods \in SUBSET Nat
      BY <2>5
    <3> QED
      BY <2>3, <2>4, <3>1, Induction
  <2>7. n - 1 \in Goods /\ n - 1 <= n - 1
    BY <1>0, <2>6
  <2> QED
    BY <2>1, <2>7
<1> QED
  BY <1>2, <1>3

-----------------------------------------------------------------------------
\* Registered(), the whole of register_datastruct().

\* What Registered() expects: the empty registry, or a consistent one.
Registrable(reg, n, m) ==
  /\ Linked(reg, n, m) /\ Paired(reg, n, m)
  /\ n = 0 => m = 0
  /\ n >= 1 => Owned(reg, n)

IsKnown(known, reg, ds, n, m) ==
  /\ Sized(known, n + 1, m)
  /\ known.cachesims = reg.cachesims /\ known.regions = reg.regions
  /\ known.datastructs[n] = ds /\ known.indices_of[n] = << >>
  /\ \A i \in 0 .. n - 1 : /\ known.datastructs[i] = reg.datastructs[i]
                           /\ known.indices_of[i] = reg.indices_of[i]

\* The registry once the data structure has its number ...
LEMMA KnownEffect ==
  ASSUME NEW reg, NEW n \in Nat, NEW m \in Nat, Sized(reg, n, m), NEW ds, NEW known,
         known = [reg EXCEPT !.datastructs = PushBack(@, ds), !.indices_of = PushBack(@, << >>)]
  PROVE  IsKnown(known, reg, ds, n, m)
<1>1. /\ DOMAIN known = DOMAIN reg
      /\ known.cachesims = reg.cachesims /\ known.regions = reg.regions
      /\ known.datastructs = PushBack(reg.datastructs, ds)
      /\ known.indices_of = PushBack(reg.indices_of, << >>)
  BY DEF Sized
<1>2. /\ DOMAIN known.datastructs = 0 .. (n + 1) - 1
      /\ known.datastructs[n] = ds
      /\ \A i \in 0 .. n - 1 : known.datastructs[i] = reg.datastructs[i]
  BY <1>1, PushBackEffect DEF Sized
<1>3. /\ DOMAIN known.indices_of = 0 .. (n + 1) - 1
      /\ known.indices_of[n] = << >>
      /\ \A i \in 0 .. n - 1 : known.indices_of[i] = reg.indices_of[i]
  BY <1>1, PushBackEffect DEF Sized
<1> QED
  BY <1>1, <1>2, <1>3 DEF IsKnown, Sized

\* ... which no simulation has among its data structures yet.
LEMMA KnownKeeps ==
  ASSUME NEW reg, NEW n \in Nat, NEW m \in Nat, Linked(reg, n, m), NEW ds, NEW known,
         IsKnown(known, reg, ds, n, m)
  PROVE  /\ Linked(known, n + 1, m)
         /\ Continues(known, reg, n, m, m)
         /\ Paired(reg, n, m) => Paired(known, n, m)
         /\ Owned(reg, n) /\ n >= 1 => Owned(known, n)
         /\ \A k \in 0 .. m - 1 : n \notin Members(known.cachesims[k])
<1>1. /\ known.cachesims = reg.cachesims /\ known.indices_of[n] = << >>
      /\ \A i \in 0 .. n - 1 : known.indices_of[i] = reg.indices_of[i]
  BY DEF IsKnown
<1>2. \A k \in 0 .. m - 1 : n \notin Members(known.cachesims[k])
  BY <1>1 DEF Linked
<1>3. \A i \in 0 .. (n + 1) - 1 : i = n \/ i \in 0 .. n - 1
  OBVIOUS
<1>4. << >> \in Seq(0 .. m - 1) /\ IsInjective(<< >>) /\ ToSet(<< >>) = {}
  BY DEF IsInjective, ToSet
<1>5. Linked(known, n + 1, m)
  <2>1. ASSUME NEW k \in 0 .. m - 1
        PROVE  /\ known.cachesims[k] \in CacheSimType
               /\ Members(known.cachesims[k]) \subseteq 0 .. (n + 1) - 1
    <3>1. reg.cachesims[k] \in CacheSimType /\ Members(reg.cachesims[k]) \subseteq 0 .. n - 1
      BY DEF Linked
    <3>2. 0 .. n - 1 \subseteq 0 .. (n + 1) - 1
      OBVIOUS
    <3> QED
      BY <1>1, <3>1, <3>2
  <2>2. ASSUME NEW d \in 0 .. (n + 1) - 1
        PROVE  /\ known.indices_of[d] \in Seq(0 .. m - 1)
               /\ IsInjective(known.indices_of[d])
               /\ \A k \in 0 .. m - 1 :
                    k \in ToSet(known.indices_of[d]) <=> d \in Members(known.cachesims[k])
    <3>1. CASE d = n
      BY <1>1, <1>2, <1>4, <3>1
    <3>2. CASE d \in 0 .. n - 1
      BY <1>1, <3>2 DEF Linked
    <3> QED
      BY <1>3, <3>1, <3>2
  <2> QED
    BY <2>1, <2>2 DEF Linked, IsKnown
<1>6. Continues(known, reg, n, m, m)
  <2>1. ASSUME NEW i \in 0 .. n - 1
        PROVE  Begins(reg.indices_of[i], known.indices_of[i])
    <3>1. Len(reg.indices_of[i]) \in Nat
      BY LenProperties DEF Linked
    <3> QED
      BY <1>1, <3>1 DEF Begins
  <2>2. \A k \in 0 .. m - 1 : SameStack(known.cachesims[k], reg.cachesims[k])
    BY <1>1 DEF SameStack
  <2>3. m <= m /\ \A k : k \notin m .. m - 1
    OBVIOUS
  <2> QED
    BY <2>1, <2>2, <2>3 DEF Continues, IsKnown
<1>7. Paired(reg, n, m) => Paired(known, n, m)
  BY <1>1 DEF Paired
<1>8. ASSUME Owned(reg, n), n >= 1
      PROVE  Owned(known, n)
  <2>1. \A d \in 0 .. n - 1 : OwnSim(known, d) = OwnSim(reg, d)
    BY <1>1 DEF OwnSim
  <2>2. known.indices_of[0] = reg.indices_of[0]
    BY <1>1, <1>8
  <2> QED
    BY <1>1, <1>8, <2>1, <2>2 DEF Owned
<1> QED
  BY <1>2, <1>5, <1>6, <1>7, <1>8

\* The registry after the data structure's own simulation.
IsAlone(alone, reg, ds, n, m) ==
  /\ Linked(alone, n + 1, m + 1)
  /\ Owned(alone, n + 1)
  /\ Paired(alone, n, m + 1)
  /\ Unjoined(alone, n, m + 1)
  /\ Continues(alone, reg, n, m, m + 1)
  /\ alone.datastructs[n] = ds
  /\ alone.cachesims[m].complement = 0
  /\ Members(alone.cachesims[m]) = {n}

\* The first simulation a data structure gets is its own.
LEMMA AloneFacts ==
  ASSUME NEW reg, NEW n \in Nat, NEW m \in Nat, Registrable(reg, n, m), NEW ds,
         NEW known, IsKnown(known, reg, ds, n, m)
  PROVE  IsAlone(GrowRegions(AddCacheSim(known, 0, <<n>>)), reg, ds, n, m)
<1> DEFINE own == AddCacheSim(known, 0, <<n>>)
           new == GrowRegions(own)
<1>1. /\ Linked(reg, n, m) /\ Paired(reg, n, m)
      /\ n = 0 => m = 0
      /\ n >= 1 => Owned(reg, n)
  BY DEF Registrable
<1>2. /\ Linked(known, n + 1, m)
      /\ Continues(known, reg, n, m, m)
      /\ Paired(known, n, m)
      /\ n >= 1 => Owned(known, n)
      /\ \A k \in 0 .. m - 1 : n \notin Members(known.cachesims[k])
  BY <1>1, KnownKeeps
<1>3. /\ <<n>> \in Seq(0 .. (n + 1) - 1) /\ <<n>> \in Seq(Nat)
      /\ ToSet(<<n>>) = {n}
  <2>1. <<n>> \in Seq(0 .. (n + 1) - 1) /\ <<n>> \in Seq(Nat)
    OBVIOUS
  <2>2. DOMAIN <<n>> = 1 .. 1 /\ <<n>>[1] = n
    OBVIOUS
  <2> QED
    BY <2>1, <2>2 DEF ToSet
<1> HIDE DEF own, new
<1>0. n + 1 \in Nat /\ 0 \in Nat
  OBVIOUS
<1>4. IsAdded(own, known, 0, <<n>>, n + 1, m)
  BY <1>2, AddCacheSimEffect DEF own, Linked
<1>5. Linked(own, n + 1, m + 1)
  BY <1>0, <1>2, <1>3, <1>4, AddLinked
<1>6. Paired(own, n, m + 1)
  <2>1. n \in 0 .. n + 1
    OBVIOUS
  <2> QED
    BY <1>0, <1>2, <1>3, <1>4, <2>1, AddPaired
<1>7. Continues(own, known, n + 1, m, m + 1)
  BY <1>0, <1>2, <1>3, <1>4, AddContinues
<1>8. /\ own.cachesims[m].complement = 0
      /\ Members(own.cachesims[m]) = {n}
  <2>1. own.cachesims[m] = FreshSim(0, <<n>>)
    BY <1>4 DEF IsAdded
  <2> QED
    BY <1>3, <2>1, NewSimType
<1>9. Owned(own, n + 1)
  <2>1. own.indices_of[n] = Append(<< >>, m)
    <3>1. n \in ToSet(<<n>>) /\ n \in 0 .. (n + 1) - 1
      BY <1>3
    <3>2. known.indices_of[n] = << >>
      BY DEF IsKnown
    <3> QED
      BY <1>4, <3>1, <3>2 DEF IsAdded
  <2>2. Len(own.indices_of[n]) = 1 /\ own.indices_of[n][1] = m
    BY <2>1
  <2>3. OwnSim(own, n) = own.cachesims[m]
    BY <2>2 DEF OwnSim
  <2>4. CASE n = 0
    <3>1. m = 0 /\ \A d \in 0 .. (n + 1) - 1 : d = n
      BY <1>1, <2>4
    <3> QED
      BY <1>8, <2>2, <2>3, <2>4, <3>1 DEF Owned
  <2>5. CASE n >= 1
    <3>1. n \in 1 .. n + 1
      BY <2>5
    <3>2. Owned(own, n)
      BY <1>0, <1>2, <1>3, <1>4, <2>5, <3>1, AddOwned
    <3>3. \A d \in 0 .. (n + 1) - 1 : d = n \/ d \in 0 .. n - 1
      OBVIOUS
    <3> QED
      BY <1>8, <2>2, <2>3, <3>2, <3>3 DEF Owned
  <2> QED
    BY <2>4, <2>5
<1>10. IsGrown(new, own)
  BY <1>5, GrowRegionsEffect DEF new, Linked
<1>11. /\ Linked(new, n + 1, m + 1)
       /\ Continues(new, own, n + 1, m + 1, m + 1)
       /\ Owned(new, n + 1)
       /\ Paired(new, n, m + 1)
  BY <1>5, <1>6, <1>9, <1>10, GrowKeeps
<1>12. new.cachesims = own.cachesims /\ new.datastructs[n] = ds
  BY <1>4, <1>10 DEF IsGrown, IsAdded, IsKnown
<1>13. Unjoined(new, n, m + 1)
  <2>1. ASSUME NEW k \in 0 .. (m + 1) - 1, IsComplement(own.cachesims[k])
        PROVE  /\ n \notin Members(own.cachesims[k])
               /\ n \notin Members(own.cachesims[own.cachesims[k].complement])
    <3>1. k \in 0 .. m - 1
      BY <1>8, <2>1 DEF IsComplement
    <3>2. own.cachesims[k] = known.cachesims[k]
      BY <1>4, <3>1 DEF IsAdded
    <3>3. known.cachesims[k].complement \in 0 .. m - 1
      BY <1>2, <2>1, <3>1, <3>2 DEF Paired
    <3>4. \A c \in 0 .. m - 1 : own.cachesims[c] = known.cachesims[c]
      BY <1>4 DEF IsAdded
    <3> QED
      BY <1>2, <3>1, <3>2, <3>3, <3>4
  <2> QED
    BY <1>12, <2>1 DEF Unjoined
<1>14. Continues(new, reg, n, m, m + 1)
  <2>1. n <= n + 1 /\ n <= n
    OBVIOUS
  <2>2. Typed(reg, n) /\ Typed(known, n) /\ Typed(own, n) /\ Typed(new, n)
    <3>1. Typed(reg, n) /\ Typed(known, n + 1) /\ Typed(own, n + 1) /\ Typed(new, n + 1)
      BY <1>1, <1>2, <1>5, <1>11, LinkedTyped
    <3> QED
      BY <3>1 DEF Typed
  <2>3. Continues(own, reg, n, m, m + 1)
    BY <1>2, <1>7, <2>1, <2>2, ContinuesTransitive
  <2> QED
    BY <1>11, <2>1, <2>2, <2>3, ContinuesTransitive
<1> QED
  BY <1>8, <1>11, <1>12, <1>13, <1>14 DEF IsAlone, new, own

\* What new has become of a registry after ds was registered.
HasRegistered(new, reg, ds, n, m) ==
  \E m2 \in Nat : /\ Registry(new, n + 1, m2)
                  /\ Continues(new, reg, n, m, m2)
                  /\ new.datastructs[n] = ds

\* The complement of that one, after d joined the older complements.
LEMMA RestFacts ==
  ASSUME NEW reg, NEW n \in Nat, NEW m \in Nat, n >= 1, NEW ds,
         NEW alone, IsAlone(alone, reg, ds, n, m), Linked(reg, n, m),
         NEW new, new = GrowRegions(AddCacheSim(JoinComplements(alone, n), m, Earlier(n)))
  PROVE  /\ Registry(new, n + 1, m + 2)
         /\ Continues(new, reg, n, m, m + 2)
         /\ new.datastructs[n] = ds
<1> DEFINE join == JoinComplements(alone, n)
           compl == AddCacheSim(join, m, Earlier(n))
<1>1. /\ Linked(alone, n + 1, m + 1)
      /\ Owned(alone, n + 1)
      /\ Paired(alone, n, m + 1)
      /\ Unjoined(alone, n, m + 1)
      /\ Continues(alone, reg, n, m, m + 1)
      /\ alone.datastructs[n] = ds
      /\ alone.cachesims[m].complement = 0
      /\ Members(alone.cachesims[m]) = {n}
  BY DEF IsAlone
<1>2. n \in 0 .. (n + 1) - 1 /\ n = (n + 1) - 1 /\ m + 1 \in Nat /\ n + 1 \in Nat
      /\ (m + 1) + 1 = m + 2 /\ m + 2 \in Nat
  OBVIOUS
<1>3. new = GrowRegions(compl)
  OBVIOUS
<1> HIDE DEF join, compl
<1>4. IsJoined(join, alone, n, n + 1, m + 1)
  BY <1>1, <1>2, JoinComplementsEffect DEF join, Linked
<1>5. /\ Linked(join, n + 1, m + 1)
      /\ Continues(join, alone, n + 1, m + 1, m + 1)
      /\ Owned(join, n + 1)
      /\ Paired(join, n + 1, m + 1)
  BY <1>1, <1>2, <1>4, JoinKeeps
<1>6. /\ Earlier(n) \in Seq(0 .. (n + 1) - 1) /\ Earlier(n) \in Seq(Nat)
      /\ ToSet(Earlier(n)) = 0 .. n - 1
  <2>1. Earlier(n) \in Seq(0 .. n - 1) /\ ToSet(Earlier(n)) = 0 .. n - 1
    BY EarlierFacts
  <2>2. 0 .. n - 1 \subseteq 0 .. (n + 1) - 1 /\ 0 .. n - 1 \subseteq Nat
    OBVIOUS
  <2>3. Earlier(n) \in Seq(0 .. (n + 1) - 1)
    BY <2>1, <2>2, SeqMonotonic
  <2>4. Earlier(n) \in Seq(Nat)
    BY <2>1, <2>2, SeqMonotonic
  <2> QED
    BY <2>1, <2>3, <2>4
<1>7. IsAdded(compl, join, m, Earlier(n), n + 1, m + 1)
  BY <1>2, <1>5, AddCacheSimEffect DEF compl, Linked
<1>8. Linked(compl, n + 1, m + 2)
  BY <1>2, <1>5, <1>6, <1>7, AddLinked
<1>9. Owned(compl, n + 1)
  <2>1. n + 1 \in 1 .. n + 1
    OBVIOUS
  <2> QED
    BY <1>2, <1>5, <1>6, <1>7, <2>1, AddOwned
<1>10. Paired(compl, n + 1, m + 2)
  <2>1. n + 1 \in 0 .. n + 1 /\ m \in 0 .. (m + 1) - 1
    OBVIOUS
  <2>2. ~IsComplement(join.cachesims[m]) /\ Members(join.cachesims[m]) = {n}
    <3>1. join.cachesims[m] = alone.cachesims[m]
      BY <1>1, <1>4, <2>1 DEF IsJoined, IsComplement
    <3> QED
      BY <1>1, <3>1 DEF IsComplement
  <2>3. \A e \in 0 .. (n + 1) - 1 : e \in ToSet(Earlier(n)) <=> e \notin Members(join.cachesims[m])
    BY <1>6, <2>2
  <2> QED
    BY <1>2, <1>5, <1>6, <1>7, <2>1, <2>2, <2>3, AddPaired
<1>11. Continues(compl, join, n + 1, m + 1, m + 2)
  BY <1>2, <1>5, <1>6, <1>7, AddContinues
<1>12. IsGrown(new, compl)
  BY <1>3, <1>8, GrowRegionsEffect DEF Linked
<1>13. /\ Linked(new, n + 1, m + 2)
       /\ Continues(new, compl, n + 1, m + 2, m + 2)
       /\ Owned(new, n + 1)
       /\ Paired(new, n + 1, m + 2)
  BY <1>2, <1>8, <1>9, <1>10, <1>12, GrowKeeps
<1>14. Registry(new, n + 1, m + 2)
  BY <1>13 DEF Registry
<1>15. new.datastructs[n] = ds
  BY <1>1, <1>4, <1>7, <1>12 DEF IsJoined, IsAdded, IsGrown
<1>16. Continues(new, reg, n, m, m + 2)
  <2>1. n <= n + 1 /\ n <= n
    OBVIOUS
  <2>2. /\ Typed(reg, n) /\ Typed(alone, n) /\ Typed(join, n)
        /\ Typed(compl, n) /\ Typed(new, n)
    <3>1. /\ Typed(reg, n) /\ Typed(alone, n + 1) /\ Typed(join, n + 1)
          /\ Typed(compl, n + 1) /\ Typed(new, n + 1)
      BY <1>1, <1>2, <1>5, <1>8, <1>13, LinkedTyped
    <3> QED
      BY <3>1 DEF Typed
  <2>3. Continues(join, reg, n, m, m + 1)
    BY <1>1, <1>2, <1>5, <2>1, <2>2, ContinuesTransitive
  <2>4. Continues(compl, reg, n, m, m + 2)
    BY <1>2, <1>11, <2>1, <2>2, <2>3, ContinuesTransitive
  <2> QED
    BY <1>2, <1>13, <2>1, <2>2, <2>4, ContinuesTransitive
<1> QED
  BY <1>14, <1>15, <1>16

\* register_datastruct() turns a registry into one with ds as its last data structure.
LEMMA RegisteredFacts ==
  ASSUME NEW reg, NEW n \in Nat, NEW m \in Nat, Registrable(reg, n, m), NEW ds
  PROVE  HasRegistered(Registered(reg, ds), reg, ds, n, m)
<1>1. PICK known :
        known = [reg EXCEPT !.datastructs = PushBack(@, ds), !.indices_of = PushBack(@, << >>)]
  OBVIOUS
<1>2. PICK alone : alone = GrowRegions(AddCacheSim(known, 0, <<n>>))
  OBVIOUS
<1>3. PICK rest : rest = GrowRegions(AddCacheSim(JoinComplements(alone, n), m, Earlier(n)))
  OBVIOUS
<1>4. /\ Sized(reg, n, m) /\ Linked(reg, n, m)
      /\ n = 0 => m = 0
  BY DEF Registrable, Linked
<1>5. SizeOf(reg.datastructs) = n /\ SizeOf(reg.cachesims) = m
  BY <1>4, VectorSize DEF Sized
<1>6. Registered(reg, ds) = IF n = RD_NO_DATASTRUCT THEN alone ELSE Combine(rest, n)
  BY <1>1, <1>2, <1>3, <1>5 DEF Registered
<1>7. IsAlone(alone, reg, ds, n, m)
  BY <1>1, <1>2, <1>4, KnownEffect, AloneFacts
<1>8. CASE n = 0
  <2>1. m = 0 /\ Registered(reg, ds) = alone
    BY <1>4, <1>6, <1>8 DEF RD_NO_DATASTRUCT
  <2>2. Paired(alone, n + 1, m + 1)
    <3>1. \A k \in 0 .. (m + 1) - 1 : k = m
      BY <2>1
    <3> QED
      BY <1>7, <3>1 DEF IsAlone, Paired, IsComplement
  <2>3. Registry(alone, n + 1, m + 1) /\ m + 1 \in Nat
    BY <1>7, <2>2 DEF IsAlone, Registry
  <2> QED
    BY <1>7, <2>1, <2>3 DEF IsAlone, HasRegistered
<1>9. CASE n # 0
  <2>1. n >= 1 /\ Registered(reg, ds) = Combine(rest, n)
    BY <1>6, <1>9 DEF RD_NO_DATASTRUCT
  <2>2. /\ Registry(rest, n + 1, m + 2)
        /\ Continues(rest, reg, n, m, m + 2)
        /\ rest.datastructs[n] = ds
    BY <1>3, <1>4, <1>7, <2>1, RestFacts
  <2>3. n + 1 \in Nat /\ m + 2 \in Nat /\ (n + 1) - 1 = n /\ n \in 0 .. (n + 1) - 1
    OBVIOUS
  <2>4. Grows(Combine(rest, n), rest, n + 1, m + 2)
    BY <2>2, <2>3, CombineGrows
  <2>5. PICK m2 \in Nat : /\ Registry(Combine(rest, n), n + 1, m2)
                          /\ Continues(Combine(rest, n), rest, n + 1, m + 2, m2)
    BY <2>4 DEF Grows
  <2>6. Combine(rest, n).datastructs[n] = ds
    BY <2>2, <2>3, <2>5 DEF Continues
  <2>7. Continues(Combine(rest, n), reg, n, m, m2)
    <3>1. n <= n + 1
      OBVIOUS
    <3>2. Linked(rest, n + 1, m + 2) /\ Linked(Combine(rest, n), n + 1, m2)
      BY <2>2, <2>5 DEF Registry
    <3>3. Typed(reg, n) /\ Typed(rest, n + 1) /\ Typed(Combine(rest, n), n + 1)
      BY <1>4, <2>3, <3>2, LinkedTyped
    <3>4. Typed(rest, n) /\ Typed(Combine(rest, n), n)
      BY <3>3 DEF Typed
    <3> QED
      BY <2>2, <2>3, <2>5, <3>1, <3>3, <3>4, ContinuesTransitive
  <2> QED
    BY <2>1, <2>5, <2>6, <2>7 DEF HasRegistered
<1> QED
  BY <1>8, <1>9

-----------------------------------------------------------------------------
\* Stacks.

\* t is s after a moved, or was put, on top.
TopOf(t, s, a) ==
  /\ InStack(t) = InStack(s) \cup {a}
  /\ \A x, y \in InStack(t) :
       Position(t, x) < Position(t, y)
         <=> y # a /\ (x = a \/ Position(s, x) < Position(s, y))

\* A block pushed on a stack is on top of it ...
LEMMA PushedIsTop ==
  ASSUME NEW s, WellFormed(s), NEW t, WellFormed(t), NEW a \in Blocks, a \notin InStack(s),
         Pushed(t, s, a)
  PROVE  TopOf(t, s, a)
<1>1. /\ s \in CacheSimType /\ NoDuplicates(s) /\ t \in CacheSimType /\ NoDuplicates(t)
      /\ Len(s.stack) \in Nat /\ DOMAIN t.stack = 1 .. Len(t.stack)
      /\ Len(t.stack) = Len(s.stack) + 1 /\ t.stack[1] = a
      /\ InStack(t) = InStack(s) \cup {a}
  BY StackFacts DEF WellFormed, Pushed
<1>2. Position(t, a) = 1
  <2>1. 1 \in DOMAIN t.stack
    BY <1>1
  <2> QED
    BY <1>1, <2>1, PositionUnique
<1>3. ASSUME NEW x \in InStack(s)
      PROVE  Position(s, x) \in Nat /\ Position(s, x) >= 1 /\ Position(t, x) = Position(s, x) + 1
  <2>1. Position(s, x) \in 1 .. Len(s.stack) /\ s.stack[Position(s, x)] = x
    BY <1>1, PositionFacts
  <2>2. PICK p \in 1 .. Len(s.stack) : p = Position(s, x)
    BY <2>1
  <2>3. t.stack[p + 1] = x /\ p + 1 \in DOMAIN t.stack
    BY <1>1, <2>1, <2>2 DEF Pushed
  <2>4. Position(t, x) = p + 1
    BY <1>1, <2>3, PositionUnique
  <2> QED
    BY <1>1, <2>2, <2>4
<1>4. ASSUME NEW x \in InStack(t), NEW y \in InStack(t)
      PROVE  Position(t, x) < Position(t, y)
               <=> y # a /\ (x = a \/ Position(s, x) < Position(s, y))
  BY <1>1, <1>2, <1>3, <1>4
<1> QED
  BY <1>1, <1>4 DEF TopOf

\* ... and so is one that was moved up; the others keep their order.
LEMMA RaisedIsTop ==
  ASSUME NEW s, WellFormed(s), NEW t, WellFormed(t), NEW a \in InStack(s), Raised(t, s, a)
  PROVE  TopOf(t, s, a)
<1>1. /\ s \in CacheSimType /\ NoDuplicates(s) /\ t \in CacheSimType /\ NoDuplicates(t)
      /\ Len(s.stack) \in Nat /\ DOMAIN t.stack = 1 .. Len(s.stack)
      /\ t.stack[1] = a /\ InStack(t) = InStack(s) \cup {a}
  BY StackFacts DEF WellFormed, Raised
<1>2. PICK top \in 1 .. Len(s.stack) : top = Position(s, a)
  BY <1>1, PositionFacts
<1>3. Position(t, a) = 1
  <2>1. 1 \in DOMAIN t.stack
    BY <1>1, <1>2
  <2> QED
    BY <1>1, <2>1, PositionUnique
<1>4. ASSUME NEW x \in InStack(s), x # a
      PROVE  /\ Position(s, x) \in Nat /\ Position(s, x) >= 1 /\ Position(s, x) # top
             /\ Position(t, x)
                  = IF Position(s, x) < top THEN Position(s, x) + 1 ELSE Position(s, x)
  <2>1. Position(s, x) \in 1 .. Len(s.stack) /\ s.stack[Position(s, x)] = x
    BY <1>1, PositionFacts
  <2>2. s.stack[top] = a
    BY <1>1, <1>2, PositionFacts
  <2>3. PICK p \in 1 .. Len(s.stack) : p = Position(s, x)
    BY <2>1
  <2>4. p # top
    BY <1>4, <2>1, <2>2, <2>3
  <2>5. CASE p < top
    <3>1. t.stack[p + 1] = x /\ p + 1 \in DOMAIN t.stack
      <4>1. p \in 1 .. Position(s, a) - 1 /\ p + 1 \in 1 .. Len(s.stack)
        BY <1>1, <1>2, <2>5
      <4> QED
        BY <1>1, <2>1, <2>3, <4>1 DEF Raised
    <3>2. Position(t, x) = p + 1
      BY <1>1, <3>1, PositionUnique
    <3> QED
      BY <2>3, <2>5, <3>2
  <2>6. CASE p > top
    <3>1. t.stack[p] = x /\ p \in DOMAIN t.stack
      <4>1. p \in Position(s, a) + 1 .. Len(s.stack)
        BY <1>1, <1>2, <2>6
      <4> QED
        BY <1>1, <2>1, <2>3, <4>1 DEF Raised
    <3>2. Position(t, x) = p
      BY <1>1, <3>1, PositionUnique
    <3> QED
      BY <2>3, <2>6, <3>2
  <2> QED
    BY <2>4, <2>5, <2>6
<1>5. ASSUME NEW x \in InStack(t), NEW y \in InStack(t)
      PROVE  Position(t, x) < Position(t, y)
               <=> y # a /\ (x = a \/ Position(s, x) < Position(s, y))
  <2>1. x \in InStack(s) /\ y \in InStack(s)
    BY <1>1
  <2>2. CASE y = a
    BY <1>3, <1>4, <2>1, <2>2
  <2>3. CASE y # a /\ x = a
    BY <1>3, <1>4, <2>1, <2>3
  <2>4. CASE y # a /\ x # a
    <3>1. PICK p \in Nat : p = Position(s, x) /\ p # top /\ p >= 1
            /\ Position(t, x) = IF p < top THEN p + 1 ELSE p
      BY <1>4, <2>1, <2>4
    <3>2. PICK q \in Nat : q = Position(s, y) /\ q # top /\ q >= 1
            /\ Position(t, y) = IF q < top THEN q + 1 ELSE q
      BY <1>4, <2>1, <2>4
    <3> QED
      BY <2>4, <3>1, <3>2
  <2> QED
    BY <2>2, <2>3, <2>4
<1> QED
  BY <1>1, <1>5 DEF TopOf

\* The part of a stack that a simulation keeps stays in order when a block
\* that is not in it moves to the top of the whole ...
LEMMA OrderWithout ==
  ASSUME NEW sim, NEW global, InOrderOf(sim, global), NEW a, a \notin InStack(sim),
         NEW new, TopOf(new, global, a)
  PROVE  InOrderOf(sim, new)
<1>1. /\ InStack(sim) \subseteq InStack(global)
      /\ \A x, y \in InStack(sim) :
           Position(sim, x) < Position(sim, y) => Position(global, x) < Position(global, y)
  BY DEF InOrderOf
<1>2. InStack(sim) \subseteq InStack(new)
  BY <1>1 DEF TopOf
<1>3. ASSUME NEW x \in InStack(sim), NEW y \in InStack(sim),
             Position(sim, x) < Position(sim, y)
      PROVE  Position(new, x) < Position(new, y)
  <2>1. Position(global, x) < Position(global, y)
    BY <1>1, <1>3
  <2>2. y # a /\ x \in InStack(new) /\ y \in InStack(new)
    BY <1>2
  <2> QED
    BY <2>1, <2>2 DEF TopOf
<1> QED
  BY <1>2, <1>3 DEF InOrderOf

\* ... and when a block moves to the top of both.
LEMMA OrderWith ==
  ASSUME NEW sim, NEW global, InOrderOf(sim, global), NEW a,
         NEW new, TopOf(new, global, a), NEW t, TopOf(t, sim, a)
  PROVE  InOrderOf(t, new)
<1>1. /\ InStack(sim) \subseteq InStack(global)
      /\ \A x, y \in InStack(sim) :
           Position(sim, x) < Position(sim, y) => Position(global, x) < Position(global, y)
  BY DEF InOrderOf
<1>2. InStack(t) = InStack(sim) \cup {a} /\ InStack(new) = InStack(global) \cup {a}
  BY DEF TopOf
<1>3. ASSUME NEW x \in InStack(t), NEW y \in InStack(t), Position(t, x) < Position(t, y)
      PROVE  Position(new, x) < Position(new, y)
  <2>1. y # a /\ (x = a \/ Position(sim, x) < Position(sim, y))
    BY <1>3 DEF TopOf
  <2>2. x = a \/ Position(global, x) < Position(global, y)
    BY <1>1, <1>2, <2>1
  <2>3. x \in InStack(new) /\ y \in InStack(new)
    BY <1>1, <1>2
  <2> QED
    BY <2>1, <2>2, <2>3 DEF TopOf
<1> QED
  BY <1>1, <1>2, <1>3 DEF InOrderOf

\* t is the well-formed object s after a moved, or was put, on top.
Onto(t, s, a) ==
  /\ WellFormed(t)
  /\ TopOf(t, s, a)
  /\ t.complement = s.complement
  /\ t.ds_nums = s.ds_nums

\* One access more in bucket b of the counts.
Incremented(new, old, b) == b \in Buckets /\ new = [old EXCEPT ![b] = old[b] + 1]

\* Onto depends on stack, complement and data structures only.
LEMMA OntoByStack ==
  ASSUME NEW s, NEW a, NEW t, Onto(t, s, a), NEW u, WellFormed(u),
         u.stack = t.stack, u.complement = t.complement, u.ds_nums = t.ds_nums
  PROVE  Onto(u, s, a)
<1>1. InStack(u) = InStack(t) /\ \A x : Position(u, x) = Position(t, x)
  BY DEF InStack, Position
<1> QED
  BY <1>1 DEF Onto, TopOf

\* The last bucket is one.
LEMMA InfIsBucket == InfBucket \in Buckets
BY MinsFacts DEF Buckets

\* on_block_new() puts a block on top and counts nothing.
LEMMA OnBlockNewOnto ==
  ASSUME NEW s, WellFormed(s), NEW a \in Blocks, a \notin InStack(s)
  PROVE  /\ Onto(OnBlockNew(s, a), s, a)
         /\ SameCounts(OnBlockNew(s, a), s)
<1>1. /\ WellFormed(OnBlockNew(s, a))
      /\ Pushed(OnBlockNew(s, a), s, a)
      /\ SameCounts(OnBlockNew(s, a), s)
  BY OnBlockNewCorrect
<1>2. TopOf(OnBlockNew(s, a), s, a)
  BY <1>1, PushedIsTop
<1> QED
  BY <1>1, <1>2 DEF Onto, SameCounts

\* on_block_seen() moves a block to the top, counts nothing, and finds its bucket.
LEMMA OnBlockSeenOnto ==
  ASSUME NEW s, WellFormed(s), NEW a \in InStack(s)
  PROVE  /\ Onto(OnBlockSeen(s, a), s, a)
         /\ SameCounts(OnBlockSeen(s, a), s)
         /\ InBucket(SeenBucket(s, a), Position(s, a) - 1)
         /\ SeenBucket(s, a) \in 0 .. InfBucket - 1 /\ SeenBucket(s, a) \in Buckets
<1>1. /\ WellFormed(OnBlockSeen(s, a))
      /\ Raised(OnBlockSeen(s, a), s, a)
      /\ SameCounts(OnBlockSeen(s, a), s)
      /\ InBucket(SeenBucket(s, a), Position(s, a) - 1)
  BY OnBlockSeenCorrect
<1>2. TopOf(OnBlockSeen(s, a), s, a)
  BY <1>1, RaisedIsTop
<1>3. SeenBucket(s, a) \in 0 .. InfBucket - 1 /\ SeenBucket(s, a) \in Buckets
  BY <1>1, MinsFacts DEF InBucket, Buckets
<1> QED
  BY <1>1, <1>2, <1>3 DEF Onto, SameCounts

\* What an access does to a simulation: the block is on top, and the access is
\* counted in bucket b, exclusively in bucket e.
IsCounted(t, s, a, b, e) ==
  /\ Onto(t, s, a)
  /\ Incremented(t.aCount, s.aCount, b)
  /\ Incremented(t.aCount_excl, s.aCount_excl, e)

\* incr_access() and incr_access_excl() after either of them.
LEMMA CountedTwice ==
  ASSUME NEW s, NEW a, NEW t, Onto(t, s, a), SameCounts(t, s),
         NEW b \in Buckets, NEW e \in Buckets
  PROVE  IsCounted(IncrAccessExcl(IncrAccess(t, b), e), s, a, b, e)
<1>1. PICK u : u = IncrAccess(t, b)
  OBVIOUS
<1>2. PICK v : v = IncrAccessExcl(u, e)
  OBVIOUS
<1>3. /\ WellFormed(u) /\ u.stack = t.stack
      /\ u.complement = t.complement /\ u.ds_nums = t.ds_nums
      /\ u.aCount = [t.aCount EXCEPT ![b] = t.aCount[b] + 1]
      /\ u.aCount_excl = t.aCount_excl
  BY <1>1, IncrAccessEffect DEF Onto
<1>4. /\ WellFormed(v) /\ v.stack = u.stack
      /\ v.complement = u.complement /\ v.ds_nums = u.ds_nums
      /\ v.aCount_excl = [u.aCount_excl EXCEPT ![e] = u.aCount_excl[e] + 1]
      /\ v.aCount = u.aCount
  BY <1>2, <1>3, IncrAccessExclEffect
<1>5. Onto(v, s, a)
  BY <1>3, <1>4, OntoByStack
<1>6. Incremented(v.aCount, s.aCount, b) /\ Incremented(v.aCount_excl, s.aCount_excl, e)
  BY <1>3, <1>4 DEF SameCounts, Incremented
<1> QED
  BY <1>1, <1>2, <1>5, <1>6 DEF IsCounted

\* A first access in a simulation: both counts are in the last bucket.
LEMMA JoinStackEffect ==
  ASSUME NEW s, WellFormed(s), NEW a \in Blocks, a \notin InStack(s)
  PROVE  IsCounted(JoinStack(s, a), s, a, InfBucket, InfBucket)
<1>1. Onto(OnBlockNew(s, a), s, a) /\ SameCounts(OnBlockNew(s, a), s)
  BY OnBlockNewOnto
<1> QED
  BY <1>1, InfIsBucket, CountedTwice DEF JoinStack

\* A reuse: globally in bucket b, exclusively in that of its depth.
LEMMA ReuseOnStackEffect ==
  ASSUME NEW s, WellFormed(s), NEW a \in InStack(s), NEW b \in Buckets
  PROVE  IsCounted(ReuseOnStack(s, a, b), s, a, b, SeenBucket(s, a))
<1>1. /\ Onto(OnBlockSeen(s, a), s, a) /\ SameCounts(OnBlockSeen(s, a), s)
      /\ SeenBucket(s, a) \in Buckets
  BY OnBlockSeenOnto
<1> QED
  BY <1>1, CountedTwice DEF ReuseOnStack

\* The global simulation counts in aCount only.
IsCountedOnce(t, s, a, b) ==
  /\ Onto(t, s, a)
  /\ Incremented(t.aCount, s.aCount, b)
  /\ t.aCount_excl = s.aCount_excl

\* incr_access() alone, as the global simulation does.
LEMMA CountedOnce ==
  ASSUME NEW s, NEW a, NEW t, Onto(t, s, a), SameCounts(t, s), NEW b \in Buckets
  PROVE  IsCountedOnce(IncrAccess(t, b), s, a, b)
<1>1. PICK u : u = IncrAccess(t, b)
  OBVIOUS
<1>2. /\ WellFormed(u) /\ u.stack = t.stack
      /\ u.complement = t.complement /\ u.ds_nums = t.ds_nums
      /\ u.aCount = [t.aCount EXCEPT ![b] = t.aCount[b] + 1]
      /\ u.aCount_excl = t.aCount_excl
  BY <1>1, IncrAccessEffect DEF Onto
<1>3. Onto(u, s, a)
  BY <1>2, OntoByStack
<1> QED
  BY <1>1, <1>2, <1>3 DEF IsCountedOnce, SameCounts, Incremented

\* A block is at most as deep in a part of the stack as in the whole.
LEMMA ExclusiveBucket ==
  ASSUME NEW s, WellFormed(s), NEW g, WellFormed(g), InOrderOf(s, g), NEW a \in InStack(s)
  PROVE  SeenBucket(s, a) <= SeenBucket(g, a)
<1>1. a \in InStack(g)
  BY DEF InOrderOf
<1>2. /\ s \in CacheSimType /\ NoDuplicates(s) /\ g \in CacheSimType /\ NoDuplicates(g)
  BY DEF WellFormed
<1>3. /\ InBucket(SeenBucket(s, a), Position(s, a) - 1)
      /\ InBucket(SeenBucket(g, a), Position(g, a) - 1)
  BY <1>1, OnBlockSeenOnto
<1>4. /\ Position(s, a) \in 1 .. Len(s.stack) /\ Position(g, a) \in 1 .. Len(g.stack)
      /\ Len(s.stack) \in Nat /\ Len(g.stack) \in Nat
  BY <1>1, <1>2, PositionFacts, StackFacts
<1>5. Above(s, a) \subseteq Above(g, a)
  <2>1. SUFFICES ASSUME NEW i \in 1 .. Position(s, a) - 1
                 PROVE  s.stack[i] \in Above(g, a)
    BY DEF Above
  <2>2. i \in DOMAIN s.stack /\ s.stack[i] \in InStack(s)
    BY <1>2, <1>4, StackFacts DEF InStack
  <2>3. Position(s, s.stack[i]) = i
    BY <1>2, <2>2, PositionUnique
  <2>4. Position(s, s.stack[i]) < Position(s, a)
    BY <1>4, <2>3
  <2>5. PICK x : x = s.stack[i] /\ x \in InStack(s) /\ x \in InStack(g)
    BY <2>2 DEF InOrderOf
  <2>6. Position(g, x) < Position(g, a)
    BY <2>4, <2>5 DEF InOrderOf
  <2>7. Position(g, x) \in 1 .. Len(g.stack) /\ g.stack[Position(g, x)] = x
    BY <1>2, <2>5, PositionFacts
  <2>8. Position(g, x) \in 1 .. Position(g, a) - 1
    BY <1>4, <2>6, <2>7
  <2> QED
    BY <2>5, <2>7, <2>8 DEF Above
<1>6. IsFiniteSet(Above(g, a))
  <2>1. IsFiniteSet(1 .. Position(g, a) - 1)
    BY <1>4, FS_Interval
  <2>2. PICK f : f = [i \in 1 .. Position(g, a) - 1 |-> g.stack[i]]
    OBVIOUS
  <2>3. f \in Surjection(1 .. Position(g, a) - 1, Above(g, a))
    BY <2>2 DEF Surjection, Above
  <2> QED
    BY <2>1, <2>3, FS_Surjection
<1>7. Position(s, a) - 1 <= Position(g, a) - 1
  <2>1. /\ Cardinality(Above(s, a)) = Position(s, a) - 1
        /\ Cardinality(Above(g, a)) = Position(g, a) - 1
    BY <1>1, DepthIsDistance
  <2>2. Cardinality(Above(s, a)) <= Cardinality(Above(g, a))
    BY <1>5, <1>6, FS_Subset
  <2> QED
    BY <2>1, <2>2
<1>8. PICK p \in Nat : p = Position(s, a) - 1
  BY <1>4
<1>9. PICK q \in Nat : q = Position(g, a) - 1 /\ p <= q
  BY <1>4, <1>7, <1>8
<1>10. PICK b \in 0 .. InfBucket - 1 : b = SeenBucket(s, a) /\ InBucket(b, p)
  BY <1>3, <1>8 DEF InBucket
<1>11. PICK c \in 0 .. InfBucket - 1 : c = SeenBucket(g, a) /\ InBucket(c, q)
  BY <1>3, <1>9 DEF InBucket
<1>12. b <= c
  <2>1. SUFFICES ASSUME b > c PROVE FALSE
    BY <1>10, <1>11
  <2>2. /\ c + 1 \in 0 .. InfBucket - 1 /\ c + 1 <= b /\ q < mins(c + 1) /\ mins(b) <= p
        /\ mins(b) \in Nat /\ mins(c + 1) \in Nat
    BY <1>10, <1>11, <2>1, MinsFacts DEF InBucket, Buckets
  <2>3. mins(c + 1) <= mins(b)
    <3>1. CASE c + 1 = b
      BY <2>2, <3>1
    <3>2. CASE c + 1 < b
      BY <2>2, <3>2, MinsFacts
    <3> QED
      BY <2>2, <3>1, <3>2
  <2> QED
    BY <1>9, <2>2, <2>3
<1> QED
  BY <1>10, <1>11, <1>12

-----------------------------------------------------------------------------
\* Simulated: the registry with the iterators and stacks of all blocks.

\* SimsOf() in the registry reg.
SimsIn(reg, d) ==
  Among(reg.indices_of[d],
        {k \in DOMAIN reg.cachesims : ~(k = RD_NO_DATASTRUCT /\ d = RD_NO_DATASTRUCT)})

\* An access to d is simulated by each simulation of d but the global one, once.
LEMMA SimsInFacts ==
  ASSUME NEW reg, NEW n \in Nat, NEW m \in Nat, Registry(reg, n, m), NEW d \in 0 .. n - 1
  PROVE  /\ SimsIn(reg, d) \in Seq(0 .. m - 1)
         /\ IsInjective(SimsIn(reg, d))
         /\ \A k \in 0 .. m - 1 :
              k \in ToSet(SimsIn(reg, d)) <=> k # 0 /\ d \in Members(reg.cachesims[k])
         /\ 0 \notin ToSet(SimsIn(reg, d))
<1>1. /\ Sized(reg, n, m) /\ Linked(reg, n, m) /\ Owned(reg, n) /\ n >= 1 /\ m >= 1
  BY DEF Registry, Linked
<1>2. PICK T : T = 0 .. m - 1
  OBVIOUS
<1>3. PICK s \in Seq(T) : s = reg.indices_of[d]
  BY <1>1, <1>2 DEF Linked
<1>4. IsInjective(s)
  BY <1>1, <1>3 DEF Linked
<1>5. PICK S : S = {k \in T : ~(k = 0 /\ d = 0)} /\ SimsIn(reg, d) = Among(s, S)
  BY <1>1, <1>2, <1>3 DEF SimsIn, Sized, RD_NO_DATASTRUCT
<1>6. Among(s, S) \in Seq(T) /\ ToSet(Among(s, S)) = ToSet(s) \cap S
  BY AmongFacts
<1>7. IsInjective(Among(s, S))
  BY <1>4, AmongFacts
<1>8. \A k \in T : k \in ToSet(s) <=> d \in Members(reg.cachesims[k])
  BY <1>1, <1>2, <1>3 DEF Linked
<1>9. 0 \in T /\ Members(reg.cachesims[0]) = {0}
  <2>1. 0 \in T /\ 0 \in 0 .. n - 1
    BY <1>1, <1>2
  <2>2. Members(OwnSim(reg, 0)) = {0} /\ reg.indices_of[0][1] = 0
    BY <1>1, <2>1 DEF Owned
  <2> QED
    BY <2>1, <2>2 DEF OwnSim
<1>10. \A k \in T : k \in ToSet(Among(s, S)) <=> k # 0 /\ d \in Members(reg.cachesims[k])
  <2>1. ASSUME NEW k \in T PROVE k \in S <=> ~(k = 0 /\ d = 0)
    BY <1>5
  <2>2. ASSUME NEW k \in T
        PROVE  k \in ToSet(Among(s, S)) <=> k # 0 /\ d \in Members(reg.cachesims[k])
    <3>1. CASE k = 0
      BY <1>6, <1>8, <1>9, <2>1, <3>1
    <3>2. CASE k # 0
      BY <1>6, <1>8, <2>1, <3>2
    <3> QED
      BY <3>1, <3>2
  <2> QED
    BY <2>2
<1>11. 0 \notin ToSet(Among(s, S))
  BY <1>9, <1>10
<1> QED
  BY <1>2, <1>5, <1>6, <1>7, <1>10, <1>11

(***************************************************************************)
(* The simulation as a whole: num[a] is the data structure of a block,     *)
(* map[a] its iterators.                                                   *)
(***************************************************************************)
AlignedAt(reg, map, num, n, m, a) ==
  /\ num[a] \in 0 .. n - 1
  /\ map[a] \in Seq(0 .. m - 1) /\ Len(map[a]) >= 1
  /\ Begins(map[a], << 0 >> \o SimsIn(reg, num[a]))
  /\ \A k \in 0 .. m - 1 : a \in InStack(reg.cachesims[k]) <=> k \in ToSet(map[a])

Aligned(reg, map, num, n, m) ==
  /\ DOMAIN map \subseteq Blocks /\ DOMAIN num = DOMAIN map
  /\ \A a \in DOMAIN map : AlignedAt(reg, map, num, n, m, a)
  /\ \A k \in 0 .. m - 1 : InStack(reg.cachesims[k]) \subseteq DOMAIN map

Isolated(reg, m) ==
  \A k \in 0 .. m - 1 :
    /\ WellFormed(reg.cachesims[k])
    /\ InOrderOf(reg.cachesims[k], reg.cachesims[0])

Simulated(reg, map, num, n, m) ==
  /\ Registry(reg, n, m)
  /\ Aligned(reg, map, num, n, m)
  /\ Isolated(reg, m)

\* << 0 >> \o ks, the iterators of a block with all of its simulations.
LEMMA ZeroFirst ==
  ASSUME NEW T, 0 \in T, NEW ks \in Seq(T)
  PROVE  /\ << 0 >> \o ks \in Seq(T)
         /\ Len(<< 0 >> \o ks) = 1 + Len(ks)
         /\ (<< 0 >> \o ks)[1] = 0
         /\ \A i \in 1 .. Len(ks) : (<< 0 >> \o ks)[1 + i] = ks[i]
         /\ ToSet(<< 0 >> \o ks) = {0} \cup ToSet(ks)
<1>0. /\ << 0 >> \in Seq(T) /\ Len(<< 0 >>) = 1 /\ << 0 >>[1] = 0
  OBVIOUS
<1>1. PICK z \in Seq(T) : z = << 0 >> /\ Len(z) = 1 /\ z[1] = 0
  BY <1>0
<1>2. ToSet(z) = {z[i] : i \in 1 .. Len(z)}
  BY SequenceFacts
<1>3. ToSet(z) = {0}
  BY <1>1, <1>2
<1>4. /\ z \o ks \in Seq(T)
      /\ Len(z \o ks) = Len(z) + Len(ks)
  BY ConcatFacts
<1>5. /\ \A i \in 1 .. Len(z) : (z \o ks)[i] = z[i]
      /\ \A i \in 1 .. Len(ks) : (z \o ks)[Len(z) + i] = ks[i]
  BY ConcatFacts
<1>6. ToSet(z \o ks) = ToSet(z) \cup ToSet(ks)
  BY ConcatFacts
<1> QED
  BY <1>1, <1>3, <1>4, <1>5, <1>6

\* its are the first iterators of a block of the simulations ks.
Iterators(its, ks) ==
  /\ Len(its) \in Nat /\ Len(ks) \in Nat
  /\ Len(its) <= Len(ks) + 1
  /\ its[1] = 0
  /\ \A j \in 1 .. Len(its) - 1 : its[j + 1] = ks[j]
  /\ ToSet(its) \subseteq {0} \cup ToSet(ks)
  /\ 0 \in ToSet(its)

\* The iterators of a known block stand for the simulations it is in.
LEMMA IteratorsFacts ==
  ASSUME NEW reg, NEW n \in Nat, NEW m \in Nat, NEW map, NEW num, Registry(reg, n, m),
         NEW a, AlignedAt(reg, map, num, n, m, a)
  PROVE  Iterators(map[a], SimsIn(reg, num[a]))
<1>1. PICK T : T = 0 .. m - 1 /\ 0 \in T
  BY DEF Registry
<1>2. PICK ks \in Seq(T) : ks = SimsIn(reg, num[a])
  BY <1>1, SimsInFacts DEF AlignedAt
<1>3. PICK its \in Seq(T) : its = map[a]
  BY <1>1 DEF AlignedAt
<1>4. Len(its) >= 1 /\ Begins(its, << 0 >> \o ks)
  BY <1>2, <1>3 DEF AlignedAt
<1>5. /\ Len(its) \in Nat /\ Len(ks) \in Nat
      /\ DOMAIN its = 1 .. Len(its) /\ ToSet(its) = {its[i] : i \in 1 .. Len(its)}
      /\ ToSet(ks) = {ks[i] : i \in 1 .. Len(ks)}
  BY SequenceFacts
<1>7. /\ Len(<< 0 >> \o ks) = 1 + Len(ks)
      /\ (<< 0 >> \o ks)[1] = 0
      /\ \A i \in 1 .. Len(ks) : (<< 0 >> \o ks)[1 + i] = ks[i]
  BY <1>1, ZeroFirst
<1>8. Len(its) <= Len(ks) + 1 /\ its[1] = 0
  BY <1>4, <1>5, <1>7 DEF Begins
<1>9. \A j \in 1 .. Len(its) - 1 : its[j + 1] = ks[j]
  BY <1>4, <1>5, <1>7 DEF Begins
<1>10. ToSet(its) \subseteq {0} \cup ToSet(ks)
  <2>1. ASSUME NEW i \in 1 .. Len(its) PROVE its[i] \in {0} \cup ToSet(ks)
    <3>1. CASE i = 1
      BY <1>8, <3>1
    <3>2. CASE i # 1
      <4>1. i - 1 \in 1 .. Len(its) - 1 /\ i - 1 \in 1 .. Len(ks) /\ (i - 1) + 1 = i
        BY <1>5, <1>8, <3>2
      <4>2. its[i] = ks[i - 1]
        BY <1>9, <4>1
      <4> QED
        BY <1>5, <4>1, <4>2
    <3> QED
      BY <3>1, <3>2
  <2> QED
    BY <1>5, <2>1
<1>11. 0 \in ToSet(its)
  <2>1. 1 \in 1 .. Len(its)
    BY <1>4, <1>5
  <2> QED
    BY <1>5, <1>8, <2>1
<1> QED
  BY <1>2, <1>3, <1>5, <1>8, <1>9, <1>10, <1>11 DEF Iterators

\* a was accessed, and simulated by the global simulation and those of ks.
IsAccessed(new, old, a, ks, m) ==
  /\ DOMAIN new = 0 .. m - 1
  /\ \A k \in 0 .. m - 1 :
       IF k = 0 \/ k \in ToSet(ks) THEN Onto(new[k], old[k], a) ELSE new[k] = old[k]

\* g is f with x at a.
IsWith(g, f, a, x) ==
  /\ DOMAIN g = DOMAIN f \cup {a}
  /\ g[a] = x
  /\ \A b \in DOMAIN f : b # a => g[b] = f[b]

\* reg2 is reg with other simulations, of the same data structures.
SameRegistry(new, old, m) ==
  /\ DOMAIN new = DOMAIN old
  /\ new.datastructs = old.datastructs /\ new.indices_of = old.indices_of
  /\ DOMAIN new.cachesims = DOMAIN old.cachesims
  /\ \A k \in 0 .. m - 1 :
       /\ new.cachesims[k] \in CacheSimType
       /\ new.cachesims[k].complement = old.cachesims[k].complement
       /\ new.cachesims[k].ds_nums = old.cachesims[k].ds_nums

\* What keeps data structures and complements keeps a registry.
LEMMA SameRegistryKeeps ==
  ASSUME NEW reg, NEW n \in Nat, NEW m \in Nat, Registry(reg, n, m), NEW new,
         SameRegistry(new, reg, m)
  PROVE  Registry(new, n, m)
<1>1. /\ n >= 1 /\ m >= 1 /\ Linked(reg, n, m) /\ Owned(reg, n) /\ Paired(reg, n, m)
  BY DEF Registry
<1>2. /\ new.indices_of = reg.indices_of
      /\ \A k \in 0 .. m - 1 :
           /\ new.cachesims[k] \in CacheSimType
           /\ new.cachesims[k].complement = reg.cachesims[k].complement
           /\ Members(new.cachesims[k]) = Members(reg.cachesims[k])
           /\ IsComplement(new.cachesims[k]) <=> IsComplement(reg.cachesims[k])
  BY DEF SameRegistry, Members, IsComplement
<1>3. Linked(new, n, m)
  <2>1. Sized(new, n, m)
    BY <1>1 DEF Linked, Sized, SameRegistry
  <2>2. \A k \in 0 .. m - 1 : Members(new.cachesims[k]) \subseteq 0 .. n - 1
    BY <1>1, <1>2 DEF Linked
  <2>3. \A d \in 0 .. n - 1 :
          new.indices_of[d] \in Seq(0 .. m - 1) /\ IsInjective(new.indices_of[d])
    BY <1>1, <1>2 DEF Linked
  <2>4. \A d \in 0 .. n - 1, k \in 0 .. m - 1 :
          k \in ToSet(new.indices_of[d]) <=> d \in Members(new.cachesims[k])
    BY <1>1, <1>2 DEF Linked
  <2> QED
    BY <1>2, <2>1, <2>2, <2>3, <2>4 DEF Linked
<1>4. Owned(new, n)
  <2>1. ASSUME NEW d \in 0 .. n - 1
        PROVE  /\ Len(new.indices_of[d]) >= 1
               /\ OwnSim(new, d).complement = 0
               /\ Members(OwnSim(new, d)) = {d}
    <3>1. /\ Len(reg.indices_of[d]) >= 1
          /\ OwnSim(reg, d).complement = 0 /\ Members(OwnSim(reg, d)) = {d}
      BY <1>1 DEF Owned
    <3>2. reg.indices_of[d] \in Seq(0 .. m - 1)
      BY <1>1 DEF Linked
    <3>3. PICK T : T = 0 .. m - 1
      OBVIOUS
    <3>4. reg.indices_of[d][1] \in T
      BY <3>1, <3>2, <3>3, SequenceFacts
    <3> QED
      BY <1>2, <3>1, <3>3, <3>4 DEF OwnSim
  <2> QED
    BY <1>1, <1>2, <2>1 DEF Owned
<1>5. Paired(new, n, m)
  BY <1>1, <1>2 DEF Paired
<1> QED
  BY <1>1, <1>3, <1>4, <1>5 DEF Registry

\* Such a registry has the same simulations for d.
LEMMA SimsInSame ==
  ASSUME NEW reg, NEW new, NEW m, SameRegistry(new, reg, m), NEW d
  PROVE  SimsIn(new, d) = SimsIn(reg, d)
BY DEF SameRegistry, SimsIn

\* An access of a block of the data structure d.
LEMMA AccessKeeps ==
  ASSUME NEW reg, NEW n \in Nat, NEW m \in Nat, NEW map, NEW num,
         Simulated(reg, map, num, n, m), NEW a \in Blocks, NEW d \in 0 .. n - 1,
         a \in DOMAIN map => num[a] = d,
         NEW new, DOMAIN new = DOMAIN reg,
         new.datastructs = reg.datastructs, new.indices_of = reg.indices_of,
         IsAccessed(new.cachesims, reg.cachesims, a, SimsIn(reg, d), m),
         NEW map2, IsWith(map2, map, a, << 0 >> \o SimsIn(reg, d)),
         NEW num2, IsWith(num2, num, a, d)
  PROVE  Simulated(new, map2, num2, n, m)
<1> DEFINE ks == SimsIn(reg, d)
<1>3. PICK T : T = 0 .. m - 1
  OBVIOUS
<1>4. /\ ks \in Seq(T) /\ 0 \notin ToSet(ks)
  BY <1>3, SimsInFacts DEF Simulated
<1>5. /\ Registry(reg, n, m) /\ Aligned(reg, map, num, n, m) /\ Isolated(reg, m) /\ m >= 1
      /\ DOMAIN reg.cachesims = T
  BY <1>3 DEF Simulated, Registry, Linked, Sized
<1>6. PICK J : J = {0} \cup ToSet(ks)
  OBVIOUS
<1>7. \A k \in T : IF k \in J THEN Onto(new.cachesims[k], reg.cachesims[k], a)
                   ELSE new.cachesims[k] = reg.cachesims[k]
  BY <1>3, <1>6 DEF IsAccessed
<1>14. /\ DOMAIN map2 = DOMAIN map \cup {a} /\ DOMAIN num2 = DOMAIN num \cup {a}
       /\ map2[a] = << 0 >> \o ks /\ num2[a] = d
       /\ \A b \in DOMAIN map : b # a => map2[b] = map[b] /\ num2[b] = num[b]
  BY <1>5 DEF IsWith, Aligned
<1> HIDE DEF ks
<1>8. \A k \in T : /\ WellFormed(new.cachesims[k])
                   /\ new.cachesims[k].complement = reg.cachesims[k].complement
                   /\ new.cachesims[k].ds_nums = reg.cachesims[k].ds_nums
  BY <1>3, <1>5, <1>7 DEF Onto, Isolated
<1>9. SameRegistry(new, reg, m)
  BY <1>3, <1>5, <1>8 DEF SameRegistry, IsAccessed, WellFormed
<1>10. Registry(new, n, m)
  BY <1>5, <1>9, SameRegistryKeeps
<1>11. \A k \in T : InStack(new.cachesims[k])
                      = IF k \in J THEN InStack(reg.cachesims[k]) \cup {a}
                        ELSE InStack(reg.cachesims[k])
  BY <1>7 DEF Onto, TopOf
<1>12. ASSUME NEW k \in T, k \notin J
       PROVE  a \notin InStack(reg.cachesims[k])
  <2>1. CASE a \notin DOMAIN map
    BY <1>3, <1>5, <2>1 DEF Aligned
  <2>2. CASE a \in DOMAIN map
    <3>1. AlignedAt(reg, map, num, n, m, a) /\ num[a] = d
      BY <1>5, <2>2 DEF Aligned
    <3>2. ToSet(map[a]) \subseteq J
      BY <1>5, <1>6, <3>1, IteratorsFacts DEF ks, Iterators
    <3> QED
      BY <1>3, <1>12, <3>1, <3>2 DEF AlignedAt
  <2> QED
    BY <2>1, <2>2
<1>13. Isolated(new, m)
  <2>1. 0 \in T /\ 0 \in J /\ TopOf(new.cachesims[0], reg.cachesims[0], a)
    BY <1>3, <1>5, <1>6, <1>7 DEF Onto
  <2>2. ASSUME NEW k \in T PROVE InOrderOf(new.cachesims[k], new.cachesims[0])
    <3>1. InOrderOf(reg.cachesims[k], reg.cachesims[0])
      BY <1>3, <1>5 DEF Isolated
    <3>2. CASE k \in J
      <4>1. TopOf(new.cachesims[k], reg.cachesims[k], a)
        BY <1>7, <3>2 DEF Onto
      <4> QED
        BY <2>1, <3>1, <4>1, OrderWith
    <3>3. CASE k \notin J
      <4>1. new.cachesims[k] = reg.cachesims[k] /\ a \notin InStack(reg.cachesims[k])
        BY <1>7, <1>12, <3>3
      <4> QED
        BY <2>1, <3>1, <4>1, OrderWithout
    <3> QED
      BY <3>2, <3>3
  <2> QED
    BY <1>3, <1>8, <2>2 DEF Isolated
<1>15. ASSUME NEW b \in DOMAIN map2
       PROVE  AlignedAt(new, map2, num2, n, m, b)
  <2>1. CASE b = a
    <3>1. 0 \in T /\ Len(ks) \in Nat
      BY <1>3, <1>4, <1>5, SequenceFacts
    <3>2. PICK its \in Seq(T) : its = << 0 >> \o ks
      BY <1>4, <3>1, ZeroFirst
    <3>3. Len(its) >= 1 /\ Len(its) \in Nat /\ ToSet(its) = J
      <4>1. Len(its) = 1 + Len(ks)
        BY <1>4, <3>1, <3>2, ZeroFirst
      <4>2. ToSet(its) = {0} \cup ToSet(ks)
        BY <1>4, <3>1, <3>2, ZeroFirst
      <4> QED
        BY <1>6, <3>1, <4>1, <4>2
    <3>4. Begins(its, its)
      BY <3>3 DEF Begins
    <3>5. SimsIn(new, d) = ks
      BY <1>9, SimsInSame DEF ks
    <3>6. \A k \in T : a \in InStack(new.cachesims[k]) <=> k \in J
      BY <1>11, <1>12
    <3> QED
      BY <1>3, <1>14, <2>1, <3>2, <3>3, <3>4, <3>5, <3>6 DEF AlignedAt
  <2>2. CASE b # a
    <3>1. /\ AlignedAt(reg, map, num, n, m, b)
          /\ map2[b] = map[b] /\ num2[b] = num[b]
      BY <1>5, <1>14, <2>2 DEF Aligned
    <3>2. SimsIn(new, num[b]) = SimsIn(reg, num[b])
      BY <1>9, SimsInSame
    <3>3. \A k \in 0 .. m - 1 :
            b \in InStack(new.cachesims[k]) <=> b \in InStack(reg.cachesims[k])
      BY <1>3, <1>11, <2>2
    <3> QED
      BY <3>1, <3>2, <3>3 DEF AlignedAt
  <2> QED
    BY <2>1, <2>2
<1>16. Aligned(new, map2, num2, n, m)
  <2>1. DOMAIN map2 \subseteq Blocks /\ DOMAIN num2 = DOMAIN map2
    BY <1>5, <1>14 DEF Aligned
  <2>2. \A k \in 0 .. m - 1 : InStack(new.cachesims[k]) \subseteq DOMAIN map2
    BY <1>3, <1>5, <1>11, <1>14 DEF Aligned
  <2> QED
    BY <1>15, <2>1, <2>2 DEF Aligned
<1> QED
  BY <1>10, <1>13, <1>16 DEF Simulated

\* A simulation with the stack of another one is as well formed.
LEMMA SameStackWellFormed ==
  ASSUME NEW s, WellFormed(s), NEW t, SameStack(t, s), t \in CacheSimType
  PROVE  WellFormed(t)
BY DEF SameStack, WellFormed, NoDuplicates, ActiveBuckets, MarkersAtMins, BucketsMatchDepth

\* InOrderOf depends on the stacks only.
LEMMA SameStackOrder ==
  ASSUME NEW s, NEW g, InOrderOf(s, g), NEW t, SameStack(t, s), NEW h, SameStack(h, g)
  PROVE  InOrderOf(t, h)
<1>1. InStack(t) = InStack(s) /\ InStack(h) = InStack(g)
  BY DEF SameStack, InStack
<1>2. \A x : Position(t, x) = Position(s, x) /\ Position(h, x) = Position(g, x)
  BY DEF SameStack, Position
<1> QED
  BY <1>1, <1>2 DEF InOrderOf

\* A list of old simulations is one of all simulations.
LEMMA SeqGrows ==
  ASSUME NEW m, NEW T, 0 .. m - 1 \subseteq T, NEW s, s \in Seq(0 .. m - 1)
  PROVE  s \in Seq(T)
<1>1. PICK S : S = 0 .. m - 1
  OBVIOUS
<1> QED
  BY <1>1, SeqMonotonic

\* The simulations of a data structure keep their places in its list.
LEMMA SimsInBegins ==
  ASSUME NEW reg, NEW n \in Nat, NEW m \in Nat, Registry(reg, n, m),
         NEW new, NEW m2 \in Nat, Registry(new, n + 1, m2), Continues(new, reg, n, m, m2),
         NEW d \in 0 .. n - 1
  PROVE  Begins(SimsIn(reg, d), SimsIn(new, d))
<1>1. m <= m2 /\ Begins(reg.indices_of[d], new.indices_of[d])
  BY DEF Continues
<1>2. PICK T : T = 0 .. m2 - 1 /\ 0 .. m - 1 \subseteq T
  BY <1>1
<1>3. d \in 0 .. (n + 1) - 1
  OBVIOUS
<1>4. PICK s \in Seq(T) : s = reg.indices_of[d] /\ s \in Seq(0 .. m - 1)
  <2>1. reg.indices_of[d] \in Seq(0 .. m - 1)
    BY DEF Registry, Linked
  <2>2. reg.indices_of[d] \in Seq(T)
    BY <1>2, <2>1, SeqGrows, Zenon
  <2> QED
    BY <2>1, <2>2
<1>5. PICK t \in Seq(T) : t = new.indices_of[d]
  BY <1>2, <1>3 DEF Registry, Linked
<1>6. PICK S : S = {k \in 0 .. m - 1 : ~(k = 0 /\ d = 0)} /\ SimsIn(reg, d) = Among(s, S)
  BY <1>4 DEF SimsIn, Registry, Linked, Sized, RD_NO_DATASTRUCT
<1>7. PICK R : R = {k \in 0 .. m2 - 1 : ~(k = 0 /\ d = 0)} /\ SimsIn(new, d) = Among(t, R)
  BY <1>5 DEF SimsIn, Registry, Linked, Sized, RD_NO_DATASTRUCT
<1>8. \A i \in 1 .. Len(s) : s[i] \in S <=> s[i] \in R
  <2>1. \A i \in 1 .. Len(s) : s[i] \in 0 .. m - 1 /\ s[i] \in 0 .. m2 - 1
    BY <1>2, <1>4, SequenceFacts
  <2> QED
    BY <1>6, <1>7, <2>1
<1>9. Begins(s, t)
  BY <1>1, <1>4, <1>5
<1>10. Begins(Among(s, S), Among(t, R))
  BY <1>8, <1>9, AmongBegins
<1> QED
  BY <1>6, <1>7, <1>10

\* Begins with 0 before both.
LEMMA ZeroFirstBegins ==
  ASSUME NEW T, 0 \in T, NEW s \in Seq(T), NEW t \in Seq(T), Begins(s, t)
  PROVE  Begins(<< 0 >> \o s, << 0 >> \o t)
<1>1. Len(s) \in Nat /\ Len(t) \in Nat
  BY SequenceFacts
<1>2. PICK u : u = << 0 >> \o s /\ Len(u) = 1 + Len(s) /\ u[1] = 0
        /\ \A i \in 1 .. Len(s) : u[1 + i] = s[i]
  BY ZeroFirst
<1>3. PICK v : v = << 0 >> \o t /\ Len(v) = 1 + Len(t) /\ v[1] = 0
        /\ \A i \in 1 .. Len(t) : v[1 + i] = t[i]
  BY ZeroFirst
<1>4. ASSUME NEW i \in 1 .. Len(u) PROVE v[i] = u[i]
  <2>1. CASE i = 1
    BY <1>2, <1>3, <2>1
  <2>2. CASE i # 1
    <3>1. /\ i - 1 \in 1 .. Len(s) /\ i - 1 \in 1 .. Len(t) /\ 1 + (i - 1) = i
      BY <1>1, <1>2, <2>2 DEF Begins
    <3>2. u[i] = s[i - 1] /\ v[i] = t[i - 1]
      BY <1>2, <1>3, <3>1
    <3> QED
      BY <3>1, <3>2 DEF Begins
  <2> QED
    BY <2>1, <2>2
<1>5. Len(u) <= Len(v)
  BY <1>1, <1>2, <1>3 DEF Begins
<1> QED
  BY <1>2, <1>3, <1>4, <1>5 DEF Begins

\* A registration: no simulation it creates has seen a block.
LEMMA RegistrationKeeps ==
  ASSUME NEW reg, NEW n \in Nat, NEW m \in Nat, NEW map, NEW num,
         Simulated(reg, map, num, n, m),
         NEW new, NEW m2 \in Nat, Registry(new, n + 1, m2), Continues(new, reg, n, m, m2)
  PROVE  Simulated(new, map, num, n + 1, m2)
<1>1. /\ Registry(reg, n, m) /\ Aligned(reg, map, num, n, m) /\ Isolated(reg, m)
      /\ n >= 1 /\ m >= 1 /\ m <= m2
  BY DEF Simulated, Registry, Continues
<1>2. \A k \in 0 .. m2 - 1 : new.cachesims[k] \in CacheSimType
  BY DEF Registry, Linked
<1>3. ASSUME NEW k \in 0 .. m - 1
      PROVE  /\ SameStack(new.cachesims[k], reg.cachesims[k])
             /\ InStack(new.cachesims[k]) = InStack(reg.cachesims[k])
             /\ WellFormed(new.cachesims[k])
  <2>1. SameStack(new.cachesims[k], reg.cachesims[k])
    BY DEF Continues
  <2>2. InStack(new.cachesims[k]) = InStack(reg.cachesims[k])
    BY <2>1 DEF SameStack, InStack
  <2>3. k \in 0 .. m2 - 1 /\ WellFormed(reg.cachesims[k])
    BY <1>1 DEF Isolated
  <2>4. WellFormed(new.cachesims[k])
    BY <1>2, <2>1, <2>3, SameStackWellFormed
  <2> QED
    BY <2>1, <2>2, <2>4
<1>4. ASSUME NEW k \in m .. m2 - 1
      PROVE  InStack(new.cachesims[k]) = {} /\ WellFormed(new.cachesims[k])
  <2>1. PICK c : c = new.cachesims[k].complement
    OBVIOUS
  <2>2. SameStack(new.cachesims[k], NewCacheSim(c))
    BY <2>1 DEF Continues
  <2>3. new.cachesims[k] \in CacheSimType /\ c \in Nat
    <3>1. k \in 0 .. m2 - 1
      OBVIOUS
    <3>2. new.cachesims[k] \in CacheSimType
      BY <1>2, <3>1
    <3> QED
      BY <2>1, <3>2 DEF CacheSimType
  <2>4. WellFormed(NewCacheSim(c)) /\ NewCacheSim(c).stack = << >>
    BY <2>3, NewCacheSimWellFormed
  <2>5. WellFormed(new.cachesims[k])
    BY <2>2, <2>3, <2>4, SameStackWellFormed
  <2>6. new.cachesims[k].stack = << >>
    BY <2>2, <2>4 DEF SameStack
  <2> QED
    BY <2>5, <2>6 DEF InStack
<1>5. \A k \in 0 .. m2 - 1 : k \in 0 .. m - 1 \/ k \in m .. m2 - 1
  BY <1>1
<1>6. Isolated(new, m2)
  <2>1. ASSUME NEW k \in 0 .. m - 1 PROVE InOrderOf(new.cachesims[k], new.cachesims[0])
    <3>1. 0 \in 0 .. m - 1
      BY <1>1
    <3>2. InOrderOf(reg.cachesims[k], reg.cachesims[0])
      BY <1>1 DEF Isolated
    <3> QED
      BY <1>3, <3>1, <3>2, SameStackOrder
  <2>2. ASSUME NEW k \in m .. m2 - 1 PROVE InOrderOf(new.cachesims[k], new.cachesims[0])
    BY <1>4 DEF InOrderOf
  <2> QED
    BY <1>3, <1>4, <1>5, <2>1, <2>2 DEF Isolated
<1>7. ASSUME NEW a \in DOMAIN map
      PROVE  AlignedAt(new, map, num, n + 1, m2, a)
  <2>1. AlignedAt(reg, map, num, n, m, a)
    BY <1>1 DEF Aligned
  <2>2. PICK d \in 0 .. n - 1 : d = num[a] /\ d \in 0 .. (n + 1) - 1
    BY <2>1 DEF AlignedAt
  <2>3. PICK T : T = 0 .. m2 - 1 /\ 0 .. m - 1 \subseteq T /\ 0 \in T
    BY <1>1
  <2>4. PICK s \in Seq(T) : s = SimsIn(reg, d)
    <3>1. SimsIn(reg, d) \in Seq(0 .. m - 1)
      BY <1>1, SimsInFacts
    <3>2. SimsIn(reg, d) \in Seq(T)
      BY <2>3, <3>1, SeqGrows, Zenon
    <3> QED
      BY <3>2
  <2>5. PICK t \in Seq(T) : t = SimsIn(new, d)
    <3>1. n + 1 \in Nat
      OBVIOUS
    <3>2. SimsIn(new, d) \in Seq(0 .. m2 - 1)
      BY <2>2, <3>1, SimsInFacts
    <3> QED
      BY <2>3, <3>2
  <2>6. Begins(s, t)
    BY <1>1, <2>4, <2>5, SimsInBegins
  <2>7. Begins(<< 0 >> \o s, << 0 >> \o t)
    BY <2>3, <2>6, ZeroFirstBegins
  <2>8. PICK its \in Seq(T) : its = map[a] /\ Begins(its, << 0 >> \o s) /\ Len(its) >= 1
                              /\ its \in Seq(0 .. m - 1)
    <3>1. /\ map[a] \in Seq(0 .. m - 1) /\ Len(map[a]) >= 1
          /\ Begins(map[a], << 0 >> \o s)
      BY <2>1, <2>2, <2>4 DEF AlignedAt
    <3>2. map[a] \in Seq(T)
      BY <2>3, <3>1, SeqGrows, Zenon
    <3> QED
      BY <3>1, <3>2
  <2>9. Begins(its, << 0 >> \o t)
    <3>1. << 0 >> \o s \in Seq(T) /\ << 0 >> \o t \in Seq(T)
      BY <2>3, ZeroFirst
    <3>2. Len(<< 0 >> \o t) \in Nat
      BY <3>1, LenProperties
    <3> QED
      BY <2>7, <2>8, <3>1, <3>2, BeginsTransitive
  <2>10. ASSUME NEW k \in 0 .. m2 - 1
         PROVE  a \in InStack(new.cachesims[k]) <=> k \in ToSet(its)
    <3>1. CASE k \in 0 .. m - 1
      BY <1>3, <2>1, <2>8, <3>1 DEF AlignedAt
    <3>2. CASE k \in m .. m2 - 1
      <4>1. ToSet(its) \subseteq 0 .. m - 1
        BY <2>8, SequenceFacts
      <4>2. k \notin ToSet(its)
        BY <3>2, <4>1
      <4> QED
        BY <1>4, <3>2, <4>2
    <3> QED
      BY <1>5, <3>1, <3>2
  <2> QED
    BY <2>2, <2>3, <2>5, <2>8, <2>9, <2>10 DEF AlignedAt
<1>8. Aligned(new, map, num, n + 1, m2)
  <2>1. \A k \in 0 .. m2 - 1 : InStack(new.cachesims[k]) \subseteq DOMAIN map
    <3>1. \A k \in 0 .. m - 1 : InStack(new.cachesims[k]) \subseteq DOMAIN map
      BY <1>1, <1>3 DEF Aligned
    <3> QED
      BY <1>4, <1>5, <3>1
  <2> QED
    BY <1>1, <1>7, <2>1 DEF Aligned
<1> QED
  BY <1>6, <1>8 DEF Simulated

\* Counted by a simulation of its own: never at a larger distance than
\* globally, and first accesses are first accesses of both kinds.
IsCountedAlone(t, s, a) ==
  \E b, e \in Buckets :
    /\ e <= b /\ (e = InfBucket <=> b = InfBucket)
    /\ IsCounted(t, s, a, b, e)

\* The access of a by the simulations of ks, and globally.
IsStep(new, old, a, ks, m) ==
  /\ DOMAIN new = 0 .. m - 1
  /\ \E b \in Buckets : IsCountedOnce(new[0], old[0], a, b)
  /\ \A k \in 1 .. m - 1 :
       IF k \in ToSet(ks) THEN IsCountedAlone(new[k], old[k], a) ELSE new[k] = old[k]

\* A step of the access path puts a block on the stacks of its simulations.
LEMMA StepAccesses ==
  ASSUME NEW new, NEW old, NEW a, NEW ks, NEW m \in Nat, IsStep(new, old, a, ks, m)
  PROVE  IsAccessed(new, old, a, ks, m)
<1>1. \A k \in 0 .. m - 1 : k = 0 \/ k \in 1 .. m - 1
  OBVIOUS
<1>2. Onto(new[0], old[0], a)
  BY DEF IsStep, IsCountedOnce
<1>3. ASSUME NEW k \in 1 .. m - 1
      PROVE  IF k \in ToSet(ks) THEN Onto(new[k], old[k], a) ELSE new[k] = old[k]
  BY DEF IsStep, IsCountedAlone, IsCounted
<1> QED
  BY <1>1, <1>2, <1>3 DEF IsAccessed, IsStep

\* What the access path does for a block no one has accessed.
NewSims(cs, a, ks) ==
  [k \in DOMAIN cs |->
     IF k = 0 THEN IncrAccess(OnBlockNew(cs[0], a), InfBucket)
     ELSE IF k \in ToSet(ks) THEN JoinStack(cs[k], a) ELSE cs[k]]

\* The first access of a block is such a step ...
LEMMA NewStep ==
  ASSUME NEW reg, NEW n \in Nat, NEW m \in Nat, NEW map, NEW num,
         Simulated(reg, map, num, n, m), NEW a \in Blocks, a \notin DOMAIN map,
         NEW ks
  PROVE  IsStep(NewSims(reg.cachesims, a, ks), reg.cachesims, a, ks, m)
<1>1. PICK cs : cs = reg.cachesims
  OBVIOUS
<1>2. PICK new : new = NewSims(cs, a, ks)
  OBVIOUS
<1>3. /\ DOMAIN cs = 0 .. m - 1 /\ m >= 1
      /\ Aligned(reg, map, num, n, m) /\ Isolated(reg, m)
  BY <1>1 DEF Simulated, Registry, Linked, Sized
<1>4. \A k \in 0 .. m - 1 : WellFormed(cs[k]) /\ a \notin InStack(cs[k])
  BY <1>1, <1>3 DEF Isolated, Aligned
<1>5. 0 \in 0 .. m - 1
  BY <1>3
<1>6. /\ DOMAIN new = 0 .. m - 1
      /\ new[0] = IncrAccess(OnBlockNew(cs[0], a), InfBucket)
      /\ \A k \in 1 .. m - 1 :
           new[k] = IF k \in ToSet(ks) THEN JoinStack(cs[k], a) ELSE cs[k]
  BY <1>2, <1>3, <1>5 DEF NewSims
<1>7. IsCountedOnce(new[0], cs[0], a, InfBucket)
  <2>1. Onto(OnBlockNew(cs[0], a), cs[0], a) /\ SameCounts(OnBlockNew(cs[0], a), cs[0])
    BY <1>4, <1>5, OnBlockNewOnto
  <2> QED
    BY <1>6, <2>1, InfIsBucket, CountedOnce
<1>8. ASSUME NEW k \in 1 .. m - 1, k \in ToSet(ks)
      PROVE  IsCountedAlone(new[k], cs[k], a)
  <2>1. IsCounted(JoinStack(cs[k], a), cs[k], a, InfBucket, InfBucket)
    BY <1>4, JoinStackEffect
  <2>2. InfBucket <= InfBucket
    BY MinsFacts
  <2> QED
    BY <1>6, <1>8, <2>1, <2>2, InfIsBucket DEF IsCountedAlone
<1> QED
  BY <1>1, <1>2, <1>6, <1>7, <1>8, InfIsBucket DEF IsStep

\* What it does for a known block.
SeenSims(cs, a, reused, joined) ==
  [k \in DOMAIN cs |->
     IF k = 0 THEN IncrAccess(OnBlockSeen(cs[0], a), SeenBucket(cs[0], a))
     ELSE IF k \in reused THEN ReuseOnStack(cs[k], a, SeenBucket(cs[0], a))
     ELSE IF k \in joined THEN JoinStack(cs[k], a)
     ELSE cs[k]]

\* ... and so is every other one: the iterators are paired with the right simulations.
LEMMA SeenStep ==
  ASSUME NEW reg, NEW n \in Nat, NEW m \in Nat, NEW map, NEW num,
         Simulated(reg, map, num, n, m), NEW a \in DOMAIN map,
         NEW ks, ks = SimsIn(reg, num[a]),
         NEW reused, reused = {ks[j] : j \in 1 .. Len(map[a]) - 1},
         NEW joined, joined = {ks[j] : j \in Len(map[a]) .. Len(ks)}
  PROVE  IsStep(SeenSims(reg.cachesims, a, reused, joined), reg.cachesims, a, ks, m)
<1>1. PICK cs : cs = reg.cachesims
  OBVIOUS
<1>2. PICK new : new = SeenSims(cs, a, reused, joined)
  OBVIOUS
<1>3. PICK T : T = 0 .. m - 1
  OBVIOUS
<1>4. PICK its : its = map[a]
  OBVIOUS
<1>5. /\ DOMAIN cs = T /\ m >= 1 /\ 0 \in T /\ a \in Blocks
      /\ Registry(reg, n, m) /\ Isolated(reg, m)
      /\ AlignedAt(reg, map, num, n, m, a)
  BY <1>1, <1>3 DEF Simulated, Registry, Linked, Sized, Aligned
<1>6. /\ Len(its) \in Nat /\ Len(ks) \in Nat /\ Len(its) <= Len(ks) + 1
      /\ its[1] = 0
      /\ \A j \in 1 .. Len(its) - 1 : its[j + 1] = ks[j]
  <2>1. Iterators(its, ks)
    BY <1>4, <1>5, IteratorsFacts
  <2> QED
    BY <2>1 DEF Iterators
<1>7. its \in Seq(T) /\ Len(its) >= 1 /\ ToSet(its) = {its[i] : i \in 1 .. Len(its)}
  BY <1>3, <1>4, <1>5, SequenceFacts DEF AlignedAt
<1>8. ks \in Seq(T) /\ IsInjective(ks) /\ 0 \notin ToSet(ks)
  BY <1>3, <1>5, SimsInFacts DEF AlignedAt
<1>9. DOMAIN ks = 1 .. Len(ks) /\ ToSet(ks) = {ks[i] : i \in 1 .. Len(ks)}
  BY <1>8, SequenceFacts
<1>10. \A k \in T : a \in InStack(cs[k]) <=> k \in ToSet(its)
  BY <1>1, <1>3, <1>4, <1>5 DEF AlignedAt
<1>11. reused \subseteq ToSet(its)
  <2>1. ASSUME NEW j \in 1 .. Len(its) - 1 PROVE ks[j] \in ToSet(its)
    <3>1. j + 1 \in 1 .. Len(its)
      BY <1>6
    <3> QED
      BY <1>6, <1>7, <3>1
  <2> QED
    BY <1>4, <2>1
<1>12. ToSet(its) \subseteq {0} \cup reused
  <2>1. ASSUME NEW i \in 1 .. Len(its), i # 1 PROVE its[i] \in reused
    <3>1. i - 1 \in 1 .. Len(its) - 1 /\ (i - 1) + 1 = i
      BY <1>6, <2>1
    <3>2. its[i] = ks[i - 1]
      BY <1>6, <3>1
    <3> QED
      BY <1>4, <3>1, <3>2
  <2> QED
    BY <1>6, <1>7, <2>1
<1>13. ToSet(ks) = reused \cup joined /\ reused \cap joined = {}
  <2>1. ASSUME NEW i \in 1 .. Len(ks) PROVE ks[i] \in reused \cup joined
    <3>1. i \in 1 .. Len(its) - 1 \/ i \in Len(its) .. Len(ks)
      BY <1>6
    <3> QED
      BY <1>4, <3>1
  <2>2. ASSUME NEW i \in 1 .. Len(its) - 1 PROVE ks[i] \in ToSet(ks) /\ i \in 1 .. Len(ks)
    <3>1. i \in 1 .. Len(ks)
      BY <1>6
    <3> QED
      BY <1>9, <3>1
  <2>3. ASSUME NEW i \in Len(its) .. Len(ks) PROVE ks[i] \in ToSet(ks) /\ i \in 1 .. Len(ks)
    <3>1. i \in 1 .. Len(ks)
      BY <1>6, <1>7
    <3> QED
      BY <1>9, <3>1
  <2>4. ASSUME NEW i \in 1 .. Len(its) - 1, NEW j \in Len(its) .. Len(ks)
        PROVE  ks[i] # ks[j]
    <3>1. i \in 1 .. Len(ks) /\ j \in 1 .. Len(ks) /\ i # j
      BY <1>6, <2>2, <2>3
    <3> QED
      BY <1>8, <1>9, <3>1 DEF IsInjective
  <2>5. /\ reused = {ks[j] : j \in 1 .. Len(its) - 1}
        /\ joined = {ks[j] : j \in Len(its) .. Len(ks)}
    BY <1>4
  <2>6. reused \subseteq ToSet(ks) /\ joined \subseteq ToSet(ks)
    BY <2>2, <2>3, <2>5
  <2>7. ToSet(ks) \subseteq reused \cup joined
    BY <1>9, <2>1
  <2>8. reused \cap joined = {}
    BY <2>4, <2>5
  <2> QED
    BY <2>6, <2>7, <2>8
<1>14. \A k \in T : WellFormed(cs[k]) /\ InOrderOf(cs[k], cs[0])
  BY <1>1, <1>3, <1>5 DEF Isolated
<1>15. PICK gb \in Buckets : gb = SeenBucket(cs[0], a) /\ gb \in 0 .. InfBucket - 1
                             /\ a \in InStack(cs[0])
  <2>1. a \in InStack(cs[0])
    <3>1. 1 \in 1 .. Len(its)
      BY <1>6, <1>7
    <3> QED
      BY <1>5, <1>6, <1>7, <1>10, <3>1
  <2>2. SeenBucket(cs[0], a) \in 0 .. InfBucket - 1 /\ SeenBucket(cs[0], a) \in Buckets
    BY <1>5, <1>14, <2>1, OnBlockSeenOnto
  <2> QED
    BY <2>1, <2>2
<1>16. /\ DOMAIN new = 0 .. m - 1
       /\ new[0] = IncrAccess(OnBlockSeen(cs[0], a), gb)
       /\ \A k \in 1 .. m - 1 :
            new[k] = IF k \in reused THEN ReuseOnStack(cs[k], a, gb)
                     ELSE IF k \in joined THEN JoinStack(cs[k], a) ELSE cs[k]
  BY <1>2, <1>3, <1>5, <1>15 DEF SeenSims
<1>17. IsCountedOnce(new[0], cs[0], a, gb)
  <2>1. Onto(OnBlockSeen(cs[0], a), cs[0], a) /\ SameCounts(OnBlockSeen(cs[0], a), cs[0])
    BY <1>5, <1>14, <1>15, OnBlockSeenOnto
  <2> QED
    BY <1>15, <1>16, <2>1, CountedOnce
<1>18. ASSUME NEW k \in 1 .. m - 1
       PROVE  IF k \in ToSet(ks) THEN IsCountedAlone(new[k], cs[k], a) ELSE new[k] = cs[k]
  <2>1. k \in T /\ k # 0
    BY <1>3
  <2>2. CASE k \in reused
    <3>1. a \in InStack(cs[k]) /\ WellFormed(cs[k]) /\ InOrderOf(cs[k], cs[0])
      BY <1>10, <1>11, <1>14, <2>1, <2>2
    <3>2. PICK e : e = SeenBucket(cs[k], a)
      OBVIOUS
    <3>3. IsCounted(new[k], cs[k], a, gb, e)
      BY <1>15, <1>16, <2>2, <3>1, <3>2, ReuseOnStackEffect
    <3>4. e <= gb
      BY <1>5, <1>14, <1>15, <3>1, <3>2, ExclusiveBucket
    <3>5. e \in 0 .. InfBucket - 1 /\ e \in Buckets
      BY <3>1, <3>2, OnBlockSeenOnto
    <3>6. gb # InfBucket /\ e # InfBucket
      BY <1>15, <3>5, MinsFacts
    <3> QED
      BY <1>13, <2>2, <3>3, <3>4, <3>5, <3>6 DEF IsCountedAlone
  <2>3. CASE k \in joined
    <3>1. k \notin reused
      BY <1>13, <2>3
    <3>2. a \notin InStack(cs[k]) /\ WellFormed(cs[k])
      BY <1>10, <1>12, <1>14, <2>1, <3>1
    <3>3. IsCounted(new[k], cs[k], a, InfBucket, InfBucket)
      BY <1>5, <1>16, <2>3, <3>1, <3>2, JoinStackEffect
    <3>4. InfBucket <= InfBucket
      BY MinsFacts
    <3> QED
      BY <1>13, <2>3, <3>3, <3>4, InfIsBucket DEF IsCountedAlone
  <2>4. CASE k \notin reused /\ k \notin joined
    BY <1>13, <1>16, <2>4
  <2> QED
    BY <2>2, <2>3, <2>4
<1> QED
  BY <1>1, <1>2, <1>16, <1>17, <1>18 DEF IsStep

\* The iterators of a block after those it lacked were stored.
LEMMA WithJoinedFacts ==
  ASSUME NEW T, 0 \in T, NEW its, NEW ks \in Seq(T), Iterators(its, ks), NEW S, its \in Seq(S),
         Len(its) >= 1
  PROVE  WithJoined(its, ks) = << 0 >> \o ks
<1>1. /\ Len(its) \in Nat /\ Len(ks) \in Nat /\ Len(its) <= Len(ks) + 1
      /\ its[1] = 0
      /\ \A j \in 1 .. Len(its) - 1 : its[j + 1] = ks[j]
      /\ DOMAIN ks = 1 .. Len(ks) /\ DOMAIN its = 1 .. Len(its)
  BY LenProperties DEF Iterators
<1>2. its \in Seq(T)
  <2>1. ASSUME NEW i \in 1 .. Len(its) PROVE its[i] \in T
    <3>1. CASE i = 1
      BY <1>1, <3>1
    <3>2. CASE i # 1
      <4>1. i - 1 \in 1 .. Len(its) - 1 /\ (i - 1) + 1 = i /\ i - 1 \in 1 .. Len(ks)
        BY <1>1, <3>2
      <4>2. its[i] = ks[i - 1]
        BY <1>1, <4>1
      <4> QED
        BY <4>1, <4>2, SequenceFacts
    <3> QED
      BY <3>1, <3>2
  <2> QED
    BY <2>1, SeqDef
<1>3. PICK tail : tail = SubSeq(ks, Len(its), Len(ks))
  OBVIOUS
<1>4. /\ tail \in Seq(T)
      /\ Len(tail) = Len(ks) - Len(its) + 1
      /\ \A i \in 1 .. Len(ks) - Len(its) + 1 : tail[i] = ks[Len(its) + i - 1]
  BY <1>1, <1>3, SequenceFacts
<1>5. PICK u \in Seq(T) : u = its \o tail
  BY <1>2, <1>4, ConcatFacts
<1>6. PICK v \in Seq(T) : v = << 0 >> \o ks
  BY ZeroFirst
<1>7. /\ Len(u) = Len(its) + Len(tail)
      /\ \A i \in 1 .. Len(its) : u[i] = its[i]
      /\ \A i \in 1 .. Len(tail) : u[Len(its) + i] = tail[i]
  BY <1>2, <1>4, <1>5, ConcatFacts
<1>8. /\ Len(v) = 1 + Len(ks) /\ v[1] = 0
      /\ \A i \in 1 .. Len(ks) : v[1 + i] = ks[i]
  BY <1>6, ZeroFirst
<1>9. Len(u) = Len(v)
  BY <1>1, <1>4, <1>7, <1>8
<1>10. ASSUME NEW i \in 1 .. Len(v)
       PROVE  u[i] = v[i]
  <2>1. CASE i = 1
    BY <1>1, <1>7, <1>8, <2>1
  <2>2. CASE i # 1 /\ i <= Len(its)
    <3>1. i - 1 \in 1 .. Len(its) - 1 /\ (i - 1) + 1 = i /\ i - 1 \in 1 .. Len(ks) /\ i \in 1 .. Len(its)
      BY <1>1, <2>2
    <3>2. PICK j \in 1 .. Len(its) - 1 : j = i - 1 /\ i = j + 1 /\ i = 1 + j /\ j \in 1 .. Len(ks)
      BY <3>1
    <3>3. u[i] = ks[j]
      BY <1>1, <1>7, <3>1, <3>2
    <3>4. v[i] = ks[j]
      BY <1>8, <3>2
    <3> QED
      BY <3>3, <3>4
  <2>3. CASE i > Len(its)
    <3>1. PICK j \in 1 .. Len(tail) : i = Len(its) + j /\ i - 1 \in 1 .. Len(ks)
      <4>1. i - Len(its) \in 1 .. Len(tail) /\ i - 1 \in 1 .. Len(ks)
        BY <1>1, <1>4, <1>8, <2>3
      <4>2. i = Len(its) + (i - Len(its))
        BY <1>1
      <4> QED
        BY <4>1, <4>2
    <3>2. u[i] = tail[j]
      BY <1>7, <3>1
    <3>3. tail[j] = ks[i - 1]
      BY <1>1, <1>4, <3>1
    <3>4. v[i] = ks[i - 1]
      <4>1. 1 + (i - 1) = i
        OBVIOUS
      <4> QED
        BY <1>8, <3>1, <4>1
    <3> QED
      BY <3>2, <3>3, <3>4
  <2> QED
    BY <1>1, <2>1, <2>2, <2>3
<1>11. u = v
  BY <1>9, <1>10, SeqEqual
<1> QED
  BY <1>3, <1>5, <1>6, <1>11 DEF WithJoined

\* A nonempty set of numbers has a least one.
LEMMA LeastFacts ==
  ASSUME NEW S \in SUBSET Nat, S # {}
  PROVE  \E i \in S : \A j \in S : i <= j
<1>1. SUFFICES ASSUME \A i \in S : \E j \in S : j < i
               PROVE  FALSE
  OBVIOUS
<1>2. PICK T : T = {i \in Nat : \A j \in S : i <= j}
  OBVIOUS
<1>3. 0 \in T
  BY <1>2
<1>4. ASSUME NEW i \in T PROVE i + 1 \in T
  <2>1. i \in Nat /\ \A j \in S : i <= j
    BY <1>2
  <2>2. i \notin S
    BY <1>1, <2>1
  <2>3. \A j \in S : i + 1 <= j
    BY <2>1, <2>2
  <2> QED
    BY <1>2, <2>1, <2>3
<1>5. T = Nat
  <2>1. T \in SUBSET Nat
    BY <1>2
  <2> QED
    BY <1>3, <1>4, <2>1, Induction
<1>6. PICK i \in S : TRUE
  OBVIOUS
<1>7. i \in Nat /\ i + 1 \in T
  BY <1>5
<1>8. i + 1 <= i
  BY <1>2, <1>6, <1>7
<1> QED
  BY <1>7, <1>8

-----------------------------------------------------------------------------
\* The inductive invariant.

\* The regions do not matter for the simulation.
LEMMA FieldsSuffice ==
  ASSUME NEW reg, NEW n \in Nat, NEW m \in Nat, NEW map, NEW num,
         Simulated(reg, map, num, n, m), NEW new, DOMAIN new = DOMAIN reg,
         new.datastructs = reg.datastructs, new.indices_of = reg.indices_of,
         new.cachesims = reg.cachesims
  PROVE  Simulated(new, map, num, n, m)
<1>1. Registry(reg, n, m) /\ Aligned(reg, map, num, n, m) /\ Isolated(reg, m)
  BY DEF Simulated
<1>2. SameRegistry(new, reg, m)
  BY <1>1 DEF SameRegistry, Registry, Linked
<1>3. Registry(new, n, m)
  BY <1>1, <1>2, SameRegistryKeeps
<1>4. \A d : SimsIn(new, d) = SimsIn(reg, d)
  BY DEF SimsIn
<1>5. Aligned(new, map, num, n, m)
  BY <1>1, <1>4 DEF Aligned, AlignedAt
<1>6. Isolated(new, m)
  BY <1>1 DEF Isolated
<1> QED
  BY <1>3, <1>5, <1>6 DEF Simulated

\* The registry of the state.
RegOf ==
  [datastructs |-> datastructs, indices_of |-> indices_of,
   cachesims |-> g_cachesims, regions |-> g_regions]

\* The fields of the registry of the state.
LEMMA RegFields ==
  /\ RegOf.datastructs = datastructs /\ RegOf.indices_of = indices_of
  /\ RegOf.cachesims = g_cachesims /\ RegOf.regions = g_regions
BY DEF RegOf

(***************************************************************************)
(* The inductive invariant: registry, iterators and stacks together, as    *)
(* each is right after an access only if the others were before it.        *)
(***************************************************************************)
Consistent == \E n, m \in Nat : Simulated(RegOf, g_addrMap, ds_num, n, m)

\* RD_init() starts from the empty registry.
LEMMA EmptyRegistrable ==
  ASSUME NEW reg, DOMAIN reg = {"datastructs", "indices_of", "cachesims", "regions"},
         reg.datastructs = EmptyVector, reg.indices_of = EmptyVector,
         reg.cachesims = EmptyVector
  PROVE  Registrable(reg, 0, 0)
<1>1. DOMAIN EmptyVector = {} /\ 0 .. 0 - 1 = {}
  BY DEF EmptyVector
<1>2. Sized(reg, 0, 0)
  BY <1>1 DEF Sized
<1> QED
  BY <1>1, <1>2 DEF Registrable, Linked, Paired

\* RD_init() establishes Consistent ...
LEMMA InitConsistent == Init => Consistent
<1> SUFFICES ASSUME Init PROVE Consistent
  OBVIOUS
<1>1. PICK empty : empty = [datastructs |-> EmptyVector, indices_of |-> EmptyVector,
                            cachesims |-> EmptyVector, regions |-> EmptyVector]
  OBVIOUS
<1>2. PICK new : new = AfterInit /\ new = Registered(empty, NoDatastruct)
  BY <1>1 DEF AfterInit
<1>3. Registrable(empty, 0, 0)
  BY <1>1, EmptyRegistrable
<1>4. 0 \in Nat /\ 0 + 1 = 1 /\ 1 \in Nat
  OBVIOUS
<1>5. HasRegistered(new, empty, NoDatastruct, 0, 0)
  BY <1>2, <1>3, <1>4, RegisteredFacts
<1>6. PICK m \in Nat : Registry(new, 1, m) /\ Continues(new, empty, 0, 0, m)
  BY <1>4, <1>5 DEF HasRegistered
<1>7. ASSUME NEW k \in 0 .. m - 1
      PROVE  InStack(new.cachesims[k]) = {} /\ WellFormed(new.cachesims[k])
  <2>1. PICK c : c = new.cachesims[k].complement
    OBVIOUS
  <2>2. SameStack(new.cachesims[k], NewCacheSim(c))
    BY <1>6, <2>1 DEF Continues
  <2>3. new.cachesims[k] \in CacheSimType /\ c \in Nat
    BY <1>6, <2>1 DEF Registry, Linked, CacheSimType
  <2>4. WellFormed(NewCacheSim(c)) /\ NewCacheSim(c).stack = << >>
    BY <2>3, NewCacheSimWellFormed
  <2>5. WellFormed(new.cachesims[k])
    BY <2>2, <2>3, <2>4, SameStackWellFormed
  <2>6. new.cachesims[k].stack = << >>
    BY <2>2, <2>4 DEF SameStack
  <2> QED
    BY <2>5, <2>6 DEF InStack
<1>8. Isolated(new, m)
  BY <1>7 DEF Isolated, InOrderOf
<1>9. Aligned(new, EmptyVector, EmptyVector, 1, m)
  BY <1>7 DEF Aligned, EmptyVector
<1>10. Simulated(new, EmptyVector, EmptyVector, 1, m)
  BY <1>6, <1>8, <1>9 DEF Simulated
<1>11. PICK reg : reg = [datastructs |-> new.datastructs, indices_of |-> new.indices_of,
                         cachesims |-> new.cachesims, regions |-> new.regions]
  OBVIOUS
<1>12. DOMAIN reg = DOMAIN new
  BY <1>6, <1>11 DEF Registry, Linked, Sized
<1>13. Simulated(reg, EmptyVector, EmptyVector, 1, m)
  BY <1>4, <1>10, <1>11, <1>12, FieldsSuffice
<1>14. RegOf = reg /\ g_addrMap = EmptyVector /\ ds_num = EmptyVector
  BY <1>2, <1>11 DEF Init, RegOf
<1> QED
  BY <1>4, <1>13, <1>14 DEF Consistent

\* ... a registration keeps it ...
LEMMA RegisterDatastructConsistent ==
  ASSUME Consistent, NEW ds, RegisterDatastruct(ds)
  PROVE  Consistent'
<1>1. PICK reg : reg = RegOf
  OBVIOUS
<1>2. PICK map, num : map = g_addrMap /\ num = ds_num
  OBVIOUS
<1>3. PICK n \in Nat, m \in Nat : Simulated(reg, map, num, n, m)
  BY <1>1, <1>2 DEF Consistent
<1>4. PICK new : new = Registered(reg, ds)
  OBVIOUS
<1>5. Registrable(reg, n, m)
  BY <1>3 DEF Simulated, Registry, Registrable
<1>6. HasRegistered(new, reg, ds, n, m)
  BY <1>4, <1>5, RegisteredFacts
<1>7. PICK m2 \in Nat : Registry(new, n + 1, m2) /\ Continues(new, reg, n, m, m2)
  BY <1>6 DEF HasRegistered
<1>8. n + 1 \in Nat
  OBVIOUS
<1>9. Simulated(new, map, num, n + 1, m2)
  BY <1>3, <1>7, RegistrationKeeps
<1>10. PICK r : r = [datastructs |-> new.datastructs, indices_of |-> new.indices_of,
                     cachesims |-> new.cachesims, regions |-> new.regions]
  OBVIOUS
<1>11. DOMAIN r = DOMAIN new
  BY <1>7, <1>10 DEF Registry, Linked, Sized
<1>12. Simulated(r, map, num, n + 1, m2)
  BY <1>8, <1>9, <1>10, <1>11, FieldsSuffice
<1>13. RegOf' = r /\ g_addrMap' = map /\ ds_num' = num
  BY <1>1, <1>2, <1>4, <1>10 DEF RegisterDatastruct, RegOf
<1> QED
  BY <1>8, <1>12, <1>13 DEF Consistent

\* What leaves blocks and simulations alone keeps them consistent.
LEMMA UnchangedConsistent ==
  ASSUME Consistent, UNCHANGED <<datastructs, indices_of, g_cachesims, g_addrMap, ds_num>>
  PROVE  Consistent'
<1>1. PICK reg : reg = RegOf
  OBVIOUS
<1>2. PICK map, num : map = g_addrMap /\ num = ds_num
  OBVIOUS
<1>3. PICK n \in Nat, m \in Nat : Simulated(reg, map, num, n, m)
  BY <1>1, <1>2 DEF Consistent
<1>4. PICK new : new = RegOf'
  OBVIOUS
<1>5. /\ DOMAIN new = DOMAIN reg /\ new.datastructs = reg.datastructs
      /\ new.indices_of = reg.indices_of /\ new.cachesims = reg.cachesims
  BY <1>1, <1>4 DEF RegOf
<1>6. Simulated(new, map, num, n, m)
  BY <1>3, <1>5, FieldsSuffice
<1> QED
  BY <1>2, <1>4, <1>6 DEF Consistent

\* What DatastructNum() and its invariant say of the structures S that hold a block.
IsFirst(d, S) ==
  IF S = {} THEN d = RD_NO_DATASTRUCT ELSE d \in S /\ \A e \in S : d <= e

\* DatastructNum() is the first data structure that holds the start of a block.
LEMMA DatastructNumFacts ==
  ASSUME NEW a, NEW n \in Nat, DOMAIN datastructs = 0 .. n - 1
  PROVE  IsFirst(DatastructNum(a), StartsIn(a)) /\ StartsIn(a) \subseteq 0 .. n - 1
<1>1. PICK S : S = StartsIn(a) /\ S \subseteq 0 .. n - 1
  BY DEF StartsIn
<1>2. PICK d : d = DatastructNum(a)
  OBVIOUS
<1>3. CASE S = {}
  BY <1>1, <1>2, <1>3 DEF DatastructNum, IsFirst
<1>4. CASE S # {}
  <2>1. S \in SUBSET Nat
    BY <1>1
  <2>2. \E i \in S : \A j \in S : i <= j
    BY <1>4, <2>1, LeastFacts
  <2>3. d = CHOOSE i \in S : \A j \in S : i <= j
    BY <1>1, <1>2, <1>4 DEF DatastructNum
  <2>4. d \in S /\ \A j \in S : d <= j
    BY <2>2, <2>3
  <2> QED
    BY <1>1, <1>2, <1>4, <2>4 DEF IsFirst
<1> QED
  BY <1>1, <1>3, <1>4

\* Mapped() changes f at a only.
LEMMA MappedFacts ==
  ASSUME NEW f, NEW a, NEW x
  PROVE  IsWith(Mapped(f, a, x), f, a, x)
BY DEF IsWith, Mapped

\* What an access that is counted does: a belongs to the data structure d.
HasAccessed(a, d, m) ==
  /\ a \in DOMAIN g_addrMap => ds_num[a] = d
  /\ IsStep(g_cachesims', g_cachesims, a, SimsIn(RegOf, d), m)
  /\ IsWith(g_addrMap', g_addrMap, a, << 0 >> \o SimsIn(RegOf, d))
  /\ IsWith(ds_num', ds_num, a, d)
  /\ UNCHANGED <<datastructs, indices_of>>

\* SimsOf() of the state.
LEMMA SimsOfIsSimsIn ==
  ASSUME NEW d
  PROVE  SimsOf(d) = SimsIn(RegOf, d)
BY DEF SimsOf, SimsIn, RegOf

\* The first access of a block ...
LEMMA AccessNewFacts ==
  ASSUME NEW n \in Nat, NEW m \in Nat, Simulated(RegOf, g_addrMap, ds_num, n, m),
         NEW t \in Threads, NEW a \in Blocks, AccessNew(t, a)
  PROVE  DatastructNum(a) \in 0 .. n - 1 /\ HasAccessed(a, DatastructNum(a), m)
<1>1. PICK reg : reg = RegOf
  OBVIOUS
<1>2. PICK map, num : map = g_addrMap /\ num = ds_num
  OBVIOUS
<1>3. PICK d : d = DatastructNum(a)
  OBVIOUS
<1>4. PICK ks : ks = SimsIn(reg, d) /\ ks = SimsOf(d)
  BY <1>1, SimsOfIsSimsIn
<1>5. DOMAIN datastructs = 0 .. n - 1 /\ n >= 1
  BY DEF Simulated, Registry, Linked, Sized, RegOf
<1>6. d \in 0 .. n - 1
  <2>1. IsFirst(d, StartsIn(a)) /\ StartsIn(a) \subseteq 0 .. n - 1
    BY <1>3, <1>5, DatastructNumFacts
  <2> QED
    BY <1>5, <2>1 DEF IsFirst, RD_NO_DATASTRUCT
<1>7. /\ a \notin DOMAIN g_addrMap
      /\ g_cachesims' = NewSims(g_cachesims, a, ks)
      /\ g_addrMap' = Mapped(g_addrMap, a, << 0 >> \o ks)
      /\ ds_num' = Mapped(ds_num, a, d)
      /\ UNCHANGED <<datastructs, indices_of>>
  BY <1>3, <1>4 DEF AccessNew, NewSims
<1>8. DOMAIN num = DOMAIN map /\ Simulated(reg, map, num, n, m)
  BY <1>1, <1>2 DEF Simulated, Aligned
<1>9. /\ IsWith(g_addrMap', g_addrMap, a, << 0 >> \o ks)
      /\ IsWith(ds_num', ds_num, a, d)
  BY <1>2, <1>7, <1>8, MappedFacts
<1>10. IsStep(NewSims(reg.cachesims, a, ks), reg.cachesims, a, ks, m)
  BY <1>2, <1>7, <1>8, NewStep
<1>11. reg.cachesims = g_cachesims
  BY <1>1 DEF RegOf
<1>12. HasAccessed(a, d, m)
  BY <1>1, <1>4, <1>7, <1>9, <1>10, <1>11 DEF HasAccessed
<1> QED
  BY <1>3, <1>6, <1>12

\* ... and every other one that is counted do what HasAccessed says.
LEMMA AccessSeenFacts ==
  ASSUME NEW n \in Nat, NEW m \in Nat, Simulated(RegOf, g_addrMap, ds_num, n, m),
         NEW t \in Threads, NEW a \in Blocks, AccessSeen(t, a)
  PROVE  ds_num[a] \in 0 .. n - 1 /\ HasAccessed(a, ds_num[a], m)
<1>1. PICK reg : reg = RegOf /\ reg.cachesims = g_cachesims
  BY RegFields
<1>2. PICK map, num : map = g_addrMap /\ num = ds_num
  OBVIOUS
<1>3. PICK d : d = ds_num[a]
  OBVIOUS
<1>4. PICK ks : ks = SimsIn(reg, d) /\ ks = SimsOf(d)
  BY <1>1, SimsOfIsSimsIn
<1>5. PICK reused : reused = {ks[j] : j \in 1 .. Len(map[a]) - 1}
  OBVIOUS
<1>6. PICK joined : joined = {ks[j] : j \in Len(map[a]) .. Len(ks)}
  OBVIOUS
<1>7. /\ a \in DOMAIN g_addrMap
      /\ g_cachesims' = SeenSims(g_cachesims, a, reused, joined)
      /\ g_addrMap' = [g_addrMap EXCEPT ![a] = WithJoined(@, ks)]
      /\ ds_num' = ds_num
      /\ UNCHANGED <<datastructs, indices_of>>
  BY <1>2, <1>3, <1>4, <1>5, <1>6 DEF AccessSeen, SeenSims
<1>8. /\ Simulated(reg, map, num, n, m) /\ Registry(reg, n, m) /\ m >= 1
      /\ DOMAIN num = DOMAIN map /\ a \in DOMAIN map
      /\ AlignedAt(reg, map, num, n, m, a) /\ d = num[a] /\ d \in 0 .. n - 1
  BY <1>1, <1>2, <1>3, <1>7 DEF Simulated, Registry, Aligned, AlignedAt
<1>9. PICK its : its = map[a] /\ its \in Seq(0 .. m - 1) /\ Len(its) >= 1
  BY <1>8 DEF AlignedAt
<1>10. Iterators(its, ks)
  BY <1>4, <1>8, <1>9, IteratorsFacts
<1>11. WithJoined(its, ks) = << 0 >> \o ks
  <2>1. PICK T : T = 0 .. m - 1 /\ 0 \in T
    BY <1>8
  <2>2. ks \in Seq(T)
    <3>1. SimsIn(reg, d) \in Seq(0 .. m - 1)
      BY <1>8, SimsInFacts
    <3> QED
      BY <1>4, <2>1, <3>1
  <2>3. its \in Seq(T)
    BY <1>9, <2>1
  <2> QED
    BY <1>9, <1>10, <2>1, <2>2, <2>3, WithJoinedFacts
<1>12. IsWith(g_addrMap', g_addrMap, a, << 0 >> \o ks)
  BY <1>2, <1>7, <1>9, <1>11 DEF IsWith
<1>13. IsWith(ds_num', ds_num, a, d)
  BY <1>2, <1>3, <1>7, <1>8 DEF IsWith
<1>14. IsStep(SeenSims(reg.cachesims, a, reused, joined), reg.cachesims, a, ks, m)
  BY <1>4, <1>5, <1>6, <1>8, SeenStep
<1>15. HasAccessed(a, d, m)
  BY <1>1, <1>3, <1>4, <1>7, <1>12, <1>13, <1>14 DEF HasAccessed
<1> QED
  BY <1>3, <1>8, <1>15

\* An access keeps the simulation consistent ...
LEMMA HasAccessedConsistent ==
  ASSUME NEW n \in Nat, NEW m \in Nat, Simulated(RegOf, g_addrMap, ds_num, n, m),
         NEW a \in Blocks, NEW d \in 0 .. n - 1, HasAccessed(a, d, m)
  PROVE  Simulated(RegOf', g_addrMap', ds_num', n, m)
<1>1. PICK reg : reg = RegOf /\ reg.cachesims = g_cachesims
  BY RegFields
<1>2. PICK new : new = RegOf' /\ new.cachesims = g_cachesims'
  <2>1. PICK new : new = RegOf'
    OBVIOUS
  <2>2. new.cachesims = g_cachesims'
    BY <2>1 DEF RegOf
  <2> QED
    BY <2>1, <2>2
<1>3. PICK map, num, map2, num2 :
        map = g_addrMap /\ num = ds_num /\ map2 = g_addrMap' /\ num2 = ds_num'
  OBVIOUS
<1>4. /\ DOMAIN new = DOMAIN reg
      /\ new.datastructs = reg.datastructs /\ new.indices_of = reg.indices_of
  BY <1>1, <1>2 DEF RegOf, HasAccessed
<1>5. IsAccessed(new.cachesims, reg.cachesims, a, SimsIn(reg, d), m)
  BY <1>1, <1>2, StepAccesses DEF HasAccessed
<1>6. /\ a \in DOMAIN map => num[a] = d
      /\ IsWith(map2, map, a, << 0 >> \o SimsIn(reg, d))
      /\ IsWith(num2, num, a, d)
  BY <1>1, <1>3 DEF HasAccessed
<1>7. Simulated(reg, map, num, n, m)
  BY <1>1, <1>3
<1>8. Simulated(new, map2, num2, n, m)
  BY <1>4, <1>5, <1>6, <1>7, AccessKeeps
<1> QED
  BY <1>2, <1>3, <1>8

\* ... and so does every step.
LEMMA NextConsistent == Consistent /\ [Next]_vars => Consistent'
<1> SUFFICES ASSUME Consistent, [Next]_vars
             PROVE  Consistent'
  OBVIOUS
<1>1. ASSUME NEW t \in Threads, NEW a \in Blocks, AccessRepeated(t, a)
      PROVE  Consistent'
  BY <1>1, UnchangedConsistent DEF AccessRepeated
<1>2. ASSUME NEW t \in Threads, NEW a \in Blocks, AccessNew(t, a)
      PROVE  Consistent'
  <2>1. PICK n \in Nat, m \in Nat : Simulated(RegOf, g_addrMap, ds_num, n, m)
    BY DEF Consistent
  <2>2. PICK d \in 0 .. n - 1 : HasAccessed(a, d, m)
    BY <1>2, <2>1, AccessNewFacts
  <2>3. Simulated(RegOf', g_addrMap', ds_num', n, m)
    BY <2>1, <2>2, HasAccessedConsistent
  <2> QED
    BY <2>3 DEF Consistent
<1>3. ASSUME NEW t \in Threads, NEW a \in Blocks, AccessSeen(t, a)
      PROVE  Consistent'
  <2>1. PICK n \in Nat, m \in Nat : Simulated(RegOf, g_addrMap, ds_num, n, m)
    BY DEF Consistent
  <2>2. PICK d \in 0 .. n - 1 : HasAccessed(a, d, m)
    BY <1>3, <2>1, AccessSeenFacts
  <2>3. Simulated(RegOf', g_addrMap', ds_num', n, m)
    BY <2>1, <2>2, HasAccessedConsistent
  <2> QED
    BY <2>3 DEF Consistent
<1>4. ASSUME NEW ds \in Allocations, RegisterDatastruct(ds)
      PROVE  Consistent'
  BY <1>4, RegisterDatastructConsistent
<1>5. ASSUME NEW r \in RegionNames, StartRegion(r)
      PROVE  Consistent'
  BY <1>5, UnchangedConsistent DEF StartRegion
<1>6. ASSUME NEW r \in RegionNames, StopRegion(r)
      PROVE  Consistent'
  BY <1>6, UnchangedConsistent DEF StopRegion
<1>7. CASE UNCHANGED vars
  BY <1>7, UnchangedConsistent DEF vars
<1> QED
  BY <1>1, <1>2, <1>3, <1>4, <1>5, <1>6, <1>7 DEF Next, Access

(***************************************************************************)
(* The registry, the iterators of all blocks and the stacks of all         *)
(* simulations stay consistent whatever the program accesses, allocates    *)
(* and measures: Consistent is an invariant.                               *)
(***************************************************************************)
THEOREM ConsistentAlways == Spec => []Consistent
<1> QED
  BY InitConsistent, NextConsistent, PTL DEF Spec

-----------------------------------------------------------------------------
\* What follows from it.

\* contains() is membership in the list of data structures.
LEMMA ContainsIsMember ==
  ASSUME NEW s, NEW d
  PROVE  contains(s, d) <=> d \in Members(s)
BY DEF contains, Members, ToSet

\* Linked is IndicesMatchContains.
LEMMA ConsistentIndices == Consistent => IndicesMatchContains
<1> SUFFICES ASSUME Consistent PROVE IndicesMatchContains
  OBVIOUS
<1>1. PICK n \in Nat, m \in Nat : Linked(RegOf, n, m)
  BY DEF Consistent, Simulated, Registry
<1>2. DOMAIN datastructs = 0 .. n - 1 /\ DOMAIN g_cachesims = 0 .. m - 1
  BY <1>1 DEF Linked, Sized, RegOf
<1>3. ASSUME NEW d \in 0 .. n - 1, NEW k \in 0 .. m - 1
      PROVE  k \in ToSet(indices_of[d]) <=> contains(g_cachesims[k], d)
  BY <1>1, ContainsIsMember DEF Linked, RegOf
<1>4. ASSUME NEW d \in 0 .. n - 1
      PROVE  IsInjective(indices_of[d])
  BY <1>1 DEF Linked, RegOf
<1> QED
  BY <1>2, <1>3, <1>4 DEF IndicesMatchContains

(***************************************************************************)
(* assert(contains(ds_num)) of cachesim.cpp never fails: the indices       *)
(* datastructs.cpp keeps per data structure and the lists each CacheSim    *)
(* keeps are always the same relation.                                     *)
(***************************************************************************)
THEOREM IndicesCorrect == Spec => []IndicesMatchContains
<1> QED
  BY ConsistentAlways, ConsistentIndices, PTL

\* Paired is ComplementPartition.
LEMMA ConsistentComplements == Consistent => ComplementPartition
<1> SUFFICES ASSUME Consistent PROVE ComplementPartition
  OBVIOUS
<1>1. PICK n \in Nat, m \in Nat : Linked(RegOf, n, m) /\ Paired(RegOf, n, m)
  BY DEF Consistent, Simulated, Registry
<1>2. DOMAIN datastructs = 0 .. n - 1 /\ DOMAIN g_cachesims = 0 .. m - 1
  BY <1>1 DEF Linked, Sized, RegOf
<1>3. ASSUME NEW k \in 0 .. m - 1, IsComplement(g_cachesims[k]), NEW d \in 0 .. n - 1
      PROVE  contains(g_cachesims[k], d)
               <=> ~contains(g_cachesims[g_cachesims[k].complement], d)
  <2>1. PICK c : c = g_cachesims[k].complement
    OBVIOUS
  <2>2. d \in Members(g_cachesims[k]) <=> d \notin Members(g_cachesims[c])
    BY <1>1, <1>3, <2>1 DEF Paired, RegOf
  <2> QED
    BY <2>1, <2>2, ContainsIsMember
<1> QED
  BY <1>2, <1>3 DEF ComplementPartition

(***************************************************************************)
(* However registrations follow each other, a complement holds the data    *)
(* structures its partner leaves out, and only those.                      *)
(***************************************************************************)
THEOREM ComplementsCorrect == Spec => []ComplementPartition
<1> QED
  BY ConsistentAlways, ConsistentComplements, PTL

\* Aligned is IteratorsAligned.
LEMMA ConsistentIterators == Consistent => IteratorsAligned
<1> SUFFICES ASSUME Consistent PROVE IteratorsAligned
  OBVIOUS
<1>1. PICK reg : reg = RegOf /\ reg.cachesims = g_cachesims
  BY RegFields
<1>2. PICK map, num : map = g_addrMap /\ num = ds_num
  OBVIOUS
<1>3. PICK n \in Nat, m \in Nat : Registry(reg, n, m) /\ Aligned(reg, map, num, n, m)
  BY <1>1, <1>2 DEF Consistent, Simulated
<1>4. m >= 1 /\ DOMAIN g_cachesims = 0 .. m - 1
  BY <1>1, <1>3 DEF Registry, Linked, Sized
<1>5. PICK T : T = 0 .. m - 1 /\ 0 \in T
  BY <1>4
<1>6. ASSUME NEW a \in DOMAIN map
      PROVE  /\ IsPrefix(map[a], << 0 >> \o SimsOf(num[a]))
             /\ \A k \in T : a \in InStack(g_cachesims[k]) <=> k \in ToSet(map[a])
  <2>1. AlignedAt(reg, map, num, n, m, a)
    BY <1>3 DEF Aligned
  <2>2. PICK d \in 0 .. n - 1 : d = num[a]
    BY <2>1 DEF AlignedAt
  <2>3. PICK ks : ks = SimsIn(reg, d) /\ ks = SimsOf(d)
    BY <1>1, SimsOfIsSimsIn
  <2>4. ks \in Seq(T)
    <3>1. SimsIn(reg, d) \in Seq(0 .. m - 1)
      BY <1>3, SimsInFacts
    <3> QED
      BY <1>5, <2>3, <3>1
  <2>5. << 0 >> \o ks \in Seq(T)
    BY <1>5, <2>4, ZeroFirst
  <2>6. map[a] \in Seq(T) /\ Begins(map[a], << 0 >> \o ks)
    BY <1>5, <2>1, <2>2, <2>3 DEF AlignedAt
  <2>7. IsPrefix(map[a], << 0 >> \o ks)
    BY <2>5, <2>6, PrefixBegins
  <2>8. \A k \in T : a \in InStack(g_cachesims[k]) <=> k \in ToSet(map[a])
    BY <1>1, <1>5, <2>1 DEF AlignedAt
  <2> QED
    BY <2>2, <2>3, <2>7, <2>8
<1> QED
  BY <1>2, <1>4, <1>5, <1>6 DEF IteratorsAligned

(***************************************************************************)
(* on_block_seen() pairs iterators with simulations by position; the       *)
(* pairing is right for blocks known before and after any registration.    *)
(***************************************************************************)
THEOREM IteratorsCorrect == Spec => []IteratorsAligned
<1> QED
  BY ConsistentAlways, ConsistentIterators, PTL

\* Isolated is IsolatedStacks.
LEMMA ConsistentStacks == Consistent => IsolatedStacks
<1> SUFFICES ASSUME Consistent PROVE IsolatedStacks
  OBVIOUS
<1>1. PICK n \in Nat, m \in Nat : Linked(RegOf, n, m) /\ Isolated(RegOf, m)
  BY DEF Consistent, Simulated, Registry
<1>2. DOMAIN g_cachesims = 0 .. m - 1
  BY <1>1 DEF Linked, Sized, RegOf
<1> QED
  BY <1>1, <1>2 DEF Isolated, IsolatedStacks, RegOf

(***************************************************************************)
(* Each simulation is the LRU stack of its own blocks, in the order of the *)
(* global one, and its markers and buckets are right.                      *)
(***************************************************************************)
THEOREM StacksCorrect == Spec => []IsolatedStacks
<1> QED
  BY ConsistentAlways, ConsistentStacks, PTL

\* The structure of a known block is the first one that held it, unless it
\* has none; later ones do not come before it.
Placed ==
  \A a \in DOMAIN ds_num : ds_num[a] # RD_NO_DATASTRUCT =>
    ds_num[a] \in StartsIn(a) /\ \A e \in StartsIn(a) : ds_num[a] <= e

\* The sizes of the vectors of a consistent state.
LEMMA ConsistentSizes ==
  ASSUME Consistent
  PROVE  \E n, m \in Nat :
           /\ Simulated(RegOf, g_addrMap, ds_num, n, m)
           /\ n >= 1 /\ m >= 1
           /\ DOMAIN datastructs = 0 .. n - 1 /\ DOMAIN g_cachesims = 0 .. m - 1
           /\ DOMAIN ds_num = DOMAIN g_addrMap
           /\ \A a \in DOMAIN ds_num : ds_num[a] \in 0 .. n - 1
<1>1. PICK n \in Nat, m \in Nat : Simulated(RegOf, g_addrMap, ds_num, n, m)
  BY DEF Consistent
<1>2. /\ n >= 1 /\ m >= 1
      /\ DOMAIN datastructs = 0 .. n - 1 /\ DOMAIN g_cachesims = 0 .. m - 1
      /\ DOMAIN ds_num = DOMAIN g_addrMap
      /\ \A a \in DOMAIN ds_num : ds_num[a] \in 0 .. n - 1
  BY <1>1 DEF Simulated, Registry, Linked, Sized, RegOf, Aligned, AlignedAt
<1> QED
  BY <1>1, <1>2

\* At first no block is known ...
LEMMA InitPlaced == Init => Placed
BY DEF Init, Placed, EmptyVector

\* What RegisterDatastruct() does to the registered structures.
LEMMA RegisterDatastructFacts ==
  ASSUME NEW n \in Nat, NEW m \in Nat, Simulated(RegOf, g_addrMap, ds_num, n, m),
         NEW ds, RegisterDatastruct(ds)
  PROVE  /\ DOMAIN datastructs' = 0 .. n
         /\ datastructs'[n] = ds
         /\ \A i \in 0 .. n - 1 : datastructs'[i] = datastructs[i]
         /\ DOMAIN g_regions' = DOMAIN g_regions
<1>1. PICK reg : reg = RegOf
  OBVIOUS
<1>2. PICK new : new = Registered(reg, ds)
  OBVIOUS
<1>3. HasRegistered(new, reg, ds, n, m)
  <2>1. Registrable(reg, n, m)
    BY <1>1 DEF Simulated, Registry, Registrable
  <2> QED
    BY <1>2, <2>1, RegisteredFacts
<1>4. PICK m2 \in Nat : /\ Registry(new, n + 1, m2) /\ Continues(new, reg, n, m, m2)
                        /\ new.datastructs[n] = ds
  BY <1>3 DEF HasRegistered
<1>5. DOMAIN new.datastructs = 0 .. n
  <2>1. DOMAIN new.datastructs = 0 .. (n + 1) - 1
    BY <1>4 DEF Registry, Linked, Sized
  <2> QED
    BY <2>1
<1>6. datastructs' = new.datastructs /\ g_regions' = new.regions
  BY <1>1, <1>2 DEF RegisterDatastruct, RegOf
<1>7. reg.datastructs = datastructs /\ reg.regions = g_regions
  BY <1>1 DEF RegOf
<1> QED
  BY <1>4, <1>5, <1>6, <1>7 DEF Continues

\* ... a new one gets the first structure that holds it, and later ones have larger numbers.
LEMMA NextPlaced == Consistent /\ Placed /\ [Next]_vars => Placed'
<1> SUFFICES ASSUME Consistent, Placed, [Next]_vars
             PROVE  Placed'
  OBVIOUS
<1>1. PICK n \in Nat, m \in Nat :
        /\ Simulated(RegOf, g_addrMap, ds_num, n, m)
        /\ n >= 1 /\ DOMAIN datastructs = 0 .. n - 1
        /\ \A a \in DOMAIN ds_num : ds_num[a] \in 0 .. n - 1
  BY ConsistentSizes
<1>2. ASSUME UNCHANGED <<datastructs, ds_num>>
      PROVE  Placed'
  BY <1>2 DEF Placed, StartsIn
<1>3. ASSUME NEW t \in Threads, NEW a \in Blocks, AccessNew(t, a)
      PROVE  Placed'
  <2>1. PICK d : d = DatastructNum(a)
    OBVIOUS
  <2>2. IsFirst(d, StartsIn(a))
    BY <1>1, <2>1, DatastructNumFacts
  <2>3. datastructs' = datastructs /\ ds_num' = Mapped(ds_num, a, d)
    BY <1>3, <2>1 DEF AccessNew
  <2>4. IsWith(ds_num', ds_num, a, d)
    BY <2>3, MappedFacts
  <2>5. ASSUME NEW b PROVE StartsIn(b)' = StartsIn(b)
    BY <2>3 DEF StartsIn
  <2>6. ASSUME NEW b \in DOMAIN ds_num', ds_num'[b] # RD_NO_DATASTRUCT
        PROVE  ds_num'[b] \in StartsIn(b) /\ \A e \in StartsIn(b) : ds_num'[b] <= e
    <3>1. CASE b = a
      BY <2>2, <2>4, <2>6, <3>1 DEF IsFirst, IsWith
    <3>2. CASE b # a
      BY <2>4, <2>6, <3>2 DEF Placed, IsWith
    <3> QED
      BY <3>1, <3>2
  <2> QED
    BY <2>5, <2>6 DEF Placed
<1>4. ASSUME NEW ds, RegisterDatastruct(ds)
      PROVE  Placed'
  <2>1. DOMAIN datastructs' = 0 .. n
    BY <1>1, <1>4, RegisterDatastructFacts
  <2>2. \A i \in 0 .. n - 1 : datastructs'[i] = datastructs[i]
    BY <1>1, <1>4, RegisterDatastructFacts
  <2>3. ds_num' = ds_num
    BY <1>4 DEF RegisterDatastruct
  <2>4. \A i \in 0 .. n : i = n \/ i \in 0 .. n - 1
    OBVIOUS
  <2>5. ASSUME NEW b \in DOMAIN ds_num, ds_num[b] # RD_NO_DATASTRUCT
        PROVE  ds_num[b] \in StartsIn(b)' /\ \A e \in StartsIn(b)' : ds_num[b] <= e
    <3>1. PICK d \in 0 .. n - 1 : d = ds_num[b] /\ d \in 0 .. n
      BY <1>1
    <3>2. d \in StartsIn(b) /\ \A e \in StartsIn(b) : d <= e
      BY <2>5, <3>1 DEF Placed
    <3>3. d \in StartsIn(b)'
      BY <2>1, <2>2, <3>1, <3>2 DEF StartsIn
    <3>4. StartsIn(b)' \subseteq StartsIn(b) \cup {n}
      BY <1>1, <2>1, <2>2, <2>4 DEF StartsIn
    <3>5. d <= n
      BY <3>1
    <3> QED
      BY <3>1, <3>2, <3>3, <3>4, <3>5
  <2> QED
    BY <2>3, <2>5 DEF Placed
<1> QED
  BY <1>2, <1>3, <1>4
  DEF Next, Access, AccessRepeated, AccessSeen, StartRegion, StopRegion, vars

\* The blocks a structure's own simulation shows are its own.
LEMMA OwnBlocksFacts ==
  ASSUME Consistent, NEW d \in DOMAIN datastructs, d # RD_NO_DATASTRUCT, NEW a \in OwnBlocks(d)
  PROVE  a \in DOMAIN ds_num /\ ds_num[a] = d
<1>1. PICK reg : reg = RegOf
  OBVIOUS
<1>2. PICK map, num : map = g_addrMap /\ num = ds_num
  OBVIOUS
<1>3. PICK n \in Nat, m \in Nat : Registry(reg, n, m) /\ Aligned(reg, map, num, n, m)
  BY <1>1, <1>2 DEF Consistent, Simulated
<1>4. Linked(reg, n, m) /\ Owned(reg, n) /\ d \in 0 .. n - 1 /\ n >= 1
  BY <1>1, <1>3 DEF Registry, Linked, Sized, RegOf
<1>5. PICK T : T = 0 .. m - 1
  OBVIOUS
<1>6. PICK k \in T : k = reg.indices_of[d][1]
  <2>1. reg.indices_of[d] \in Seq(T) /\ Len(reg.indices_of[d]) >= 1
    BY <1>4, <1>5 DEF Linked, Owned
  <2> QED
    BY <2>1, SequenceFacts
<1>7. Members(reg.cachesims[k]) = {d}
  BY <1>4, <1>6 DEF Owned, OwnSim
<1>8. k # 0
  <2>1. 0 \in 0 .. n - 1
    BY <1>4
  <2>2. Members(OwnSim(reg, 0)) = {0} /\ reg.indices_of[0][1] = 0
    BY <1>4, <2>1 DEF Owned
  <2> QED
    BY <1>7, <2>2 DEF OwnSim, RD_NO_DATASTRUCT
<1>9. a \in InStack(reg.cachesims[k])
  <2>1. reg.indices_of = indices_of /\ reg.cachesims = g_cachesims
    BY <1>1 DEF RegOf
  <2> QED
    BY <1>6, <2>1 DEF OwnBlocks
<1>10. a \in DOMAIN map /\ DOMAIN num = DOMAIN map
  BY <1>3, <1>5, <1>9 DEF Aligned
<1>11. AlignedAt(reg, map, num, n, m, a)
  BY <1>3, <1>10 DEF Aligned
<1>12. k \in ToSet(map[a])
  BY <1>5, <1>9, <1>11 DEF AlignedAt
<1>13. PICK e \in 0 .. n - 1 : e = num[a]
  BY <1>11 DEF AlignedAt
<1>14. k \in ToSet(SimsIn(reg, e))
  <2>1. Iterators(map[a], SimsIn(reg, num[a]))
    BY <1>3, <1>11, IteratorsFacts
  <2> QED
    BY <1>8, <1>12, <1>13, <2>1 DEF Iterators
<1>15. e \in Members(reg.cachesims[k])
  <2>1. \A j \in 0 .. m - 1 : j \in ToSet(SimsIn(reg, e)) <=> j # 0 /\ e \in Members(reg.cachesims[j])
    BY <1>3, SimsInFacts
  <2> QED
    BY <1>5, <1>14, <2>1
<1> QED
  BY <1>2, <1>7, <1>10, <1>13, <1>15

\* Attribution, from where blocks are placed and which simulations show them.
LEMMA PlacedAttribution == Consistent /\ Placed => Attribution
<1> SUFFICES ASSUME Consistent, Placed,
                    NEW d \in DOMAIN datastructs \ {RD_NO_DATASTRUCT},
                    NEW a \in OwnBlocks(d)
             PROVE  /\ d \in StartsIn(a)
                    /\ \A e \in (DOMAIN datastructs \ {RD_NO_DATASTRUCT}) \ {d} :
                         e \in StartsIn(a) => d < e /\ a \notin OwnBlocks(e)
  BY DEF Attribution
<1>1. a \in DOMAIN ds_num /\ ds_num[a] = d
  BY OwnBlocksFacts
<1>2. d \in StartsIn(a) /\ \A e \in StartsIn(a) : d <= e
  BY <1>1 DEF Placed
<1>3. ASSUME NEW e \in (DOMAIN datastructs \ {RD_NO_DATASTRUCT}) \ {d}, e \in StartsIn(a)
      PROVE  d < e /\ a \notin OwnBlocks(e)
  <2>1. d \in Nat /\ e \in Nat
    BY ConsistentSizes
  <2>2. a \notin OwnBlocks(e)
    BY <1>1, OwnBlocksFacts
  <2> QED
    BY <1>2, <1>3, <2>1, <2>2
<1> QED
  BY <1>2, <1>3

(***************************************************************************)
(* A data structure's own simulation shows blocks that start in it and in  *)
(* no older one, and no block is shown for two.                            *)
(***************************************************************************)
THEOREM AttributionCorrect == Spec => []Attribution
<1>1. Init => Placed
  BY InitPlaced
<1>2. Consistent /\ Placed /\ [Next]_vars => Placed'
  BY NextPlaced
<1>3. Consistent /\ Placed => Attribution
  BY PlacedAttribution
<1> QED
  BY <1>1, <1>2, <1>3, ConsistentAlways, PTL DEF Spec

-----------------------------------------------------------------------------
\* The type invariant.

\* What TypeOK says of the variables Consistent leaves out.
Others ==
  /\ \A i \in DOMAIN datastructs : datastructs[i] \in Allocations \cup {NoDatastruct}
  /\ addr_last \in [Threads -> Blocks \cup {NULL_BLOCK}]
  /\ abefore_cnt \in 0 .. MaxRepeats
  /\ DOMAIN g_regions \subseteq RegionNames
  /\ DOMAIN open = DOMAIN g_regions /\ DOMAIN during = DOMAIN g_regions

\* The initial state is typed ...
LEMMA InitOthers == Init => Others
<1> SUFFICES ASSUME Init PROVE Others
  OBVIOUS
<1>1. PICK empty : empty = [datastructs |-> EmptyVector, indices_of |-> EmptyVector,
                            cachesims |-> EmptyVector, regions |-> EmptyVector]
  OBVIOUS
<1>2. PICK new : new = AfterInit /\ new = Registered(empty, NoDatastruct)
  BY <1>1 DEF AfterInit
<1>3. Registrable(empty, 0, 0)
  BY <1>1, EmptyRegistrable
<1>4. 0 \in Nat /\ 0 + 1 = 1
  OBVIOUS
<1>5. HasRegistered(new, empty, NoDatastruct, 0, 0)
  BY <1>2, <1>3, <1>4, RegisteredFacts
<1>6. PICK m \in Nat : /\ Registry(new, 1, m) /\ Continues(new, empty, 0, 0, m)
                       /\ new.datastructs[0] = NoDatastruct
  BY <1>4, <1>5 DEF HasRegistered
<1>7. DOMAIN new.datastructs = {0}
  <2>1. DOMAIN new.datastructs = 0 .. 1 - 1
    BY <1>6 DEF Registry, Linked, Sized
  <2> QED
    BY <2>1
<1>8. DOMAIN new.regions = {}
  <2>1. DOMAIN new.regions = DOMAIN empty.regions
    BY <1>6 DEF Continues
  <2> QED
    BY <1>1, <2>1 DEF EmptyVector
<1>9. datastructs = new.datastructs /\ g_regions = new.regions
  BY <1>2 DEF Init
<1>10. /\ addr_last \in [Threads -> Blocks \cup {NULL_BLOCK}]
       /\ abefore_cnt \in 0 .. MaxRepeats
       /\ DOMAIN open = {} /\ DOMAIN during = {}
  BY BoundsAssumption DEF Init, EmptyVector
<1> QED
  BY <1>6, <1>7, <1>8, <1>9, <1>10 DEF Others

\* ... every step keeps the types ...
LEMMA NextOthers == Consistent /\ Others /\ [Next]_vars => Others'
<1> SUFFICES ASSUME Consistent, Others, [Next]_vars
             PROVE  Others'
  OBVIOUS
<1>1. ASSUME NEW t \in Threads, NEW a \in Blocks, AccessRepeated(t, a)
      PROVE  Others'
  BY <1>1, BoundsAssumption DEF AccessRepeated, Others
<1>2. ASSUME NEW t \in Threads, NEW a \in Blocks,
             Remember(t, a), RecordDuring,
             UNCHANGED <<datastructs, abefore_cnt, g_regions, open>>
      PROVE  Others'
  <2>1. addr_last' \in [Threads -> Blocks \cup {NULL_BLOCK}]
    BY <1>2 DEF Remember, Others
  <2>2. DOMAIN during' = DOMAIN during
    BY <1>2 DEF RecordDuring
  <2> QED
    BY <1>2, <2>1, <2>2 DEF Others
<1>3. ASSUME NEW t \in Threads, NEW a \in Blocks, AccessNew(t, a)
      PROVE  Others'
  <2>1. Remember(t, a) /\ RecordDuring /\ UNCHANGED <<datastructs, abefore_cnt, g_regions, open>>
    BY <1>3 DEF AccessNew
  <2> QED
    BY <1>2, <2>1
<1>4. ASSUME NEW t \in Threads, NEW a \in Blocks, AccessSeen(t, a)
      PROVE  Others'
  <2>1. Remember(t, a) /\ RecordDuring /\ UNCHANGED <<datastructs, abefore_cnt, g_regions, open>>
    BY <1>4 DEF AccessSeen
  <2> QED
    BY <1>2, <2>1
<1>5. ASSUME NEW ds \in Allocations, RegisterDatastruct(ds)
      PROVE  Others'
  <2>1. PICK n \in Nat, m \in Nat :
          /\ Simulated(RegOf, g_addrMap, ds_num, n, m) /\ DOMAIN datastructs = 0 .. n - 1
    BY ConsistentSizes
  <2>2. DOMAIN datastructs' = 0 .. n
    BY <1>5, <2>1, RegisterDatastructFacts
  <2>3. datastructs'[n] = ds
    BY <1>5, <2>1, RegisterDatastructFacts
  <2>4. \A i \in 0 .. n - 1 : datastructs'[i] = datastructs[i]
    BY <1>5, <2>1, RegisterDatastructFacts
  <2>5. DOMAIN g_regions' = DOMAIN g_regions
    BY <1>5, <2>1, RegisterDatastructFacts
  <2>6. \A i \in DOMAIN datastructs' : datastructs'[i] \in Allocations \cup {NoDatastruct}
    <3>1. \A i \in 0 .. n : i = n \/ i \in 0 .. n - 1
      OBVIOUS
    <3> QED
      BY <2>1, <2>2, <2>3, <2>4, <3>1 DEF Others
  <2>7. UNCHANGED <<addr_last, abefore_cnt, open, during>>
    BY <1>5 DEF RegisterDatastruct
  <2> QED
    BY <2>5, <2>6, <2>7 DEF Others
<1>6. ASSUME NEW r \in RegionNames, StartRegion(r)
      PROVE  Others'
  <2>1. /\ DOMAIN g_regions' = DOMAIN g_regions \cup {r}
        /\ DOMAIN open' = DOMAIN open \cup {r}
        /\ DOMAIN during' = DOMAIN during \cup {r}
    <3>1. /\ DOMAIN g_regions' = DOMAIN g_regions \cup {r}
          /\ DOMAIN open' = DOMAIN open \cup {r}
      BY <1>6 DEF StartRegion, Mapped
    <3>2. CASE r \in DOMAIN g_regions
      <4>1. during' = during
        BY <1>6, <3>2 DEF StartRegion
      <4> QED
        BY <3>1, <3>2, <4>1 DEF Others
    <3>3. CASE r \notin DOMAIN g_regions
      <4>1. during' = Mapped(during, r, EmptyVector)
        BY <1>6, <3>3 DEF StartRegion
      <4> QED
        BY <3>1, <4>1 DEF Mapped
    <3> QED
      BY <3>2, <3>3
  <2>2. UNCHANGED <<datastructs, addr_last, abefore_cnt>>
    BY <1>6 DEF StartRegion
  <2> QED
    BY <2>1, <2>2 DEF Others
<1>7. ASSUME NEW r \in RegionNames, StopRegion(r)
      PROVE  Others'
  BY <1>7 DEF StopRegion, Others
<1>8. CASE UNCHANGED vars
  BY <1>8 DEF vars, Others
<1> QED
  BY <1>1, <1>3, <1>4, <1>5, <1>6, <1>7, <1>8 DEF Next, Access

\* ... which TypeOK is made of, with Consistent.
LEMMA TypeFromOthers == Consistent /\ Others => TypeOK
<1> SUFFICES ASSUME Consistent, Others PROVE TypeOK
  OBVIOUS
<1>1. PICK n \in Nat, m \in Nat :
        /\ Linked(RegOf, n, m) /\ Aligned(RegOf, g_addrMap, ds_num, n, m)
  BY DEF Consistent, Simulated, Registry
<1>2. /\ DOMAIN datastructs = 0 .. n - 1 /\ DOMAIN indices_of = 0 .. n - 1
      /\ DOMAIN g_cachesims = 0 .. m - 1
  BY <1>1 DEF Linked, Sized, RegOf
<1>3. PICK T : T = 0 .. m - 1
  OBVIOUS
<1>4. ASSUME NEW d \in 0 .. n - 1
      PROVE  ToSet(indices_of[d]) \subseteq T
  <2>1. indices_of[d] \in Seq(T)
    BY <1>1, <1>3 DEF Linked, RegOf
  <2> QED
    BY <2>1, SequenceFacts
<1>5. \A k \in T : g_cachesims[k] \in CacheSimType
  BY <1>1, <1>3 DEF Linked, RegOf
<1>6. /\ DOMAIN g_addrMap \subseteq Blocks /\ DOMAIN ds_num = DOMAIN g_addrMap
      /\ \A a \in DOMAIN ds_num : ds_num[a] \in 0 .. n - 1
  BY <1>1 DEF Aligned, AlignedAt
<1> QED
  BY <1>2, <1>3, <1>4, <1>5, <1>6 DEF TypeOK, Others

\* Others is an invariant.
LEMMA OthersAlways == Spec => []Others
<1>1. Init => Others
  BY InitOthers
<1>2. Consistent /\ Others /\ [Next]_vars => Others'
  BY NextOthers
<1> QED
  BY <1>1, <1>2, ConsistentAlways, PTL DEF Spec

(***************************************************************************)
(* The simulation stays within its types.                                  *)
(***************************************************************************)
THEOREM TypeCorrect == Spec => []TypeOK
<1>1. Consistent /\ Others => TypeOK
  BY TypeFromOthers
<1> QED
  BY <1>1, ConsistentAlways, OthersAlways, PTL

-----------------------------------------------------------------------------
\* Sums over buckets, and ExclusiveDominates.

\* f is the function UpTo() is defined by.
Sums(f, count, b) == f = [c \in 0 .. b |-> count[c] + (IF c = 0 THEN 0 ELSE f[c - 1])]

\* One step of the sum UpTo() stands for.
LEMMA SumsFacts ==
  ASSUME NEW f, NEW count, NEW b \in Nat, Sums(f, count, b)
  PROVE  /\ f[0] = count[0] + 0
         /\ \A n \in Nat : n + 1 <= b => f[n + 1] = count[n + 1] + f[n]
<1>1. f[0] = count[0] + 0
  BY DEF Sums
<1>2. ASSUME NEW n \in Nat, n + 1 <= b
      PROVE  f[n + 1] = count[n + 1] + f[n]
  <2>1. n + 1 \in 0 .. b /\ n + 1 # 0 /\ (n + 1) - 1 = n
    BY <1>2
  <2> QED
    BY <2>1 DEF Sums
<1> QED
  BY <1>1, <1>2

\* UpTo() is the value of that sum.
LEMMA UpToSums ==
  ASSUME NEW count, NEW b \in Nat
  PROVE  \E f : Sums(f, count, b) /\ UpTo(count, b) = f[b]
<1> DEFINE Sum(g, n) == count[n] + (IF n = 0 THEN 0 ELSE g[n - 1])
           Some == {m \in Nat : \E g : \A n \in 0 .. m : g[n] = Sum(g, n)}
<1>1. ASSUME NEW g, NEW h, NEW n \in Nat, n # 0 => h[n - 1] = g[n - 1]
      PROVE  Sum(h, n) = Sum(g, n)
  BY <1>1
<1>2. 0 \in Some
  <2>1. PICK g : g = [n \in {0} |-> count[0] + 0]
    OBVIOUS
  <2>2. g[0] = Sum(g, 0)
    BY <2>1
  <2>3. \A n \in 0 .. 0 : n = 0
    OBVIOUS
  <2>4. \A n \in 0 .. 0 : g[n] = Sum(g, n)
    BY <2>2, <2>3
  <2> QED
    BY <2>4
<1> HIDE DEF Sum
<1>3. ASSUME NEW m \in Some
      PROVE  m + 1 \in Some
  <2>1. PICK g : \A n \in 0 .. m : g[n] = Sum(g, n)
    OBVIOUS
  <2>2. PICK h : h = [n \in 0 .. m + 1 |-> IF n = m + 1 THEN Sum(g, n) ELSE g[n]]
    OBVIOUS
  <2>3. \A n \in 0 .. m : h[n] = g[n]
    BY <2>2
  <2>4. ASSUME NEW n \in 0 .. m + 1
        PROVE  h[n] = Sum(h, n)
    <3>1. n # 0 => n - 1 \in 0 .. m
      OBVIOUS
    <3>2. Sum(h, n) = Sum(g, n)
      BY <1>1, <2>3, <3>1
    <3>3. n = m + 1 \/ n \in 0 .. m
      OBVIOUS
    <3>4. CASE n = m + 1
      BY <2>2, <3>2, <3>4
    <3>5. CASE n \in 0 .. m
      BY <2>1, <2>3, <3>2, <3>5
    <3> QED
      BY <3>3, <3>4, <3>5
  <2> QED
    BY <2>4
<1>4. Some = Nat
  <2>1. Some \in SUBSET Nat
    OBVIOUS
  <2> HIDE DEF Some
  <2> QED
    BY <1>2, <1>3, <2>1, Induction
<1>5. PICK g : \A n \in 0 .. b : g[n] = Sum(g, n)
  BY <1>4
<1>6. PICK f : f = [n \in 0 .. b |-> g[n]]
  OBVIOUS
<1>7. \A n \in 0 .. b : g[n] = Sum(f, n)
  <2>1. ASSUME NEW n \in 0 .. b
        PROVE  Sum(f, n) = Sum(g, n)
    <3>1. n # 0 => f[n - 1] = g[n - 1]
      BY <1>6
    <3> QED
      BY <1>1, <3>1
  <2> QED
    BY <1>5, <2>1
<1>8. f = [n \in 0 .. b |-> Sum(f, n)]
  BY <1>6, <1>7
<1>9. Sums(f, count, b)
  BY <1>8 DEF Sums, Sum
<1>10. UpTo(count, b) = (CHOOSE h : Sums(h, count, b))[b]
  BY DEF UpTo, Sums
<1> QED
  BY <1>9, <1>10

\* Sums over more buckets agree on the first ones.
LEMMA SumsAgree ==
  ASSUME NEW count, NEW b \in Nat, NEW f, Sums(f, count, b),
         NEW c \in Nat, NEW g, Sums(g, count, c)
  PROVE  \A n \in Nat : n <= b /\ n <= c => f[n] = g[n]
<1>1. PICK S : S = {n \in Nat : n <= b /\ n <= c => f[n] = g[n]}
  OBVIOUS
<1>2. 0 \in S
  BY <1>1, SumsFacts
<1>3. ASSUME NEW n \in S PROVE n + 1 \in S
  <2>1. n \in Nat /\ (n <= b /\ n <= c => f[n] = g[n])
    BY <1>1
  <2>2. ASSUME n + 1 <= b, n + 1 <= c PROVE f[n + 1] = g[n + 1]
    <3>1. f[n + 1] = count[n + 1] + f[n]
      BY <2>1, <2>2, SumsFacts
    <3>2. g[n + 1] = count[n + 1] + g[n]
      BY <2>1, <2>2, SumsFacts
    <3>3. f[n] = g[n]
      BY <2>1, <2>2
    <3> QED
      BY <3>1, <3>2, <3>3
  <2> QED
    BY <1>1, <2>1, <2>2
<1>4. S = Nat
  <2>1. S \in SUBSET Nat
    BY <1>1
  <2> QED
    BY <1>2, <1>3, <2>1, Induction
<1> QED
  BY <1>1, <1>4

\* The accesses in buckets 0 .. b, one bucket at a time.
LEMMA UpToFacts ==
  ASSUME NEW count
  PROVE  /\ UpTo(count, 0) = count[0] + 0
         /\ \A b \in Nat : UpTo(count, b + 1) = count[b + 1] + UpTo(count, b)
<1>1. UpTo(count, 0) = count[0] + 0
  <2>1. PICK f : Sums(f, count, 0) /\ UpTo(count, 0) = f[0]
    BY UpToSums
  <2>2. 0 \in Nat
    OBVIOUS
  <2> QED
    BY <2>1, <2>2, SumsFacts
<1>2. ASSUME NEW b \in Nat
      PROVE  UpTo(count, b + 1) = count[b + 1] + UpTo(count, b)
  <2>1. b + 1 \in Nat /\ b + 1 <= b + 1 /\ b <= b /\ b <= b + 1
    OBVIOUS
  <2>2. PICK f : Sums(f, count, b) /\ UpTo(count, b) = f[b]
    BY UpToSums
  <2>3. PICK g : Sums(g, count, b + 1) /\ UpTo(count, b + 1) = g[b + 1]
    BY <2>1, UpToSums
  <2>4. g[b + 1] = count[b + 1] + g[b]
    BY <2>1, <2>3, SumsFacts
  <2>5. f[b] = g[b]
    BY <2>1, <2>2, <2>3, SumsAgree
  <2> QED
    BY <2>2, <2>3, <2>4, <2>5
<1> QED
  BY <1>1, <1>2

\* Counts add up to a number.
LEMMA UpToNat ==
  ASSUME NEW count \in [Buckets -> Nat]
  PROVE  \A b \in Buckets : UpTo(count, b) \in Nat
<1>1. PICK S : S = {b \in Nat : b <= InfBucket => UpTo(count, b) \in Nat}
  OBVIOUS
<1>2. \A b \in Nat : b <= InfBucket => count[b] \in Nat
  BY MinsFacts DEF Buckets
<1>3. 0 \in S
  BY <1>1, <1>2, UpToFacts, MinsFacts
<1>4. ASSUME NEW b \in S PROVE b + 1 \in S
  <2>1. b \in Nat /\ (b <= InfBucket => UpTo(count, b) \in Nat)
    BY <1>1
  <2>2. UpTo(count, b + 1) = count[b + 1] + UpTo(count, b)
    BY <2>1, UpToFacts
  <2>3. b + 1 \in Nat /\ (b + 1 <= InfBucket => count[b + 1] \in Nat /\ b <= InfBucket)
    BY <1>2, <2>1, MinsFacts
  <2> QED
    BY <1>1, <2>1, <2>2, <2>3
<1>5. S = Nat
  <2>1. S \in SUBSET Nat
    BY <1>1
  <2> QED
    BY <1>3, <1>4, <2>1, Induction
<1> QED
  BY <1>1, <1>5, MinsFacts DEF Buckets

\* One access more in bucket x is one more in all buckets up to b, from x on.
LEMMA UpToIncremented ==
  ASSUME NEW count \in [Buckets -> Nat], NEW x, NEW new, Incremented(new, count, x)
  PROVE  \A b \in Buckets : UpTo(new, b) = UpTo(count, b) + (IF x <= b THEN 1 ELSE 0)
<1>1. PICK S : S = {b \in Nat : b <= InfBucket =>
                      UpTo(new, b) = UpTo(count, b) + (IF x <= b THEN 1 ELSE 0)}
  OBVIOUS
<1>2. \A b \in Nat : b <= InfBucket =>
        /\ count[b] \in Nat
        /\ new[b] = count[b] + (IF b = x THEN 1 ELSE 0)
        /\ UpTo(count, b) \in Nat
  BY UpToNat, MinsFacts DEF Incremented, Buckets
<1>3. x \in Nat
  BY MinsFacts DEF Incremented, Buckets
<1>4. 0 \in S
  <2>1. UpTo(new, 0) = new[0] + 0 /\ UpTo(count, 0) = count[0] + 0
    BY UpToFacts
  <2>2. count[0] \in Nat /\ new[0] = count[0] + (IF 0 = x THEN 1 ELSE 0)
    BY <1>2, MinsFacts
  <2> QED
    BY <1>1, <1>3, <2>1, <2>2
<1>5. ASSUME NEW b \in S PROVE b + 1 \in S
  <2>1. b \in Nat /\ (b <= InfBucket =>
                        UpTo(new, b) = UpTo(count, b) + (IF x <= b THEN 1 ELSE 0))
    BY <1>1
  <2>2. /\ UpTo(new, b + 1) = new[b + 1] + UpTo(new, b)
        /\ UpTo(count, b + 1) = count[b + 1] + UpTo(count, b)
    BY <2>1, UpToFacts
  <2>3. ASSUME b + 1 <= InfBucket
        PROVE  UpTo(new, b + 1) = UpTo(count, b + 1) + (IF x <= b + 1 THEN 1 ELSE 0)
    <3>1. b <= InfBucket /\ b + 1 \in Nat
      BY <2>1, <2>3, MinsFacts
    <3>2. /\ count[b + 1] \in Nat
          /\ new[b + 1] = count[b + 1] + (IF b + 1 = x THEN 1 ELSE 0)
      BY <1>2, <2>3, <3>1
    <3>3. UpTo(count, b) \in Nat
      BY <1>2, <2>1, <3>1
    <3>4. PICK p \in Nat, q \in Nat : p = count[b + 1] /\ q = UpTo(count, b)
      BY <3>2, <3>3
    <3>5. UpTo(new, b) = q + (IF x <= b THEN 1 ELSE 0)
      BY <2>1, <3>1, <3>4
    <3> QED
      BY <1>3, <2>1, <2>2, <3>2, <3>4, <3>5
  <2> QED
    BY <1>1, <2>1, <2>3
<1>6. S = Nat
  <2>1. S \in SUBSET Nat
    BY <1>1
  <2> QED
    BY <1>4, <1>5, <2>1, Induction
<1>7. \A b \in Nat : b <= InfBucket =>
        UpTo(new, b) = UpTo(count, b) + (IF x <= b THEN 1 ELSE 0)
  BY <1>1, <1>6
<1>8. \A b \in Buckets : b \in Nat /\ b <= InfBucket
  BY MinsFacts DEF Buckets
<1> QED
  BY <1>7, <1>8

\* One access more counts as one in total.
LEMMA TotalIncremented ==
  ASSUME NEW count \in [Buckets -> Nat], NEW x, NEW new, Incremented(new, count, x)
  PROVE  Total(count) \in Nat /\ Total(new) = Total(count) + 1
<1>1. x <= InfBucket
  BY MinsFacts DEF Incremented, Buckets
<1>2. UpTo(count, InfBucket) \in Nat
  BY InfIsBucket, UpToNat
<1>3. UpTo(new, InfBucket) = UpTo(count, InfBucket) + (IF x <= InfBucket THEN 1 ELSE 0)
  BY InfIsBucket, UpToIncremented
<1> QED
  BY <1>1, <1>2, <1>3 DEF Total

\* What ExclusiveDominates says of one simulation.
Dominates(sim) ==
  /\ \A b \in 0 .. InfBucket - 1 : UpTo(sim.aCount_excl, b) >= UpTo(sim.aCount, b)
  /\ sim.aCount_excl[InfBucket] = sim.aCount[InfBucket]
  /\ Total(sim.aCount_excl) = Total(sim.aCount)

\* The counters of a simulation.
LEMMA CountsType ==
  ASSUME NEW s \in CacheSimType
  PROVE  s.aCount \in [Buckets -> Nat] /\ s.aCount_excl \in [Buckets -> Nat]
BY DEF CacheSimType

\* Equal counts dominate each other ...
LEMMA FreshDominates ==
  ASSUME NEW s \in CacheSimType, s.aCount_excl = s.aCount
  PROVE  Dominates(s)
<1>1. s.aCount \in [Buckets -> Nat]
  BY CountsType
<1>2. \A b \in 0 .. InfBucket - 1 : b \in Buckets
  BY MinsFacts DEF Buckets
<1>3. \A b \in 0 .. InfBucket - 1 : UpTo(s.aCount, b) \in Nat
  BY <1>1, <1>2, UpToNat
<1>4. \A b \in 0 .. InfBucket - 1 : UpTo(s.aCount_excl, b) >= UpTo(s.aCount, b)
  BY <1>3
<1> QED
  BY <1>4 DEF Dominates

\* ... and a distance that is not larger keeps it so.
LEMMA CountedDominates ==
  ASSUME NEW s \in CacheSimType, Dominates(s), NEW a, NEW t, IsCountedAlone(t, s, a)
  PROVE  Dominates(t)
<1>1. PICK b \in Buckets, e \in Buckets :
        /\ e <= b /\ (e = InfBucket <=> b = InfBucket)
        /\ IsCounted(t, s, a, b, e)
  BY DEF IsCountedAlone
<1>2. PICK n, x : n = s.aCount /\ x = s.aCount_excl
  OBVIOUS
<1>3. PICK n2, x2 : n2 = t.aCount /\ x2 = t.aCount_excl
  OBVIOUS
<1>4. n \in [Buckets -> Nat] /\ x \in [Buckets -> Nat]
  BY <1>2, CountsType
<1>5. Incremented(n2, n, b) /\ Incremented(x2, x, e)
  BY <1>1, <1>2, <1>3 DEF IsCounted
<1>6. \A c \in Buckets : UpTo(n2, c) = UpTo(n, c) + (IF b <= c THEN 1 ELSE 0)
  BY <1>4, <1>5, UpToIncremented
<1>7. \A c \in Buckets : UpTo(x2, c) = UpTo(x, c) + (IF e <= c THEN 1 ELSE 0)
  BY <1>4, <1>5, UpToIncremented
<1>8. ASSUME NEW c \in 0 .. InfBucket - 1
      PROVE  UpTo(x2, c) >= UpTo(n2, c)
  <2>1. c \in Buckets /\ c \in Nat
    BY MinsFacts DEF Buckets
  <2>2. PICK p \in Nat : p = UpTo(n, c)
    BY <1>4, <2>1, UpToNat
  <2>3. PICK q \in Nat : q = UpTo(x, c)
    BY <1>4, <2>1, UpToNat
  <2>4. q >= p
    BY <1>2, <2>2, <2>3 DEF Dominates
  <2>5. b \in Nat /\ e \in Nat /\ e <= b
    BY <1>1, MinsFacts DEF Buckets
  <2>6. UpTo(n2, c) = p + (IF b <= c THEN 1 ELSE 0)
    BY <1>6, <2>1, <2>2
  <2>7. UpTo(x2, c) = q + (IF e <= c THEN 1 ELSE 0)
    BY <1>7, <2>1, <2>3
  <2> QED
    BY <2>1, <2>4, <2>5, <2>6, <2>7
<1>9. x2[InfBucket] = n2[InfBucket]
  <2>1. x[InfBucket] = n[InfBucket]
    BY <1>2 DEF Dominates
  <2> QED
    BY <1>1, <1>4, <1>5, <2>1, InfIsBucket DEF Incremented
<1>10. Total(x2) = Total(n2)
  <2>1. Total(n2) = Total(n) + 1
    BY <1>4, <1>5, TotalIncremented
  <2>2. Total(x2) = Total(x) + 1
    BY <1>4, <1>5, TotalIncremented
  <2>3. Total(x) = Total(n)
    BY <1>2 DEF Dominates
  <2> QED
    BY <2>1, <2>2, <2>3
<1> QED
  BY <1>3, <1>8, <1>9, <1>10 DEF Dominates

\* What a registration does to the counts of the simulations.
LEMMA RegistrationCounts ==
  ASSUME NEW n \in Nat, NEW m \in Nat, Simulated(RegOf, g_addrMap, ds_num, n, m),
         NEW ds, RegisterDatastruct(ds)
  PROVE  \E m2 \in Nat :
           /\ m <= m2 /\ DOMAIN g_cachesims' = 0 .. m2 - 1
           /\ \A k \in 0 .. m2 - 1 : g_cachesims'[k] \in CacheSimType
           /\ \A k \in 0 .. m - 1 : SameStack(g_cachesims'[k], g_cachesims[k])
           /\ \A k \in m .. m2 - 1 : g_cachesims'[k].aCount_excl = g_cachesims'[k].aCount
<1>1. PICK reg : reg = RegOf
  OBVIOUS
<1>2. PICK new : new = Registered(reg, ds)
  OBVIOUS
<1>3. HasRegistered(new, reg, ds, n, m)
  <2>1. Registrable(reg, n, m)
    BY <1>1 DEF Simulated, Registry, Registrable
  <2> QED
    BY <1>2, <2>1, RegisteredFacts
<1>4. PICK m2 \in Nat : /\ Registry(new, n + 1, m2) /\ Continues(new, reg, n, m, m2)
  BY <1>3 DEF HasRegistered
<1>5. g_cachesims' = new.cachesims
  BY <1>1, <1>2 DEF RegisterDatastruct, RegOf
<1>6. reg.cachesims = g_cachesims
  BY <1>1, RegFields
<1>7. m <= m2 /\ DOMAIN new.cachesims = 0 .. m2 - 1
  BY <1>4 DEF Registry, Linked, Sized, Continues
<1>8. \A k \in 0 .. m2 - 1 : new.cachesims[k] \in CacheSimType
  BY <1>4 DEF Registry, Linked
<1>9. \A k \in 0 .. m - 1 : SameStack(new.cachesims[k], reg.cachesims[k])
  BY <1>4 DEF Continues
<1>10. ASSUME NEW k \in m .. m2 - 1
       PROVE  new.cachesims[k].aCount_excl = new.cachesims[k].aCount
  <2>1. PICK c : SameStack(new.cachesims[k], NewCacheSim(c))
    BY <1>4 DEF Continues
  <2> QED
    BY <2>1 DEF SameStack, NewCacheSim
<1> QED
  BY <1>5, <1>6, <1>7, <1>8, <1>9, <1>10

\* The simulations of a consistent state.
LEMMA SimsTyped ==
  ASSUME NEW n \in Nat, NEW m \in Nat, Simulated(RegOf, g_addrMap, ds_num, n, m)
  PROVE  /\ DOMAIN g_cachesims = 0 .. m - 1
         /\ \A k \in 0 .. m - 1 : g_cachesims[k] \in CacheSimType
BY RegFields DEF Simulated, Registry, Linked, Sized

\* ExclusiveDominates holds at first ...
LEMMA InitDominates == Init => ExclusiveDominates
<1> SUFFICES ASSUME Init PROVE ExclusiveDominates
  OBVIOUS
<1>1. PICK empty : empty = [datastructs |-> EmptyVector, indices_of |-> EmptyVector,
                            cachesims |-> EmptyVector, regions |-> EmptyVector]
  OBVIOUS
<1>2. PICK new : new = AfterInit /\ new = Registered(empty, NoDatastruct)
  BY <1>1 DEF AfterInit
<1>3. Registrable(empty, 0, 0)
  BY <1>1, EmptyRegistrable
<1>4. 0 \in Nat /\ 0 + 1 = 1
  OBVIOUS
<1>5. HasRegistered(new, empty, NoDatastruct, 0, 0)
  BY <1>2, <1>3, <1>4, RegisteredFacts
<1>6. PICK m \in Nat : Registry(new, 1, m) /\ Continues(new, empty, 0, 0, m)
  BY <1>4, <1>5 DEF HasRegistered
<1>7. DOMAIN new.cachesims = 0 .. m - 1 /\ \A k \in 0 .. m - 1 : new.cachesims[k] \in CacheSimType
  BY <1>6 DEF Registry, Linked, Sized
<1>8. ASSUME NEW k \in 0 .. m - 1
      PROVE  Dominates(new.cachesims[k])
  <2>1. PICK c : SameStack(new.cachesims[k], NewCacheSim(c))
    BY <1>6 DEF Continues
  <2>2. new.cachesims[k].aCount_excl = new.cachesims[k].aCount
    BY <2>1 DEF SameStack, NewCacheSim
  <2> QED
    BY <1>7, <2>2, FreshDominates
<1>9. g_cachesims = new.cachesims
  BY <1>2 DEF Init
<1> QED
  BY <1>7, <1>8, <1>9 DEF ExclusiveDominates, Dominates

\* ... an access keeps it ...
LEMMA HasAccessedDominates ==
  ASSUME NEW n \in Nat, NEW m \in Nat, Simulated(RegOf, g_addrMap, ds_num, n, m),
         NEW a, NEW d, HasAccessed(a, d, m), ExclusiveDominates
  PROVE  ExclusiveDominates'
<1>1. PICK cs : cs = g_cachesims
  OBVIOUS
<1>2. PICK new : new = g_cachesims'
  OBVIOUS
<1>3. PICK ks : IsStep(new, cs, a, ks, m)
  BY <1>1, <1>2 DEF HasAccessed
<1>4. DOMAIN cs = 0 .. m - 1 /\ \A k \in 0 .. m - 1 : cs[k] \in CacheSimType
  BY <1>1, SimsTyped
<1>5. DOMAIN new = 0 .. m - 1
  BY <1>3 DEF IsStep
<1>6. \A k \in (0 .. m - 1) \ {0} : Dominates(cs[k])
  BY <1>1, <1>4 DEF ExclusiveDominates, Dominates
<1>7. ASSUME NEW k \in (0 .. m - 1) \ {0}
      PROVE  Dominates(new[k])
  <2>1. k \in 1 .. m - 1
    OBVIOUS
  <2>2. IF k \in ToSet(ks) THEN IsCountedAlone(new[k], cs[k], a) ELSE new[k] = cs[k]
    BY <1>3, <2>1 DEF IsStep
  <2> QED
    BY <1>4, <1>6, <2>2, CountedDominates
<1> QED
  BY <1>2, <1>5, <1>7 DEF ExclusiveDominates, Dominates

\* ... and so does every step.
LEMMA NextDominates == Consistent /\ ExclusiveDominates /\ [Next]_vars => ExclusiveDominates'
<1> SUFFICES ASSUME Consistent, ExclusiveDominates, [Next]_vars
             PROVE  ExclusiveDominates'
  OBVIOUS
<1>1. PICK n \in Nat, m \in Nat : Simulated(RegOf, g_addrMap, ds_num, n, m)
  BY DEF Consistent
<1>2. ASSUME UNCHANGED g_cachesims
      PROVE  ExclusiveDominates'
  BY <1>2 DEF ExclusiveDominates
<1>3. ASSUME NEW t \in Threads, NEW a \in Blocks, AccessNew(t, a)
      PROVE  ExclusiveDominates'
  <2>1. HasAccessed(a, DatastructNum(a), m)
    BY <1>1, <1>3, AccessNewFacts
  <2> QED
    BY <1>1, <2>1, HasAccessedDominates
<1>4. ASSUME NEW t \in Threads, NEW a \in Blocks, AccessSeen(t, a)
      PROVE  ExclusiveDominates'
  <2>1. HasAccessed(a, ds_num[a], m)
    BY <1>1, <1>4, AccessSeenFacts
  <2> QED
    BY <1>1, <2>1, HasAccessedDominates
<1>5. ASSUME NEW ds, RegisterDatastruct(ds)
      PROVE  ExclusiveDominates'
  <2>1. PICK m2 \in Nat :
           /\ m <= m2 /\ DOMAIN g_cachesims' = 0 .. m2 - 1
           /\ \A k \in 0 .. m2 - 1 : g_cachesims'[k] \in CacheSimType
           /\ \A k \in 0 .. m - 1 : SameStack(g_cachesims'[k], g_cachesims[k])
           /\ \A k \in m .. m2 - 1 : g_cachesims'[k].aCount_excl = g_cachesims'[k].aCount
    BY <1>1, <1>5, RegistrationCounts
  <2>2. PICK new : new = g_cachesims'
    OBVIOUS
  <2>3. PICK cs : cs = g_cachesims
    OBVIOUS
  <2>4. \A k \in (0 .. m - 1) \ {0} : Dominates(cs[k])
    BY <1>1, <2>3, SimsTyped DEF ExclusiveDominates, Dominates
  <2>5. ASSUME NEW k \in (0 .. m2 - 1) \ {0}
        PROVE  Dominates(new[k])
    <3>1. k \in (0 .. m - 1) \ {0} \/ k \in m .. m2 - 1
      OBVIOUS
    <3>2. CASE k \in (0 .. m - 1) \ {0}
      <4>1. SameStack(new[k], cs[k]) /\ Dominates(cs[k])
        BY <2>1, <2>2, <2>3, <2>4, <3>2
      <4> QED
        BY <4>1 DEF SameStack, Dominates
    <3>3. CASE k \in m .. m2 - 1
      <4>1. new[k] \in CacheSimType /\ new[k].aCount_excl = new[k].aCount
        BY <2>1, <2>2, <3>3
      <4> QED
        BY <4>1, FreshDominates
    <3> QED
      BY <3>1, <3>2, <3>3
  <2> QED
    BY <2>1, <2>2, <2>5 DEF ExclusiveDominates, Dominates
<1> QED
  BY <1>2, <1>3, <1>4, <1>5
  DEF Next, Access, AccessRepeated, StartRegion, StopRegion, vars

(***************************************************************************)
(* By exclusive distance, a simulation has never counted less up to a      *)
(* bucket than by global distance.                                         *)
(***************************************************************************)
THEOREM DominatesCorrect == Spec => []ExclusiveDominates
<1>1. Init => ExclusiveDominates
  BY InitDominates
<1>2. Consistent /\ ExclusiveDominates /\ [Next]_vars => ExclusiveDominates'
  BY NextDominates
<1> QED
  BY <1>1, <1>2, ConsistentAlways, PTL DEF Spec

-----------------------------------------------------------------------------
\* PairConservation.

\* The counters of s and t differ by i accesses.
Counted(t, s, i) ==
  \A f \in {"aCount", "aCount_excl"} : Total(s[f]) \in Nat /\ Total(t[f]) = Total(s[f]) + i

\* A total is a number.
LEMMA TotalNat ==
  ASSUME NEW count \in [Buckets -> Nat]
  PROVE  Total(count) \in Nat
BY InfIsBucket, UpToNat DEF Total

\* No access was counted.
LEMMA SameCounted ==
  ASSUME NEW s \in CacheSimType, NEW t, t.aCount = s.aCount, t.aCount_excl = s.aCount_excl
  PROVE  Counted(t, s, 0)
<1>1. Total(s.aCount) \in Nat /\ Total(s.aCount_excl) \in Nat
  BY CountsType, TotalNat
<1> QED
  BY <1>1 DEF Counted

\* One access was counted, in both counters.
LEMMA AloneCounted ==
  ASSUME NEW s \in CacheSimType, NEW a, NEW t, IsCountedAlone(t, s, a)
  PROVE  Counted(t, s, 1)
<1>1. PICK b, e : Incremented(t.aCount, s.aCount, b) /\ Incremented(t.aCount_excl, s.aCount_excl, e)
  BY DEF IsCountedAlone, IsCounted
<1>2. s.aCount \in [Buckets -> Nat] /\ s.aCount_excl \in [Buckets -> Nat]
  BY CountsType
<1>3. Total(s.aCount) \in Nat /\ Total(t.aCount) = Total(s.aCount) + 1
  BY <1>1, <1>2, TotalIncremented
<1>4. Total(s.aCount_excl) \in Nat /\ Total(t.aCount_excl) = Total(s.aCount_excl) + 1
  BY <1>1, <1>2, TotalIncremented
<1> QED
  BY <1>3, <1>4 DEF Counted

\* k is a complement, c its partner.
PairOf(reg, m, k, c) ==
  /\ k \in 1 .. m - 1 /\ c \in 1 .. m - 1 /\ k # c
  /\ c = reg.cachesims[k].complement

\* A complement and its partner are two simulations, neither of them the global one.
LEMMA PairFacts ==
  ASSUME NEW reg, NEW n \in Nat, NEW m \in Nat, Registry(reg, n, m),
         NEW k \in 0 .. m - 1, IsComplement(reg.cachesims[k])
  PROVE  PairOf(reg, m, k, reg.cachesims[k].complement)
<1>1. PICK c : c = reg.cachesims[k].complement
  OBVIOUS
<1>2. c \in 0 .. m - 1 /\ ~IsComplement(reg.cachesims[c]) /\ c # 0
  BY <1>1 DEF Registry, Paired, IsComplement
<1>3. reg.cachesims[0].complement = 0
  <2>1. 0 \in 0 .. n - 1
    BY DEF Registry
  <2>2. OwnSim(reg, 0).complement = 0 /\ reg.indices_of[0][1] = 0
    BY <2>1 DEF Registry, Owned
  <2> QED
    BY <2>2 DEF OwnSim
<1>4. k # 0
  BY <1>3 DEF IsComplement
<1>5. k # c
  BY <1>2
<1>6. k \in 1 .. m - 1 /\ c \in 1 .. m - 1
  BY <1>2, <1>4
<1> QED
  BY <1>1, <1>5, <1>6 DEF PairOf

\* Of a simulation and its complement, one is among those of d.
LEMMA OneOfPair ==
  ASSUME NEW reg, NEW n \in Nat, NEW m \in Nat, Registry(reg, n, m),
         NEW k \in 0 .. m - 1, IsComplement(reg.cachesims[k]),
         NEW c, PairOf(reg, m, k, c), NEW d \in 0 .. n - 1
  PROVE  k \in ToSet(SimsIn(reg, d)) <=> c \notin ToSet(SimsIn(reg, d))
<1>1. \A j \in 0 .. m - 1 : j \in ToSet(SimsIn(reg, d)) <=> j # 0 /\ d \in Members(reg.cachesims[j])
  BY SimsInFacts
<1>2. d \in Members(reg.cachesims[k]) <=> d \notin Members(reg.cachesims[c])
  BY DEF Registry, Paired, PairOf
<1>3. k # 0 /\ c # 0 /\ c \in 0 .. m - 1
  BY DEF PairOf
<1> QED
  BY <1>1, <1>2, <1>3

\* Both counters of a pair grow by the same number as those of its members.
LEMMA PairCounted ==
  ASSUME NEW k, NEW c, NEW i \in Nat, NEW j \in Nat,
         c = g_cachesims[k].complement, c = g_cachesims'[k].complement,
         Counted(g_cachesims'[k], g_cachesims[k], i),
         Counted(g_cachesims'[c], g_cachesims[c], j),
         NEW f \in {"aCount", "aCount_excl"}
  PROVE  Both(k, f)' - Both(k, f) = i + j
<1>1. PICK p \in Nat : p = Total(g_cachesims[k][f]) /\ Total(g_cachesims'[k][f]) = p + i
  BY DEF Counted
<1>2. PICK q \in Nat : q = Total(g_cachesims[c][f]) /\ Total(g_cachesims'[c][f]) = q + j
  BY DEF Counted
<1>3. Both(k, f) = p + q
  BY <1>1, <1>2 DEF Both
<1>4. Both(k, f)' = Total(g_cachesims'[k][f]) + Total(g_cachesims'[g_cachesims'[k].complement][f])
  BY DEF Both, Total, UpTo
<1>5. Both(k, f)' = (p + i) + (q + j)
  BY <1>1, <1>2, <1>4
<1> QED
  BY <1>3, <1>5

\* An access is counted by one of a pair, as d is in exactly one of them.
LEMMA HasAccessedCountedByOne ==
  ASSUME NEW n \in Nat, NEW m \in Nat, Simulated(RegOf, g_addrMap, ds_num, n, m),
         NEW a \in Blocks, NEW d \in 0 .. n - 1, HasAccessed(a, d, m)
  PROVE  CountedByOne
<1>1. PICK reg : reg = RegOf /\ reg.cachesims = g_cachesims
  BY RegFields
<1>2. PICK cs : cs = g_cachesims
  OBVIOUS
<1>3. PICK new : new = g_cachesims'
  OBVIOUS
<1>4. PICK ks : ks = SimsIn(reg, d)
  OBVIOUS
<1>5. IsStep(new, cs, a, ks, m)
  BY <1>1, <1>2, <1>3, <1>4 DEF HasAccessed
<1>6. DOMAIN cs = 0 .. m - 1 /\ \A k \in 0 .. m - 1 : cs[k] \in CacheSimType
  BY <1>2, SimsTyped
<1>7. Registry(reg, n, m) /\ m >= 1
  BY <1>1 DEF Simulated, Registry
<1>8. Accesses' - Accesses = 1
  <2>1. PICK b : Incremented(new[0].aCount, cs[0].aCount, b)
    BY <1>5 DEF IsStep, IsCountedOnce
  <2>2. cs[0] \in CacheSimType
    BY <1>6, <1>7
  <2>3. cs[0].aCount \in [Buckets -> Nat]
    BY <2>2, CountsType
  <2>4. PICK p \in Nat : p = Total(cs[0].aCount) /\ Total(new[0].aCount) = p + 1
    BY <2>1, <2>3, TotalIncremented
  <2>5. Accesses = p
    BY <1>2, <2>4 DEF Accesses
  <2>6. Accesses' = Total(g_cachesims'[0].aCount)
    BY DEF Accesses, Total, UpTo
  <2>7. Accesses' = p + 1
    BY <1>3, <2>4, <2>6
  <2> QED
    BY <2>5, <2>7
<1>9. ASSUME NEW k \in 1 .. m - 1
      PROVE  /\ k \in ToSet(ks) => Counted(new[k], cs[k], 1)
             /\ k \notin ToSet(ks) => Counted(new[k], cs[k], 0)
             /\ new[k].complement = cs[k].complement
  <2>1. IF k \in ToSet(ks) THEN IsCountedAlone(new[k], cs[k], a) ELSE new[k] = cs[k]
    BY <1>5 DEF IsStep
  <2>2. cs[k] \in CacheSimType
    BY <1>6
  <2>3. CASE k \in ToSet(ks)
    <3>1. Counted(new[k], cs[k], 1)
      BY <2>1, <2>2, <2>3, AloneCounted
    <3>2. new[k].complement = cs[k].complement
      BY <2>1, <2>3 DEF IsCountedAlone, IsCounted, Onto
    <3> QED
      BY <2>3, <3>1, <3>2
  <2>4. CASE k \notin ToSet(ks)
    BY <2>1, <2>2, <2>4, SameCounted
  <2> QED
    BY <2>3, <2>4
<1>10. ASSUME NEW k \in 0 .. m - 1, IsComplement(cs[k]), NEW f \in {"aCount", "aCount_excl"}
       PROVE  Both(k, f)' - Both(k, f) = 1
  <2>1. PICK c : c = cs[k].complement /\ PairOf(reg, m, k, c)
    BY <1>1, <1>2, <1>7, <1>10, PairFacts
  <2>2. k \in 1 .. m - 1 /\ c \in 1 .. m - 1
    BY <2>1 DEF PairOf
  <2>8. IsComplement(reg.cachesims[k])
    BY <1>1, <1>2, <1>10
  <2>9. k \in ToSet(SimsIn(reg, d)) <=> c \notin ToSet(SimsIn(reg, d))
    BY <1>7, <2>1, <2>8, OneOfPair
  <2>3. k \in ToSet(ks) <=> c \notin ToSet(ks)
    BY <1>4, <2>9
  <2>4. c = g_cachesims[k].complement /\ c = g_cachesims'[k].complement
    BY <1>2, <1>3, <1>9, <2>1, <2>2
  <2>5. 0 \in Nat /\ 1 \in Nat
    OBVIOUS
  <2>6. CASE k \in ToSet(ks)
    <3>1. Counted(g_cachesims'[k], g_cachesims[k], 1) /\ Counted(g_cachesims'[c], g_cachesims[c], 0)
      BY <1>2, <1>3, <1>9, <2>2, <2>3, <2>6
    <3>2. Both(k, f)' - Both(k, f) = 1 + 0
      BY <2>4, <2>5, <3>1, PairCounted
    <3> QED
      BY <3>2
  <2>7. CASE k \notin ToSet(ks)
    <3>1. Counted(g_cachesims'[k], g_cachesims[k], 0) /\ Counted(g_cachesims'[c], g_cachesims[c], 1)
      BY <1>2, <1>3, <1>9, <2>2, <2>3, <2>7
    <3>2. Both(k, f)' - Both(k, f) = 0 + 1
      BY <2>4, <2>5, <3>1, PairCounted
    <3> QED
      BY <3>2
  <2> QED
    BY <2>6, <2>7
<1> QED
  BY <1>2, <1>6, <1>8, <1>10 DEF CountedByOne

\* Where no simulation counts, no pair does.
LEMMA IdleCountedByOne ==
  ASSUME NEW n \in Nat, NEW m \in Nat, Simulated(RegOf, g_addrMap, ds_num, n, m),
         \A k \in 0 .. m - 1 : SameStack(g_cachesims'[k], g_cachesims[k])
  PROVE  CountedByOne
<1>1. PICK reg : reg = RegOf /\ reg.cachesims = g_cachesims
  BY RegFields
<1>2. PICK cs : cs = g_cachesims
  OBVIOUS
<1>3. PICK new : new = g_cachesims'
  OBVIOUS
<1>4. DOMAIN cs = 0 .. m - 1 /\ \A k \in 0 .. m - 1 : cs[k] \in CacheSimType
  BY <1>2, SimsTyped
<1>5. Registry(reg, n, m) /\ m >= 1
  BY <1>1 DEF Simulated, Registry
<1>6. ASSUME NEW k \in 0 .. m - 1
      PROVE  /\ Counted(new[k], cs[k], 0)
             /\ new[k].complement = cs[k].complement
             /\ new[k].aCount = cs[k].aCount
  <2>1. SameStack(new[k], cs[k])
    BY <1>2, <1>3
  <2>2. /\ new[k].aCount = cs[k].aCount /\ new[k].aCount_excl = cs[k].aCount_excl
        /\ new[k].complement = cs[k].complement
    BY <2>1 DEF SameStack
  <2>3. cs[k] \in CacheSimType
    BY <1>4
  <2> QED
    BY <2>2, <2>3, SameCounted
<1>7. Accesses' - Accesses = 0
  <2>1. 0 \in 0 .. m - 1
    BY <1>5
  <2>2. new[0].aCount = cs[0].aCount /\ cs[0].aCount \in [Buckets -> Nat]
    BY <1>4, <1>6, <2>1, CountsType
  <2>3. PICK p \in Nat : p = Total(cs[0].aCount) /\ p = Total(new[0].aCount)
    BY <2>2, TotalNat
  <2>4. Accesses = p
    BY <1>2, <2>3 DEF Accesses
  <2>5. Accesses' = Total(g_cachesims'[0].aCount)
    BY DEF Accesses, Total, UpTo
  <2>6. Accesses' = p
    BY <1>3, <2>3, <2>5
  <2> QED
    BY <2>4, <2>6
<1>8. ASSUME NEW k \in 0 .. m - 1, IsComplement(cs[k]), NEW f \in {"aCount", "aCount_excl"}
      PROVE  Both(k, f)' - Both(k, f) = 0
  <2>1. PICK c : c = cs[k].complement /\ PairOf(reg, m, k, c)
    BY <1>1, <1>2, <1>5, <1>8, PairFacts
  <2>2. c \in 0 .. m - 1
    BY <2>1 DEF PairOf
  <2>3. c = g_cachesims[k].complement /\ c = g_cachesims'[k].complement
    BY <1>2, <1>3, <1>6, <2>1
  <2>4. Counted(g_cachesims'[k], g_cachesims[k], 0) /\ Counted(g_cachesims'[c], g_cachesims[c], 0)
    BY <1>2, <1>3, <1>6, <2>2
  <2>5. 0 \in Nat
    OBVIOUS
  <2>6. Both(k, f)' - Both(k, f) = 0 + 0
    BY <2>3, <2>4, <2>5, PairCounted
  <2> QED
    BY <2>6
<1> QED
  BY <1>2, <1>4, <1>7, <1>8 DEF CountedByOne

\* Every step counts as much in a pair as globally.
LEMMA NextCountedByOne == Consistent /\ [Next]_vars => [CountedByOne]_vars
<1> SUFFICES ASSUME Consistent, Next
             PROVE  CountedByOne
  OBVIOUS
<1>1. PICK n \in Nat, m \in Nat : Simulated(RegOf, g_addrMap, ds_num, n, m)
  BY DEF Consistent
<1>2. ASSUME UNCHANGED g_cachesims
      PROVE  CountedByOne
  BY <1>1, <1>2, IdleCountedByOne DEF SameStack
<1>3. ASSUME NEW t \in Threads, NEW a \in Blocks, AccessNew(t, a)
      PROVE  CountedByOne
  <2>1. PICK d \in 0 .. n - 1 : HasAccessed(a, d, m)
    BY <1>1, <1>3, AccessNewFacts
  <2> QED
    BY <1>1, <2>1, HasAccessedCountedByOne
<1>4. ASSUME NEW t \in Threads, NEW a \in Blocks, AccessSeen(t, a)
      PROVE  CountedByOne
  <2>1. PICK d \in 0 .. n - 1 : HasAccessed(a, d, m)
    BY <1>1, <1>4, AccessSeenFacts
  <2> QED
    BY <1>1, <2>1, HasAccessedCountedByOne
<1>5. ASSUME NEW ds, RegisterDatastruct(ds)
      PROVE  CountedByOne
  <2>1. \A k \in 0 .. m - 1 : SameStack(g_cachesims'[k], g_cachesims[k])
    BY <1>1, <1>5, RegistrationCounts
  <2> QED
    BY <1>1, <2>1, IdleCountedByOne
<1> QED
  BY <1>2, <1>3, <1>4, <1>5 DEF Next, Access, AccessRepeated, StartRegion, StopRegion

(***************************************************************************)
(* Each counted access is counted by a simulation or its complement, once, *)
(* whenever they were registered.                                          *)
(***************************************************************************)
THEOREM PairsConserve == Spec => PairConservation
<1>1. Consistent /\ [Next]_vars => [CountedByOne]_vars
  BY NextCountedByOne
<1> QED
  BY <1>1, ConsistentAlways, PTL DEF Spec, PairConservation

-----------------------------------------------------------------------------
\* Regions.

\* No allocation is large enough for combine() to do anything.
NoPairs == \A ds \in Allocations : ds.nbytes < CombineThreshold

CounterSet == [{"aCount", "aCount_excl"} -> [Buckets -> Int]]

\* A region with the buckets of m simulations.
RegionType(m) ==
  [count : Int, buckets : [0 .. m - 1 -> CounterSet], buckets_entry : [0 .. m - 1 -> CounterSet]]

\* g is the region r of m simulations, with room for m2.
Widened(g, r, m, m2) ==
  /\ g \in RegionType(m2)
  /\ g.count = r.count
  /\ \A k \in 0 .. m - 1 : g.buckets[k] = r.buckets[k] /\ g.buckets_entry[k] = r.buckets_entry[k]
  /\ \A k \in m .. m2 - 1 : g.buckets[k] = ZeroCounts /\ g.buckets_entry[k] = ZeroCounts

\* Zero counters are counters.
LEMMA ZeroCountsType == ZeroCounts \in CounterSet
BY DEF ZeroCounts, CounterSet

\* The fields of a region.
LEMMA RegionFields ==
  ASSUME NEW m, NEW r \in RegionType(m)
  PROVE  /\ r.count \in Int
         /\ r.buckets \in [0 .. m - 1 -> CounterSet]
         /\ r.buckets_entry \in [0 .. m - 1 -> CounterSet]
BY DEF RegionType

\* A vector of counters with room for one more simulation.
IsLonger(w, v, m) ==
  /\ w \in [0 .. (m + 1) - 1 -> CounterSet]
  /\ w[m] = ZeroCounts
  /\ \A k \in 0 .. m - 1 : w[k] = v[k]

\* push_back() of zero counters.
LEMMA PushBackIsLonger ==
  ASSUME NEW m \in Nat, NEW v \in [0 .. m - 1 -> CounterSet]
  PROVE  IsLonger(PushBack(v, ZeroCounts), v, m)
<1>1. SizeOf(v) = m
  BY VectorSize
<1>2. PICK w : w = PushBack(v, ZeroCounts)
  OBVIOUS
<1>3. w = [i \in 0 .. m |-> IF i = m THEN ZeroCounts ELSE v[i]]
  BY <1>1, <1>2 DEF PushBack
<1>4. \A i \in 0 .. m : i = m \/ i \in 0 .. m - 1
  OBVIOUS
<1>5. 0 .. m = 0 .. (m + 1) - 1 /\ m \in 0 .. m /\ \A i \in 0 .. m - 1 : i \in 0 .. m /\ i # m
  OBVIOUS
<1>6. \A i \in 0 .. m : (IF i = m THEN ZeroCounts ELSE v[i]) \in CounterSet
  BY <1>4, ZeroCountsType
<1>7. w \in [0 .. m -> CounterSet]
  BY <1>3, <1>6
<1> QED
  BY <1>2, <1>3, <1>5, <1>7 DEF IsLonger

\* register_datastruct() of a region makes room for one simulation more ...
LEMMA WidenOnce ==
  ASSUME NEW m \in Nat, NEW r \in RegionType(m)
  PROVE  Widened(RegisterDatastructInRegion(r), r, m, m + 1)
<1>1. r.buckets \in [0 .. m - 1 -> CounterSet] /\ r.buckets_entry \in [0 .. m - 1 -> CounterSet]
  BY RegionFields
<1>2. PICK b : b = PushBack(r.buckets, ZeroCounts) /\ IsLonger(b, r.buckets, m)
  BY <1>1, PushBackIsLonger
<1>3. PICK e : e = PushBack(r.buckets_entry, ZeroCounts) /\ IsLonger(e, r.buckets_entry, m)
  BY <1>1, PushBackIsLonger
<1>4. PICK g : g = RegisterDatastructInRegion(r)
  OBVIOUS
<1>5. g = [r EXCEPT !.buckets = b, !.buckets_entry = e]
  BY <1>2, <1>3, <1>4 DEF RegisterDatastructInRegion
<1>6. g \in RegionType(m + 1) /\ g.count = r.count /\ g.buckets = b /\ g.buckets_entry = e
  BY <1>2, <1>3, <1>5 DEF RegionType, IsLonger
<1>7. \A k \in m .. (m + 1) - 1 : k = m
  OBVIOUS
<1> QED
  BY <1>2, <1>3, <1>4, <1>6, <1>7 DEF Widened, IsLonger

\* ... and after two calls there is room for two.
LEMMA WidenTwice ==
  ASSUME NEW m \in Nat, NEW r, NEW g, Widened(g, r, m, m + 1), NEW h, Widened(h, g, m + 1, m + 2)
  PROVE  Widened(h, r, m, m + 2)
<1>1. \A k \in 0 .. m - 1 : k \in 0 .. (m + 1) - 1
  OBVIOUS
<1>2. \A k \in m .. (m + 2) - 1 : \/ k \in 0 .. (m + 1) - 1 /\ k \in m .. (m + 1) - 1
                                  \/ k \in m + 1 .. (m + 2) - 1
  OBVIOUS
<1>3. h \in RegionType(m + 2) /\ h.count = r.count
  BY DEF Widened
<1>4. ASSUME NEW k \in 0 .. m - 1
      PROVE  h.buckets[k] = r.buckets[k] /\ h.buckets_entry[k] = r.buckets_entry[k]
  BY <1>1 DEF Widened
<1>5. ASSUME NEW k \in m .. (m + 2) - 1
      PROVE  h.buckets[k] = ZeroCounts /\ h.buckets_entry[k] = ZeroCounts
  BY <1>2 DEF Widened
<1> QED
  BY <1>3, <1>4, <1>5 DEF Widened

\* The regions of new are those of reg, with the buckets of m2 simulations.
RegionsWidened(new, reg, m, m2) ==
  /\ DOMAIN new.cachesims = 0 .. m2 - 1
  /\ DOMAIN new.regions = DOMAIN reg.regions
  /\ \A r \in DOMAIN reg.regions : Widened(new.regions[r], reg.regions[r], m, m2)

\* GrowRegions() does it for every region.
LEMMA GrownWidens ==
  ASSUME NEW reg, NEW m \in Nat, \A r \in DOMAIN reg.regions : reg.regions[r] \in RegionType(m),
         NEW new, IsGrown(new, reg), DOMAIN reg.cachesims = 0 .. (m + 1) - 1
  PROVE  RegionsWidened(new, reg, m, m + 1)
<1>1. DOMAIN new.cachesims = 0 .. (m + 1) - 1 /\ DOMAIN new.regions = DOMAIN reg.regions
  BY DEF IsGrown
<1>2. ASSUME NEW r \in DOMAIN reg.regions
      PROVE  Widened(new.regions[r], reg.regions[r], m, m + 1)
  <2>1. new.regions[r] = RegisterDatastructInRegion(reg.regions[r])
    BY DEF IsGrown
  <2> QED
    BY <2>1, WidenOnce
<1> QED
  BY <1>1, <1>2 DEF RegionsWidened

\* Regions have room for a data structure's own simulation ...
LEMMA AloneWidens ==
  ASSUME NEW reg, NEW n \in Nat, NEW m \in Nat,
         \A r \in DOMAIN reg.regions : reg.regions[r] \in RegionType(m),
         NEW known, Sized(known, n + 1, m), known.regions = reg.regions
  PROVE  RegionsWidened(GrowRegions(AddCacheSim(known, 0, <<n>>)), reg, m, m + 1)
<1>1. PICK own : own = AddCacheSim(known, 0, <<n>>)
  OBVIOUS
<1>2. PICK new : new = GrowRegions(own)
  OBVIOUS
<1>3. n + 1 \in Nat
  OBVIOUS
<1>4. IsAdded(own, known, 0, <<n>>, n + 1, m)
  BY <1>1, <1>3, AddCacheSimEffect
<1>5. own.regions = reg.regions /\ Sized(own, n + 1, m + 1)
  BY <1>4 DEF IsAdded
<1>6. IsGrown(new, own)
  BY <1>2, <1>5, GrowRegionsEffect
<1>7. DOMAIN own.cachesims = 0 .. (m + 1) - 1
  BY <1>5 DEF Sized
<1>8. RegionsWidened(new, own, m, m + 1)
  BY <1>5, <1>6, <1>7, GrownWidens
<1> QED
  BY <1>1, <1>2, <1>5, <1>8 DEF RegionsWidened

\* ... for its complement ...
LEMMA RestWidens ==
  ASSUME NEW reg, NEW n \in Nat, NEW m \in Nat, NEW alone, Sized(alone, n + 1, m + 1),
         RegionsWidened(alone, reg, m, m + 1), NEW c
  PROVE  RegionsWidened(GrowRegions(AddCacheSim(JoinComplements(alone, n), c, Earlier(n))),
                        reg, m, m + 2)
<1>1. PICK join : join = JoinComplements(alone, n)
  OBVIOUS
<1>2. PICK compl : compl = AddCacheSim(join, c, Earlier(n))
  OBVIOUS
<1>3. PICK new : new = GrowRegions(compl)
  OBVIOUS
<1>4. n + 1 \in Nat /\ m + 1 \in Nat /\ n \in 0 .. (n + 1) - 1 /\ (m + 1) + 1 = m + 2
  OBVIOUS
<1>5. IsJoined(join, alone, n, n + 1, m + 1)
  BY <1>1, <1>4, JoinComplementsEffect
<1>6. Sized(join, n + 1, m + 1) /\ join.regions = alone.regions
  BY <1>5 DEF IsJoined
<1>7. IsAdded(compl, join, c, Earlier(n), n + 1, m + 1)
  BY <1>2, <1>4, <1>6, AddCacheSimEffect
<1>8. Sized(compl, n + 1, m + 2) /\ compl.regions = alone.regions
  BY <1>4, <1>6, <1>7 DEF IsAdded
<1>9. IsGrown(new, compl)
  BY <1>3, <1>8, GrowRegionsEffect
<1>10. \A r \in DOMAIN compl.regions : compl.regions[r] \in RegionType(m + 1)
  BY <1>8 DEF RegionsWidened, Widened
<1>11. DOMAIN compl.cachesims = 0 .. ((m + 1) + 1) - 1
  BY <1>4, <1>8 DEF Sized
<1>12. RegionsWidened(new, compl, m + 1, (m + 1) + 1)
  BY <1>4, <1>9, <1>10, <1>11, GrownWidens
<1>13. ASSUME NEW r \in DOMAIN reg.regions
       PROVE  Widened(new.regions[r], reg.regions[r], m, m + 2)
  <2>1. Widened(alone.regions[r], reg.regions[r], m, m + 1)
    BY DEF RegionsWidened
  <2>2. Widened(new.regions[r], alone.regions[r], m + 1, m + 2)
    BY <1>4, <1>8, <1>12 DEF RegionsWidened
  <2> QED
    BY <2>1, <2>2, WidenTwice
<1> QED
  BY <1>1, <1>2, <1>3, <1>4, <1>8, <1>12, <1>13 DEF RegionsWidened

\* ... and so for all of them when combine() adds none.
LEMMA RegisteredWidens ==
  ASSUME NEW reg, NEW n \in Nat, NEW m \in Nat, Registrable(reg, n, m), NEW ds,
         n # 0 => ds.nbytes \in Nat /\ ds.nbytes < CombineThreshold,
         \A r \in DOMAIN reg.regions : reg.regions[r] \in RegionType(m)
  PROVE  \E m2 \in Nat : m <= m2 /\ RegionsWidened(Registered(reg, ds), reg, m, m2)
<1>1. PICK known :
        known = [reg EXCEPT !.datastructs = PushBack(@, ds), !.indices_of = PushBack(@, << >>)]
  OBVIOUS
<1>2. PICK alone : alone = GrowRegions(AddCacheSim(known, 0, <<n>>))
  OBVIOUS
<1>3. PICK rest : rest = GrowRegions(AddCacheSim(JoinComplements(alone, n), m, Earlier(n)))
  OBVIOUS
<1>4. Sized(reg, n, m) /\ Linked(reg, n, m)
  BY DEF Registrable, Linked
<1>5. SizeOf(reg.datastructs) = n /\ SizeOf(reg.cachesims) = m
  BY <1>4, VectorSize DEF Sized
<1>6. Registered(reg, ds) = IF n = RD_NO_DATASTRUCT THEN alone ELSE Combine(rest, n)
  BY <1>1, <1>2, <1>3, <1>5 DEF Registered
<1>7. IsKnown(known, reg, ds, n, m)
  BY <1>1, <1>4, KnownEffect
<1>8. IsAlone(alone, reg, ds, n, m)
  BY <1>2, <1>7, AloneFacts
<1>9. RegionsWidened(alone, reg, m, m + 1)
  BY <1>2, <1>7, AloneWidens DEF IsKnown
<1>10. RegionsWidened(rest, reg, m, m + 2)
  BY <1>3, <1>8, <1>9, RestWidens DEF IsAlone, Linked
<1>11. CASE n = 0
  BY <1>6, <1>9, <1>11 DEF RD_NO_DATASTRUCT
<1>12. CASE n # 0
  <2>1. n >= 1
    BY <1>12
  <2>2. rest.datastructs[n] = ds
    BY <1>3, <1>4, <1>8, <2>1, RestFacts
  <2>3. ~Large(rest, n)
    BY <1>12, <2>2, BlocksAssumption DEF Large
  <2>4. Registered(reg, ds) = rest
    BY <1>6, <1>12, <2>3 DEF Combine, RD_NO_DATASTRUCT
  <2> QED
    BY <1>10, <2>4
<1> QED
  BY <1>11, <1>12

\* The arithmetic of an unsigned counter that goes up and down by one.
LEMMA UnsignedFacts ==
  /\ \A x \in 0 .. UnsignedRange - 1 : x % UnsignedRange = x
  /\ UnsignedRange % UnsignedRange = 0
  /\ (-1) % UnsignedRange = UnsignedRange - 1
<1>1. PICK U \in Nat : U = UnsignedRange /\ U >= 2
  BY UnsignedRangeAssumption
<1>2. ASSUME NEW x \in 0 .. U - 1
      PROVE  x % U = x
  BY <1>1, SMTT(30)
<1>3. U % U = 0
  BY <1>1, SMTT(30)
<1>4. (-1) % U = U - 1
  BY <1>1, SMTT(30)
<1> QED
  BY <1>1, <1>2, <1>3, <1>4

\* Bucket::add_sub: adding and subtracting the same, and two differences in a row.
LEMMA AddSubFacts ==
  ASSUME NEW acc \in CounterSet, NEW x \in CounterSet, NEW y \in CounterSet, NEW z \in CounterSet
  PROVE  /\ AddSub(acc, x, y) \in CounterSet
         /\ AddSub(acc, x, x) = acc
         /\ AddSub(AddSub(acc, x, z), y, x) = AddSub(acc, y, z)
<1>1. PICK F : F = {"aCount", "aCount_excl"}
  OBVIOUS
<1>2. CounterSet = [F -> [Buckets -> Int]]
  BY <1>1 DEF CounterSet
<1>3. \A u, v \in CounterSet :
        AddSub(acc, u, v) = [f \in F |-> [b \in Buckets |-> acc[f][b] + (u[f][b] - v[f][b])]]
  BY <1>2 DEF AddSub
<1>4. \A u, v \in CounterSet, f \in F, b \in Buckets : acc[f][b] + (u[f][b] - v[f][b]) \in Int
  BY <1>2
<1>5. \A u, v \in CounterSet : AddSub(acc, u, v) \in CounterSet
  BY <1>2, <1>3, <1>4
<1>6. AddSub(acc, x, x) = acc
  <2>1. \A f \in F, b \in Buckets : acc[f][b] + (x[f][b] - x[f][b]) = acc[f][b]
    BY <1>2
  <2>3. AddSub(acc, x, x) = [f \in F |-> [b \in Buckets |-> acc[f][b] + (x[f][b] - x[f][b])]]
    BY <1>3
  <2>2. \A f \in F : AddSub(acc, x, x)[f] = acc[f]
    <3>1. ASSUME NEW f \in F
          PROVE  AddSub(acc, x, x)[f] = acc[f]
      <4>1. AddSub(acc, x, x)[f] = [b \in Buckets |-> acc[f][b] + (x[f][b] - x[f][b])]
        BY <2>3
      <4>2. acc[f] \in [Buckets -> Int]
        BY <1>2
      <4> QED
        BY <2>1, <4>1, <4>2
    <3> QED
      BY <3>1
  <2> QED
    BY <1>2, <1>5, <2>2
<1>7. AddSub(AddSub(acc, x, z), y, x) = AddSub(acc, y, z)
  <2>1. PICK s : s = AddSub(acc, x, z) /\ s \in CounterSet
    BY <1>5
  <2>2. AddSub(s, y, x) = [f \in F |-> [b \in Buckets |-> s[f][b] + (y[f][b] - x[f][b])]]
    BY <1>2, <2>1 DEF AddSub
  <2>3. AddSub(acc, y, z) = [f \in F |-> [b \in Buckets |-> acc[f][b] + (y[f][b] - z[f][b])]]
    BY <1>3
  <2>4. ASSUME NEW f \in F, NEW b \in Buckets
        PROVE  s[f][b] + (y[f][b] - x[f][b]) = acc[f][b] + (y[f][b] - z[f][b])
    <3>1. s[f][b] = acc[f][b] + (x[f][b] - z[f][b])
      BY <1>3, <2>1
    <3>2. acc[f][b] \in Int /\ x[f][b] \in Int /\ y[f][b] \in Int /\ z[f][b] \in Int
      BY <1>2
    <3> QED
      BY <3>1, <3>2
  <2> QED
    BY <2>1, <2>2, <2>3, <2>4
<1> QED
  BY <1>5, <1>6, <1>7

\* The counters of a simulation are counters of a region.
LEMMA CountsInSet ==
  ASSUME NEW s \in CacheSimType
  PROVE  Counts(s) \in CounterSet
<1>1. s.aCount \in [Buckets -> Nat] /\ s.aCount_excl \in [Buckets -> Nat]
  BY CountsType
<1>2. s.aCount \in [Buckets -> Int] /\ s.aCount_excl \in [Buckets -> Int]
  BY <1>1
<1> QED
  BY <1>2 DEF Counts, CounterSet

\* What the history says was counted by simulation k.
Spent(d, k) == IF k \in DOMAIN d THEN d[k] ELSE ZeroCounts

(***************************************************************************)
(* What RegionAccounting says of one region, with the types and the value  *)
(* of count_ it rests on: o is open[r], d during[r], cs the simulations.   *)
(***************************************************************************)
Accounts(region, o, d, cs, m) ==
  /\ region \in RegionType(m)
  /\ o \in -MaxNesting .. MaxNesting
  /\ region.count = IF o >= 0 THEN o ELSE o + UnsignedRange
  /\ DOMAIN d \subseteq 0 .. m - 1
  /\ \A k \in DOMAIN d : d[k] \in CounterSet
  /\ \A k \in 0 .. m - 1 :
       Spent(d, k) = IF o > 0
                     THEN AddSub(region.buckets[k], Counts(cs[k]), region.buckets_entry[k])
                     ELSE region.buckets[k]

SimsTypedAs(cs, m) == DOMAIN cs = 0 .. m - 1 /\ \A k \in 0 .. m - 1 : cs[k] \in CacheSimType

\* The buckets of a region are counters.
LEMMA RegionCounters ==
  ASSUME NEW m, NEW region \in RegionType(m), NEW k \in 0 .. m - 1
  PROVE  region.buckets[k] \in CounterSet /\ region.buckets_entry[k] \in CounterSet
BY RegionFields

\* A new region accounts for nothing.
LEMMA NewRegionAccounts ==
  ASSUME NEW m \in Nat, NEW cs, SimsTypedAs(cs, m)
  PROVE  Accounts(NewRegion(cs), 0, EmptyVector, cs, m)
<1>1. NewRegion(cs) \in RegionType(m)
  BY ZeroCountsType DEF NewRegion, RegionType, SimsTypedAs
<1>2. NewRegion(cs).count = 0 /\ \A k \in 0 .. m - 1 : NewRegion(cs).buckets[k] = ZeroCounts
  BY DEF NewRegion, SimsTypedAs
<1>3. DOMAIN EmptyVector = {}
  BY DEF EmptyVector
<1>4. 0 \in -MaxNesting .. MaxNesting
  BY BoundsAssumption
<1> QED
  BY <1>1, <1>2, <1>3, <1>4 DEF Accounts, Spent

\* An access that is counted.
LEMMA RecordAccounts ==
  ASSUME NEW m \in Nat, NEW cs, SimsTypedAs(cs, m), NEW new, SimsTypedAs(new, m),
         NEW region, NEW o, NEW d, Accounts(region, o, d, cs, m),
         NEW e, e = IF ~(o > 0) THEN d
                    ELSE [k \in DOMAIN new |-> AddSub(Spent(d, k), Counts(new[k]), Counts(cs[k]))]
  PROVE  Accounts(region, o, e, new, m)
<1>1. CASE ~(o > 0)
  BY <1>1 DEF Accounts
<1>2. CASE o > 0
  <2>1. e = [k \in 0 .. m - 1 |-> AddSub(Spent(d, k), Counts(new[k]), Counts(cs[k]))]
    BY <1>2 DEF SimsTypedAs
  <2>2. ASSUME NEW k \in 0 .. m - 1
        PROVE  /\ e[k] \in CounterSet
               /\ e[k] = AddSub(region.buckets[k], Counts(new[k]), region.buckets_entry[k])
    <3>1. PICK a \in CounterSet : a = region.buckets[k]
      BY RegionCounters DEF Accounts
    <3>2. PICK z \in CounterSet : z = region.buckets_entry[k]
      BY RegionCounters DEF Accounts
    <3>3. PICK x \in CounterSet : x = Counts(cs[k])
      BY CountsInSet DEF SimsTypedAs
    <3>4. PICK y \in CounterSet : y = Counts(new[k])
      BY CountsInSet DEF SimsTypedAs
    <3>5. Spent(d, k) = AddSub(a, x, z)
      BY <1>2, <3>1, <3>2, <3>3 DEF Accounts
    <3>6. e[k] = AddSub(AddSub(a, x, z), y, x)
      BY <2>1, <3>3, <3>4, <3>5
    <3>7. e[k] = AddSub(a, y, z)
      BY <3>6, AddSubFacts
    <3>8. AddSub(a, y, z) \in CounterSet
      BY AddSubFacts
    <3> QED
      BY <3>1, <3>2, <3>4, <3>7, <3>8
  <2>3. DOMAIN e = 0 .. m - 1
    BY <2>1
  <2>4. \A k \in 0 .. m - 1 : Spent(e, k) = e[k]
    BY <2>3 DEF Spent
  <2> QED
    BY <1>2, <2>2, <2>3, <2>4 DEF Accounts
<1> QED
  BY <1>1, <1>2

\* A start.

\* count_ after a start, as unsigned arithmetic has it ...
LEMMA EntryCountFacts ==
  ASSUME NEW o \in -MaxNesting .. MaxNesting, o < MaxNesting
  PROVE  ((IF o >= 0 THEN o ELSE o + UnsignedRange) + 1) % UnsignedRange
           = IF o + 1 >= 0 THEN o + 1 ELSE (o + 1) + UnsignedRange
<1>1. PICK U \in Nat : U = UnsignedRange /\ U >= 2
  BY UnsignedRangeAssumption
<1>2. MaxNesting \in Nat /\ MaxNesting < U
  BY <1>1, BoundsAssumption
<1>3. o \in Int /\ o < MaxNesting /\ -MaxNesting <= o
  BY <1>2
<1>4. CASE o >= 0
  <2>1. o + 1 \in 0 .. U - 1
    BY <1>2, <1>3, <1>4
  <2>2. (o + 1) % UnsignedRange = o + 1
    BY <1>1, <2>1, UnsignedFacts
  <2>3. o + 1 >= 0
    BY <1>4, <1>3
  <2> QED
    BY <1>4, <2>2, <2>3
<1>5. CASE o < -1
  <2>1. (o + U) + 1 \in 0 .. U - 1 /\ ~(o >= 0) /\ ~(o + 1 >= 0) /\ (o + U) + 1 = (o + 1) + U
    BY <1>1, <1>2, <1>3, <1>5
  <2>2. ((o + U) + 1) % UnsignedRange = (o + U) + 1
    BY <1>1, <2>1, UnsignedFacts
  <2> QED
    BY <1>1, <2>1, <2>2
<1>6. CASE o = -1
  <2>1. (o + U) + 1 = U /\ ~(o >= 0) /\ o + 1 = 0
    BY <1>1, <1>6
  <2> QED
    BY <1>1, <2>1, UnsignedFacts
<1> QED
  BY <1>3, <1>4, <1>5, <1>6

\* ... and after a stop.
LEMMA ExitCountFacts ==
  ASSUME NEW o \in -MaxNesting .. MaxNesting, o > -MaxNesting
  PROVE  ((IF o >= 0 THEN o ELSE o + UnsignedRange) - 1) % UnsignedRange
           = IF o - 1 >= 0 THEN o - 1 ELSE (o - 1) + UnsignedRange
<1>1. PICK U \in Nat : U = UnsignedRange /\ U >= 2
  BY UnsignedRangeAssumption
<1>2. MaxNesting \in Nat /\ MaxNesting < U
  BY <1>1, BoundsAssumption
<1>3. o \in Int /\ o <= MaxNesting /\ -MaxNesting < o
  BY <1>2
<1>4. CASE o >= 1
  <2>1. o - 1 \in 0 .. U - 1 /\ o >= 0 /\ o - 1 >= 0
    BY <1>2, <1>3, <1>4
  <2>2. (o - 1) % UnsignedRange = o - 1
    BY <1>1, <2>1, UnsignedFacts
  <2> QED
    BY <2>1, <2>2
<1>5. CASE o < 0
  <2>1. (o + U) - 1 \in 0 .. U - 1 /\ ~(o >= 0) /\ ~(o - 1 >= 0) /\ (o + U) - 1 = (o - 1) + U
    BY <1>1, <1>2, <1>3, <1>5
  <2>2. ((o + U) - 1) % UnsignedRange = (o + U) - 1
    BY <1>1, <2>1, UnsignedFacts
  <2> QED
    BY <1>1, <2>1, <2>2
<1>6. CASE o = 0
  <2>1. o - 1 = -1 /\ o >= 0 /\ ~(o - 1 >= 0) /\ U - 1 = (o - 1) + U
    BY <1>1, <1>6
  <2> QED
    BY <1>1, <2>1, UnsignedFacts
<1> QED
  BY <1>3, <1>4, <1>5, <1>6

\* A start: the snapshot is taken if and only if the region becomes open.
LEMMA EntryAccounts ==
  ASSUME NEW m \in Nat, NEW cs, SimsTypedAs(cs, m),
         NEW region, NEW o, NEW d, Accounts(region, o, d, cs, m), o < MaxNesting
  PROVE  Accounts(OnRegionEntry(region, cs), o + 1, d, cs, m)
<1>1. PICK c : c = IF o + 1 >= 0 THEN o + 1 ELSE (o + 1) + UnsignedRange
  OBVIOUS
<1>2. (region.count + 1) % UnsignedRange = c
  BY <1>1, EntryCountFacts DEF Accounts
<1>3. MaxNesting \in Nat /\ UnsignedRange \in Nat /\ MaxNesting < UnsignedRange
  BY BoundsAssumption, UnsignedRangeAssumption
<1>4. o \in Int /\ o + 1 \in -MaxNesting .. MaxNesting /\ c \in Int
  BY <1>1, <1>3 DEF Accounts
<1>5. PICK g : g = OnRegionEntry(region, cs)
  OBVIOUS
<1>6. /\ region \in RegionType(m) /\ DOMAIN region.buckets_entry = 0 .. m - 1
      /\ region.buckets \in [0 .. m - 1 -> CounterSet]
      /\ region.buckets_entry \in [0 .. m - 1 -> CounterSet]
  BY RegionFields DEF Accounts
<1>7. PICK snapshot : snapshot = [k \in 0 .. m - 1 |-> Counts(cs[k])]
  OBVIOUS
<1>8. snapshot \in [0 .. m - 1 -> CounterSet]
  BY <1>7, CountsInSet DEF SimsTypedAs
<1>9. CASE c > 1
  <2>1. g = [region EXCEPT !.count = c]
    BY <1>2, <1>5, <1>9 DEF OnRegionEntry
  <2>2. /\ g \in RegionType(m) /\ g.count = c
        /\ g.buckets = region.buckets /\ g.buckets_entry = region.buckets_entry
    BY <1>4, <1>6, <2>1 DEF RegionType
  <2>3. o > 0 \/ ~(o + 1 > 0)
    BY <1>1, <1>4, <1>9
  <2>4. o > 0 => o + 1 > 0
    BY <1>4
  <2>5. ~(o + 1 > 0) => ~(o > 0)
    BY <1>4
  <2> QED
    BY <1>1, <1>4, <1>5, <2>2, <2>3, <2>4, <2>5 DEF Accounts
<1>10. CASE ~(c > 1)
  <2>1. g = [region EXCEPT !.count = c, !.buckets_entry = snapshot]
    BY <1>2, <1>5, <1>6, <1>7, <1>10 DEF OnRegionEntry
  <2>2. /\ g \in RegionType(m) /\ g.count = c
        /\ g.buckets = region.buckets /\ g.buckets_entry = snapshot
    BY <1>4, <1>6, <1>8, <2>1 DEF RegionType
  <2>3. ~(o > 0)
    BY <1>1, <1>3, <1>4, <1>10 DEF Accounts
  <2>4. ASSUME NEW k \in 0 .. m - 1
        PROVE  Spent(d, k) = IF o + 1 > 0
                             THEN AddSub(g.buckets[k], Counts(cs[k]), g.buckets_entry[k])
                             ELSE g.buckets[k]
    <3>1. PICK a \in CounterSet : a = region.buckets[k]
      BY <1>6
    <3>2. PICK x \in CounterSet : x = Counts(cs[k])
      BY CountsInSet DEF SimsTypedAs
    <3>3. Spent(d, k) = a
      BY <2>3, <3>1 DEF Accounts
    <3>4. g.buckets[k] = a /\ g.buckets_entry[k] = x
      BY <1>7, <2>2, <3>1, <3>2
    <3>5. AddSub(a, x, x) = a
      BY AddSubFacts
    <3> QED
      BY <3>2, <3>3, <3>4, <3>5
  <2> QED
    BY <1>1, <1>4, <1>5, <2>2, <2>4 DEF Accounts
<1> QED
  BY <1>9, <1>10

\* A stop.
LEMMA ExitAccounts ==
  ASSUME NEW m \in Nat, NEW cs, SimsTypedAs(cs, m),
         NEW region, NEW o, NEW d, Accounts(region, o, d, cs, m), o > -MaxNesting
  PROVE  Accounts(OnRegionExit(region, cs), o - 1, d, cs, m)
<1>1. PICK c : c = IF o - 1 >= 0 THEN o - 1 ELSE (o - 1) + UnsignedRange
  OBVIOUS
<1>2. (region.count - 1) % UnsignedRange = c
  BY <1>1, ExitCountFacts DEF Accounts
<1>3. MaxNesting \in Nat /\ UnsignedRange \in Nat /\ MaxNesting < UnsignedRange
  BY BoundsAssumption, UnsignedRangeAssumption
<1>4. o \in Int /\ o - 1 \in -MaxNesting .. MaxNesting /\ c \in Int
  BY <1>1, <1>3 DEF Accounts
<1>5. PICK g : g = OnRegionExit(region, cs)
  OBVIOUS
<1>6. /\ region \in RegionType(m) /\ DOMAIN region.buckets = 0 .. m - 1
      /\ region.buckets \in [0 .. m - 1 -> CounterSet]
      /\ region.buckets_entry \in [0 .. m - 1 -> CounterSet]
  BY RegionFields DEF Accounts
<1>7. PICK total :
        total = [k \in 0 .. m - 1 |->
                   AddSub(region.buckets[k], Counts(cs[k]), region.buckets_entry[k])]
  OBVIOUS
<1>8. total \in [0 .. m - 1 -> CounterSet]
  <2>1. ASSUME NEW k \in 0 .. m - 1
        PROVE  AddSub(region.buckets[k], Counts(cs[k]), region.buckets_entry[k]) \in CounterSet
    <3>1. /\ region.buckets[k] \in CounterSet /\ region.buckets_entry[k] \in CounterSet
          /\ Counts(cs[k]) \in CounterSet
      BY <1>6, CountsInSet DEF SimsTypedAs
    <3> QED
      BY <3>1, AddSubFacts
  <2> QED
    BY <1>7, <2>1
<1>9. CASE c > 0
  <2>1. g = [region EXCEPT !.count = c]
    BY <1>2, <1>5, <1>9 DEF OnRegionExit
  <2>2. /\ g \in RegionType(m) /\ g.count = c
        /\ g.buckets = region.buckets /\ g.buckets_entry = region.buckets_entry
    BY <1>4, <1>6, <2>1 DEF RegionType
  <2>3. o > 0 <=> o - 1 > 0
    BY <1>1, <1>4, <1>9
  <2> QED
    BY <1>1, <1>4, <1>5, <2>2, <2>3 DEF Accounts
<1>10. CASE ~(c > 0)
  <2>1. g = [region EXCEPT !.count = c, !.buckets = total]
    BY <1>2, <1>5, <1>6, <1>7, <1>10 DEF OnRegionExit
  <2>2. g \in RegionType(m) /\ g.count = c /\ g.buckets = total
    BY <1>4, <1>6, <1>8, <2>1 DEF RegionType
  <2>3. o = 1 /\ ~(o - 1 > 0)
    BY <1>1, <1>3, <1>4, <1>10 DEF Accounts
  <2>4. \A k \in 0 .. m - 1 : Spent(d, k) = g.buckets[k]
    BY <1>7, <2>2, <2>3 DEF Accounts
  <2> QED
    BY <1>1, <1>4, <1>5, <2>2, <2>3, <2>4 DEF Accounts
<1> QED
  BY <1>9, <1>10

\* A registration: new simulations have counted nothing, inside and outside of regions.
LEMMA RegistrationAccounts ==
  ASSUME NEW m \in Nat, NEW m2 \in Nat, m <= m2, NEW cs, NEW new,
         \A k \in 0 .. m - 1 : SameStack(new[k], cs[k]),
         \A k \in m .. m2 - 1 : Counts(new[k]) = ZeroCounts,
         NEW region, NEW o, NEW d, Accounts(region, o, d, cs, m),
         NEW g, Widened(g, region, m, m2)
  PROVE  Accounts(g, o, d, new, m2)
<1>1. \A k \in 0 .. m - 1 : k \in 0 .. m2 - 1
  OBVIOUS
<1>2. \A k \in 0 .. m2 - 1 : k \in 0 .. m - 1 \/ k \in m .. m2 - 1
  OBVIOUS
<1>3. ASSUME NEW k \in 0 .. m - 1
      PROVE  Spent(d, k) = IF o > 0
                           THEN AddSub(g.buckets[k], Counts(new[k]), g.buckets_entry[k])
                           ELSE g.buckets[k]
  <2>1. Counts(new[k]) = Counts(cs[k])
    BY DEF SameStack, Counts
  <2>2. g.buckets[k] = region.buckets[k] /\ g.buckets_entry[k] = region.buckets_entry[k]
    BY DEF Widened
  <2> QED
    BY <2>1, <2>2 DEF Accounts
<1>4. ASSUME NEW k \in m .. m2 - 1
      PROVE  Spent(d, k) = IF o > 0
                           THEN AddSub(g.buckets[k], Counts(new[k]), g.buckets_entry[k])
                           ELSE g.buckets[k]
  <2>1. g.buckets[k] = ZeroCounts /\ g.buckets_entry[k] = ZeroCounts /\ Counts(new[k]) = ZeroCounts
    BY DEF Widened
  <2>2. Spent(d, k) = ZeroCounts
    <3>1. k \notin 0 .. m - 1
      OBVIOUS
    <3>2. DOMAIN d \subseteq 0 .. m - 1
      BY DEF Accounts
    <3> QED
      BY <3>1, <3>2 DEF Spent
  <2>3. AddSub(ZeroCounts, ZeroCounts, ZeroCounts) = ZeroCounts
    BY ZeroCountsType, AddSubFacts
  <2> QED
    BY <2>1, <2>2, <2>3
<1>5. DOMAIN d \subseteq 0 .. m2 - 1
  BY <1>1 DEF Accounts
<1> QED
  BY <1>2, <1>3, <1>4, <1>5 DEF Accounts, Widened

\* Only the counts of the simulations matter.
LEMMA IdleAccounts ==
  ASSUME NEW m, NEW cs, NEW new, \A k \in 0 .. m - 1 : Counts(new[k]) = Counts(cs[k]),
         NEW region, NEW o, NEW d, Accounts(region, o, d, cs, m)
  PROVE  Accounts(region, o, d, new, m)
BY DEF Accounts

(***************************************************************************)
(* The inductive invariant of the regions, beside Consistent and Others.   *)
(***************************************************************************)
Regional ==
  \E m \in Nat :
    /\ DOMAIN g_cachesims = 0 .. m - 1
    /\ \A r \in DOMAIN g_regions : Accounts(g_regions[r], open[r], during[r], g_cachesims, m)

\* What a registration does to regions and counts, when there are no pairs.
LEMMA RegistrationRegions ==
  ASSUME NoPairs, NEW n \in Nat, NEW m \in Nat, Simulated(RegOf, g_addrMap, ds_num, n, m),
         \A r \in DOMAIN g_regions : g_regions[r] \in RegionType(m),
         NEW ds \in Allocations, RegisterDatastruct(ds)
  PROVE  \E m2 \in Nat :
           /\ m <= m2 /\ DOMAIN g_cachesims' = 0 .. m2 - 1
           /\ DOMAIN g_regions' = DOMAIN g_regions
           /\ \A r \in DOMAIN g_regions : Widened(g_regions'[r], g_regions[r], m, m2)
           /\ \A k \in 0 .. m - 1 : SameStack(g_cachesims'[k], g_cachesims[k])
           /\ \A k \in m .. m2 - 1 : Counts(g_cachesims'[k]) = ZeroCounts
<1>1. PICK reg : reg = RegOf
  OBVIOUS
<1>2. PICK new : new = Registered(reg, ds)
  OBVIOUS
<1>3. Registrable(reg, n, m)
  BY <1>1 DEF Simulated, Registry, Registrable
<1>4. HasRegistered(new, reg, ds, n, m)
  BY <1>2, <1>3, RegisteredFacts
<1>5. PICK m2 \in Nat : Registry(new, n + 1, m2) /\ Continues(new, reg, n, m, m2)
  BY <1>4 DEF HasRegistered
<1>6. reg.cachesims = g_cachesims /\ reg.regions = g_regions
  BY <1>1, RegFields
<1>7. g_cachesims' = new.cachesims /\ g_regions' = new.regions
  BY <1>1, <1>2 DEF RegisterDatastruct, RegOf
<1>8. ds.nbytes \in Nat /\ ds.nbytes < CombineThreshold
  BY BlocksAssumption DEF NoPairs
<1>9. PICK m3 \in Nat : m <= m3 /\ RegionsWidened(new, reg, m, m3)
  BY <1>2, <1>3, <1>6, <1>8, RegisteredWidens
<1>10. m3 = m2
  <2>1. DOMAIN new.cachesims = 0 .. m2 - 1
    BY <1>5 DEF Registry, Linked, Sized
  <2>2. 0 .. m2 - 1 = 0 .. m3 - 1
    BY <1>9, <2>1 DEF RegionsWidened
  <2>3. m2 \notin 0 .. m2 - 1 /\ m3 \notin 0 .. m3 - 1
    OBVIOUS
  <2> QED
    BY <2>2, <2>3
<1>11. ASSUME NEW k \in m .. m2 - 1
       PROVE  Counts(new.cachesims[k]) = ZeroCounts
  <2>1. PICK c : SameStack(new.cachesims[k], NewCacheSim(c))
    BY <1>5 DEF Continues
  <2> QED
    BY <2>1 DEF SameStack, NewCacheSim, Counts, ZeroCounts
<1>12. \A k \in 0 .. m - 1 : SameStack(new.cachesims[k], reg.cachesims[k])
  BY <1>5 DEF Continues
<1>13. /\ DOMAIN new.cachesims = 0 .. m2 - 1 /\ DOMAIN new.regions = DOMAIN reg.regions
       /\ \A r \in DOMAIN reg.regions : Widened(new.regions[r], reg.regions[r], m, m2)
  BY <1>9, <1>10 DEF RegionsWidened
<1> QED
  BY <1>6, <1>7, <1>9, <1>10, <1>11, <1>12, <1>13

\* At first there are no regions.
LEMMA InitRegional == Init => Regional
<1> SUFFICES ASSUME Init PROVE Regional
  OBVIOUS
<1>1. PICK m \in Nat : DOMAIN g_cachesims = 0 .. m - 1
  BY InitConsistent, ConsistentSizes
<1>2. DOMAIN g_regions = {}
  BY InitOthers DEF Others, Init, EmptyVector
<1> QED
  BY <1>1, <1>2 DEF Regional

\* An access that is counted.
LEMMA RecordRegional ==
  ASSUME NEW m \in Nat, NEW cs, cs = g_cachesims, SimsTypedAs(cs, m),
         NEW new, new = g_cachesims', SimsTypedAs(new, m), Others,
         \A r \in DOMAIN g_regions : Accounts(g_regions[r], open[r], during[r], cs, m),
         RecordDuring, UNCHANGED <<g_regions, open>>
  PROVE  Regional'
<1>1. ASSUME NEW r \in DOMAIN g_regions
      PROVE  Accounts(g_regions'[r], open'[r], during'[r], new, m)
  <2>1. PICK o : o = open[r]
    OBVIOUS
  <2>2. PICK d : d = during[r]
    OBVIOUS
  <2>3. PICK e : e = during'[r]
    OBVIOUS
  <2>4. r \in DOMAIN during
    BY DEF Others
  <2>5. e = IF ~(o > 0) THEN d
            ELSE [k \in DOMAIN new |-> AddSub(Spent(d, k), Counts(new[k]), Counts(cs[k]))]
    BY <2>1, <2>2, <2>3, <2>4 DEF RecordDuring, IsOpen, Spent
  <2>6. PICK g : g = g_regions[r] /\ Accounts(g, o, d, cs, m)
    BY <2>1, <2>2
  <2>7. Accounts(g, o, e, new, m)
    BY <2>5, <2>6, RecordAccounts
  <2> QED
    BY <2>1, <2>3, <2>6, <2>7
<1>2. DOMAIN g_cachesims' = 0 .. m - 1
  BY DEF SimsTypedAs
<1>3. DOMAIN g_regions' = DOMAIN g_regions
  OBVIOUS
<1> QED
  BY <1>1, <1>2, <1>3 DEF Regional

\* A counted access leaves as many simulations, of the same type.
LEMMA HasAccessedSims ==
  ASSUME NEW n \in Nat, NEW m \in Nat, Simulated(RegOf, g_addrMap, ds_num, n, m),
         NEW a \in Blocks, NEW d \in 0 .. n - 1, HasAccessed(a, d, m)
  PROVE  SimsTypedAs(g_cachesims', m)
<1>1. Simulated(RegOf', g_addrMap', ds_num', n, m)
  BY HasAccessedConsistent
<1>2. RegOf'.cachesims = g_cachesims'
  BY DEF RegOf
<1> QED
  BY <1>1, <1>2 DEF Simulated, Registry, Linked, Sized, SimsTypedAs

\* Regions stay accounted for when one is started ...
LEMMA StartRegional ==
  ASSUME NEW m \in Nat, NEW cs, cs = g_cachesims, SimsTypedAs(cs, m), Others,
         \A r \in DOMAIN g_regions : Accounts(g_regions[r], open[r], during[r], cs, m),
         NEW r \in RegionNames, StartRegion(r)
  PROVE  Regional'
<1>1. PICK region : region = IF r \in DOMAIN g_regions THEN g_regions[r] ELSE NewRegion(cs)
  OBVIOUS
<1>2. PICK o : o = IF r \in DOMAIN g_regions THEN open[r] ELSE 0
  OBVIOUS
<1>3. PICK d : d = IF r \in DOMAIN g_regions THEN during[r] ELSE EmptyVector
  OBVIOUS
<1>4. Accounts(region, o, d, cs, m)
  <2>1. CASE r \in DOMAIN g_regions
    BY <1>1, <1>2, <1>3, <2>1
  <2>2. CASE r \notin DOMAIN g_regions
    BY <1>1, <1>2, <1>3, <2>2, NewRegionAccounts
  <2> QED
    BY <2>1, <2>2
<1>5. o < MaxNesting
  BY <1>2 DEF StartRegion
<1>6. Accounts(OnRegionEntry(region, cs), o + 1, d, cs, m)
  BY <1>4, <1>5, EntryAccounts
<1>7. /\ g_regions' = Mapped(g_regions, r, OnRegionEntry(region, cs))
      /\ open' = Mapped(open, r, o + 1)
  BY <1>1, <1>2 DEF StartRegion
<1>8. during' = IF r \in DOMAIN g_regions THEN during ELSE Mapped(during, r, EmptyVector)
  BY DEF StartRegion
<1>9. DOMAIN g_regions' = DOMAIN g_regions \cup {r}
  BY <1>7 DEF Mapped
<1>10. g_regions'[r] = OnRegionEntry(region, cs) /\ open'[r] = o + 1 /\ during'[r] = d
  <2>1. g_regions'[r] = OnRegionEntry(region, cs) /\ open'[r] = o + 1
    BY <1>7 DEF Mapped
  <2>2. during'[r] = d
    <3>1. CASE r \in DOMAIN g_regions
      BY <1>3, <1>8, <3>1
    <3>2. CASE r \notin DOMAIN g_regions
      BY <1>3, <1>8, <3>2 DEF Mapped
    <3> QED
      BY <3>1, <3>2
  <2> QED
    BY <2>1, <2>2
<1>11. ASSUME NEW s \in DOMAIN g_regions, s # r
       PROVE  g_regions'[s] = g_regions[s] /\ open'[s] = open[s] /\ during'[s] = during[s]
  <2>1. s \in DOMAIN open /\ s \in DOMAIN during
    BY DEF Others
  <2>2. g_regions'[s] = g_regions[s] /\ open'[s] = open[s]
    BY <1>7, <1>11, <2>1 DEF Mapped
  <2>3. during'[s] = during[s]
    <3>1. CASE r \in DOMAIN g_regions
      BY <1>8, <3>1
    <3>2. CASE r \notin DOMAIN g_regions
      BY <1>8, <1>11, <2>1, <3>2 DEF Mapped
    <3> QED
      BY <3>1, <3>2
  <2> QED
    BY <2>2, <2>3
<1>12. g_cachesims' = cs
  BY DEF StartRegion
<1>13. \A s \in DOMAIN g_regions' : Accounts(g_regions'[s], open'[s], during'[s], cs, m)
  BY <1>6, <1>9, <1>10, <1>11
<1> QED
  BY <1>12, <1>13 DEF Regional, SimsTypedAs

\* ... when one is stopped ...
LEMMA StopRegional ==
  ASSUME NEW m \in Nat, NEW cs, cs = g_cachesims, SimsTypedAs(cs, m), Others,
         \A r \in DOMAIN g_regions : Accounts(g_regions[r], open[r], during[r], cs, m),
         NEW r \in RegionNames, StopRegion(r)
  PROVE  Regional'
<1>1. r \in DOMAIN g_regions /\ r \in DOMAIN open
  BY DEF StopRegion, Others
<1>2. PICK region : region = g_regions[r]
  OBVIOUS
<1>3. PICK o : o = open[r]
  OBVIOUS
<1>4. PICK d : d = during[r]
  OBVIOUS
<1>5. Accounts(region, o, d, cs, m) /\ o > -MaxNesting
  BY <1>1, <1>2, <1>3, <1>4 DEF StopRegion
<1>6. Accounts(OnRegionExit(region, cs), o - 1, d, cs, m)
  BY <1>5, ExitAccounts
<1>7. /\ g_regions' = [g_regions EXCEPT ![r] = OnRegionExit(region, cs)]
      /\ open' = [open EXCEPT ![r] = o - 1]
      /\ during' = during /\ g_cachesims' = cs
  BY <1>2, <1>3 DEF StopRegion
<1>8. g_regions'[r] = OnRegionExit(region, cs) /\ open'[r] = o - 1 /\ during'[r] = d
  BY <1>1, <1>4, <1>7
<1>9. \A s \in DOMAIN g_regions : s # r =>
        g_regions'[s] = g_regions[s] /\ open'[s] = open[s] /\ during'[s] = during[s]
  BY <1>7
<1>10. DOMAIN g_regions' = DOMAIN g_regions
  BY <1>7
<1>11. \A s \in DOMAIN g_regions' : Accounts(g_regions'[s], open'[s], during'[s], cs, m)
  BY <1>6, <1>8, <1>9, <1>10
<1> QED
  BY <1>7, <1>11 DEF Regional, SimsTypedAs

\* ... and in every step.
LEMMA NextRegional ==
  ASSUME NoPairs, Consistent, Others, Regional, [Next]_vars
  PROVE  Regional'
<1>1. PICK n \in Nat, m \in Nat : Simulated(RegOf, g_addrMap, ds_num, n, m)
  BY DEF Consistent
<1>2. PICK cs : cs = g_cachesims
  OBVIOUS
<1>3. SimsTypedAs(cs, m)
  BY <1>1, <1>2, SimsTyped DEF SimsTypedAs
<1>4. \A r \in DOMAIN g_regions : Accounts(g_regions[r], open[r], during[r], cs, m)
  <2>1. PICK k \in Nat :
          /\ DOMAIN cs = 0 .. k - 1
          /\ \A r \in DOMAIN g_regions : Accounts(g_regions[r], open[r], during[r], cs, k)
    BY <1>2 DEF Regional
  <2>2. 0 .. k - 1 = 0 .. m - 1
    BY <1>3, <2>1 DEF SimsTypedAs
  <2>3. k \notin 0 .. k - 1 /\ m \notin 0 .. m - 1
    OBVIOUS
  <2>4. k = m
    BY <2>2, <2>3
  <2> QED
    BY <2>1, <2>4
<1>5. ASSUME NEW a \in Blocks, NEW d \in 0 .. n - 1, HasAccessed(a, d, m),
             RecordDuring, UNCHANGED <<g_regions, open>>
      PROVE  Regional'
  <2>1. SimsTypedAs(g_cachesims', m)
    BY <1>1, <1>5, HasAccessedSims
  <2>2. PICK new : new = g_cachesims'
    OBVIOUS
  <2> QED
    BY <1>2, <1>3, <1>4, <1>5, <2>1, <2>2, RecordRegional
<1>6. ASSUME NEW t \in Threads, NEW a \in Blocks, AccessNew(t, a)
      PROVE  Regional'
  <2>1. DatastructNum(a) \in 0 .. n - 1
    BY <1>1, <1>6, AccessNewFacts
  <2>2. HasAccessed(a, DatastructNum(a), m)
    BY <1>1, <1>6, AccessNewFacts
  <2>3. RecordDuring /\ UNCHANGED <<g_regions, open>>
    BY <1>6 DEF AccessNew
  <2> QED
    BY <1>5, <2>1, <2>2, <2>3
<1>7. ASSUME NEW t \in Threads, NEW a \in Blocks, AccessSeen(t, a)
      PROVE  Regional'
  <2>1. ds_num[a] \in 0 .. n - 1
    BY <1>1, <1>7, AccessSeenFacts
  <2>2. HasAccessed(a, ds_num[a], m)
    BY <1>1, <1>7, AccessSeenFacts
  <2>3. RecordDuring /\ UNCHANGED <<g_regions, open>>
    BY <1>7 DEF AccessSeen
  <2> QED
    BY <1>5, <2>1, <2>2, <2>3
<1>8. ASSUME NEW ds \in Allocations, RegisterDatastruct(ds)
      PROVE  Regional'
  <2>1. \A r \in DOMAIN g_regions : g_regions[r] \in RegionType(m)
    BY <1>4 DEF Accounts
  <2>2. PICK m2 \in Nat :
          /\ m <= m2 /\ DOMAIN g_cachesims' = 0 .. m2 - 1
          /\ DOMAIN g_regions' = DOMAIN g_regions
          /\ \A r \in DOMAIN g_regions : Widened(g_regions'[r], g_regions[r], m, m2)
          /\ \A k \in 0 .. m - 1 : SameStack(g_cachesims'[k], g_cachesims[k])
          /\ \A k \in m .. m2 - 1 : Counts(g_cachesims'[k]) = ZeroCounts
    BY <1>1, <1>8, <2>1, RegistrationRegions
  <2>3. PICK new : new = g_cachesims'
    OBVIOUS
  <2>4. open' = open /\ during' = during
    BY <1>8 DEF RegisterDatastruct
  <2>5. ASSUME NEW r \in DOMAIN g_regions
        PROVE  Accounts(g_regions'[r], open'[r], during'[r], new, m2)
    <3>1. PICK g : g = g_regions[r] /\ Accounts(g, open[r], during[r], cs, m)
      BY <1>4
    <3>2. PICK h : h = g_regions'[r] /\ Widened(h, g, m, m2)
      BY <2>2, <3>1
    <3>3. PICK o, d : o = open[r] /\ d = during[r]
      OBVIOUS
    <3>4. /\ \A k \in 0 .. m - 1 : SameStack(new[k], cs[k])
          /\ \A k \in m .. m2 - 1 : Counts(new[k]) = ZeroCounts
      BY <1>2, <2>2, <2>3
    <3>5. Accounts(h, o, d, new, m2)
      BY <2>2, <3>1, <3>2, <3>3, <3>4, RegistrationAccounts
    <3> QED
      BY <2>4, <3>2, <3>3, <3>5
  <2> QED
    BY <2>2, <2>3, <2>5 DEF Regional
<1>9. ASSUME NEW r \in RegionNames, StartRegion(r)
      PROVE  Regional'
  BY <1>2, <1>3, <1>4, <1>9, StartRegional
<1>10. ASSUME NEW r \in RegionNames, StopRegion(r)
       PROVE  Regional'
  BY <1>2, <1>3, <1>4, <1>10, StopRegional
<1>11. ASSUME UNCHANGED <<g_cachesims, g_regions, open, during>>
       PROVE  Regional'
  BY <1>11 DEF Regional
<1> QED
  BY <1>6, <1>7, <1>8, <1>9, <1>10, <1>11 DEF Next, Access, AccessRepeated, vars

\* Regional is an invariant when there are no pairs.
LEMMA RegionalAlways ==
  ASSUME NoPairs
  PROVE  Spec => []Regional
<1>1. Init => Regional
  BY InitRegional
<1>2. Consistent /\ Others /\ Regional /\ [Next]_vars => Regional'
  BY NextRegional
<1> QED
  BY <1>1, <1>2, ConsistentAlways, OthersAlways, PTL DEF Spec

\* It gives the regions as many buckets as there are simulations ...
LEMMA RegionalCovers == Regional => RegionsCoverCachesims
<1> SUFFICES ASSUME Regional PROVE RegionsCoverCachesims
  OBVIOUS
<1>1. PICK m \in Nat :
        /\ DOMAIN g_cachesims = 0 .. m - 1
        /\ \A r \in DOMAIN g_regions : Accounts(g_regions[r], open[r], during[r], g_cachesims, m)
  BY DEF Regional
<1>2. ASSUME NEW r \in DOMAIN g_regions
      PROVE  DOMAIN g_regions[r].buckets = 0 .. m - 1 /\ DOMAIN g_regions[r].buckets_entry = 0 .. m - 1
  BY <1>1, RegionFields DEF Accounts
<1> QED
  BY <1>1, <1>2 DEF RegionsCoverCachesims

\* ... and the sum RegionAccounting speaks of.
LEMMA RegionalAccounting == Regional => RegionAccounting
<1> SUFFICES ASSUME Regional, NEW r \in DOMAIN g_regions, NEW k \in DOMAIN g_cachesims
             PROVE  (IF k \in DOMAIN during[r] THEN during[r][k] ELSE ZeroCounts)
                    = IF open[r] > 0
                      THEN AddSub(g_regions[r].buckets[k], Counts(g_cachesims[k]),
                                  g_regions[r].buckets_entry[k])
                      ELSE g_regions[r].buckets[k]
  BY DEF RegionAccounting, IsOpen
<1> QED
  BY DEF Regional, Accounts, Spent

(***************************************************************************)
(* As long as combine() adds no pairs, every region has a bucket vector    *)
(* for each simulation, so on_region_entry() and on_region_exit() stay     *)
(* within bounds.  With pairs they do not, see the run MCPairsRegions.     *)
(***************************************************************************)
THEOREM RegionsCoverCorrect ==
  ASSUME NoPairs
  PROVE  Spec => []RegionsCoverCachesims
BY RegionalAlways, RegionalCovers, PTL

(***************************************************************************)
(* As long as combine() adds no pairs, a region accumulates exactly what   *)
(* was counted while it was open, across nested, repeated and unmatched    *)
(* starts and stops and registrations in between.                          *)
(***************************************************************************)
THEOREM RegionAccountingCorrect ==
  ASSUME NoPairs
  PROVE  Spec => []RegionAccounting
BY RegionalAlways, RegionalAccounting, PTL
=============================================================================
