----------------------------- MODULE Traversal -----------------------------
(***************************************************************************)
(* How distgen.c goes over its buffer of memory blocks: the increment      *)
(* between blocks, the dependency chain through them, and the traversals   *)
(* of runBench().  A block stands for its index into the buffer.           *)
(***************************************************************************)
EXTENDS Integers, Sequences, FiniteSetsExt, Functions

CONSTANTS
  UNROLL,    \* accesses of the unrolled inner loop, 16
  INT_MAX    \* the largest int, 2^31 - 1

ASSUME TraversalAssumption == UNROLL \in Nat \ {0} /\ INT_MAX \in Nat \ {0}

\* What is left of a u64 that is returned as an int.
ToInt(n) ==
  LET range == 2 * (INT_MAX + 1)
      low   == n % range
  IN  IF low <= INT_MAX THEN low ELSE low - range

\* gcd() as far as it computes; what it returns is ToInt of it.
gcd[a \in Nat] == [b \in Nat |-> IF b = 0 THEN a ELSE gcd[b][a % b]]

\* Mutant of Adjusted: the size is taken as it is.
AdjustedNot(size, diff) == size

\* size after the loop of adjustSize(), which one of diff sizes in a row ends.
Adjusted(size, diff) == Min({n \in size .. size + diff : ToInt(gcd[n][diff]) <= 1})

adjustSize(size, diff) == ToInt(Adjusted(size, diff))

\* The golden ratio.
BlockDiff(blocks, pseudoRandom) == IF pseudoRandom THEN (blocks * 987) \div 1597 ELSE 1

\* Buffers are traversed with wrap around.
Advance(idx, blocks, diff) ==
  IF idx + diff >= blocks THEN idx + diff - blocks ELSE idx + diff

\* The first n blocks on the way from block 0 by next.
Walk(next, n) ==
  LET at[k \in 1 .. n] == IF k = 1 THEN 0 ELSE next[at[k - 1]]
  IN  at

\* entry::next of each block after the generation of the chain.
Chain(blocks, diff) == [b \in 0 .. blocks - 1 |-> Advance(b, blocks, diff)]

\* Mutant of VisitsUnrolled: the unrolled loop does not look where it ends.
VisitsUnchecked(max, blocks, diff) ==
  LET go[inner \in BOOLEAN] == [idx \in Nat |-> [j \in Nat |->
        IF ~inner /\ j >= max
        THEN << >>
        ELSE IF ~inner /\ j + UNROLL < max
        THEN [l \in 1 .. UNROLL |-> idx + (l - 1) * diff]
               \o go[FALSE][idx + UNROLL * diff][j + UNROLL]
        ELSE IF j < max /\ idx + diff < blocks
        THEN << idx >> \o go[TRUE][idx + diff][j + 1]
        ELSE << idx >> \o go[FALSE][Advance(idx, blocks, diff)][j + 1] ]]
  IN  go[FALSE][0][0]

\* benchType 0.  The inner loops run on as long as there is no wrap around,
\* and the access of the for loop comes after them.
VisitsUnrolled(max, blocks, diff) ==
  LET go[inner \in BOOLEAN] == [idx \in Nat |-> [j \in Nat |->
        IF ~inner /\ j >= max
        THEN << >>
        ELSE IF ~inner /\ j + UNROLL < max /\ idx + UNROLL * diff < blocks
        THEN [l \in 1 .. UNROLL |-> idx + (l - 1) * diff]
               \o go[FALSE][idx + UNROLL * diff][j + UNROLL]
        ELSE IF j < max /\ idx + diff < blocks
        THEN << idx >> \o go[TRUE][idx + diff][j + 1]
        ELSE << idx >> \o go[FALSE][Advance(idx, blocks, diff)][j + 1] ]]
  IN  go[FALSE][0][0]

\* benchTypes 1 and 3 follow the chain, benchType 2 computes the same steps.
Visits(max, blocks, diff, next, depChain, doWrite) ==
  IF depChain THEN Walk(next, max)
  ELSE IF doWrite THEN Walk(Chain(blocks, diff), max)
  ELSE VisitsUnrolled(max, blocks, diff)
=============================================================================
