----------------------------- MODULE MCDistgen -----------------------------
EXTENDS Distgen

\* 1, 3, 6, 8 and 10 blocks.
MCSizes == {1, 5, 12, 16, 20}

\* Reading, chained and writing traversals; stopping early does not depend on
\* the order of blocks.
MCOptions ==
  {o \in [pseudoRandom : BOOLEAN, depChain : BOOLEAN, doWrite : BOOLEAN,
          stopOnSigUSR1 : BOOLEAN, iter : {3}, iters_perstat : {0, 2}] :
     /\ ~(o.depChain /\ o.doWrite)
     /\ ~(o.pseudoRandom /\ o.stopOnSigUSR1)}
=============================================================================
