------------------------------- MODULE MCDist -------------------------------
EXTENDS Dist

MCBlocks == 1 .. 3
MCTwoBlocks == 1 .. 2

\* Distances 0, 1 and the rest.
MCMins == <<0, 1, 2, 0>>

\* Two one-block arrays; block 3 belongs to no data structure.
MCArrays == {[address |-> 2, nbytes |-> 2], [address |-> 4, nbytes |-> 2]}

\* Blocks 1 and 2; block 2 and a part of block 1; a part of block 3.
MCOverlapping == {[address |-> 2, nbytes |-> 4], [address |-> 3, nbytes |-> 3],
                  [address |-> 7, nbytes |-> 1]}
=============================================================================
