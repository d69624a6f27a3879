----------------------------- MODULE MCPinDist ------------------------------
EXTENDS PinDist

\* Accesses within two blocks, one that crosses from the first to the second,
\* and one so long that only its ends are simulated.
MCCrossing == {[addr |-> 2, size |-> 2], [addr |-> 5, size |-> 1], [addr |-> 3, size |-> 2],
               [addr |-> 3, size |-> 4]}

\* Also within block 0, where the filters start, and across its end.
MCAccesses == {[addr |-> 0, size |-> 1], [addr |-> 1, size |-> 2], [addr |-> 2, size |-> 2],
               [addr |-> 3, size |-> 2], [addr |-> 3, size |-> 4]}
=============================================================================
