---------------------------- MODULE MCPinTrace -----------------------------
EXTENDS PinTrace

\* Within a block, across two blocks, and at address 0.
MCAccesses == {[addr |-> 2, size |-> 1], [addr |-> 3, size |-> 2], [addr |-> 0, size |-> 1]}

\* Without the access at address 0.
MCNonNull == {acc \in MCAccesses : acc.addr # 0}
=============================================================================
