---------------------------- MODULE MCPinPredict ----------------------------
EXTENDS PinPredict

Block(accs, stack, branch) == [accs |-> accs, stack |-> stack, branch |-> branch]

\* A loop of one access.
MCLoop == [bbls |-> <<Block(1, 0, TRUE)>>, fallThrough |-> FALSE]

\* Left after two accesses, or downwards after four.
MCForked == [bbls |-> <<Block(2, 1, TRUE), Block(2, 0, FALSE)>>, fallThrough |-> TRUE]

\* A trace left after no access, or after three.
MCLong == [bbls |-> <<Block(0, 1, TRUE), Block(3, 0, TRUE)>>, fallThrough |-> FALSE]

MCShapes == {MCLoop, MCForked, MCLong}
=============================================================================
