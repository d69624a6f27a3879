CONSTANTS
  Threads = {t1}
  Shapes <- MCShapes
  Addresses = {1, 2}
  MAXDIFF = 2
  CounterSize = 3
  MAX_PREDS = 5
  MAX_EXITS = 4
  MAX_ADDROFFSET = 2
  MAX_AFTEREXIT = 3
  MaxRuns = 3
  NULL = NULL
SPECIFICATION Spec
INVARIANT AllAccesses
CHECK_DEADLOCK FALSE
