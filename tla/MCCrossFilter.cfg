CONSTANTS
  MEMBLOCKLEN = 2
  Threads = {t1}
  Accesses <- MCCrossing
  MaxChanges = 0
  NULL = NULL
SPECIFICATION Spec
INVARIANT FilterIsZeroDistance
