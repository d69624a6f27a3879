CONSTANTS
  MEMBLOCKLEN = 2
  Threads = {t1}
  Accesses <- MCNonNull
  CHUNKSIZE = 2
  MaxAccesses = 4
  MaxStack = 0
SPECIFICATION Spec
INVARIANT WritesStream
CHECK_DEADLOCK FALSE
