CONSTANTS
  MEMBLOCKLEN = 2
  Threads = {t1, t2}
  Accesses <- MCAccesses
  CHUNKSIZE = 2
  MaxAccesses = 4
  MaxStack = 1
SPECIFICATION Spec
INVARIANTS TypeOK CountsNeverExceed DropsOneOfEach
CHECK_DEADLOCK FALSE
