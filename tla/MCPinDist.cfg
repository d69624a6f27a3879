CONSTANTS
  MEMBLOCKLEN = 2
  Threads = {t1, t2}
  Accesses <- MCAccesses
  MaxChanges = 2
  NULL = NULL
SPECIFICATION Spec
INVARIANTS TypeOK ThreadsIsOne NoCircularWait FilterDropsOwnRepeats
PROPERTY HandlersExclude
