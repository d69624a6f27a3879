CONSTANTS
  MEMBLOCKLEN = 2
  Blocks <- MCTwoBlocks
  Mins <- MCMins
  Singular = Singular
  UnsignedRange = 8
  Threads = {t1}
  Allocations <- MCArrays
  CombineThreshold = 2
  RegionNames = {r1}
  MaxDatastructs = 2
  MaxAccesses = 1
  MaxRepeats = 1
  MaxNesting = 1
SPECIFICATION Spec
INVARIANT RegionsCoverCachesims
CHECK_DEADLOCK FALSE
