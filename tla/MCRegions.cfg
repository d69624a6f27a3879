CONSTANTS
  MEMBLOCKLEN = 2
  Blocks <- MCTwoBlocks
  Mins <- MCMins
  Singular = Singular
  UnsignedRange = 8
  Threads = {t1, t2}
  Allocations <- MCArrays
  CombineThreshold = 4
  RegionNames = {r1}
  MaxDatastructs = 2
  MaxAccesses = 4
  MaxRepeats = 1
  MaxNesting = 2
SPECIFICATION Spec
INVARIANTS RegionsCoverCachesims RegionAccounting
CHECK_DEADLOCK FALSE
