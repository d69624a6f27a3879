CONSTANTS
  MEMBLOCKLEN = 2
  Blocks <- MCBlocks
  Mins <- MCMins
  Singular = Singular
  UnsignedRange = 8
  Threads = {t1}
  Allocations <- MCOverlapping
  CombineThreshold = 2
  RegionNames = {}
  MaxDatastructs = 2
  MaxAccesses = 6
  MaxRepeats = 1
  MaxNesting = 1
SPECIFICATION Spec
INVARIANTS TypeOK IteratorsAligned IsolatedStacks IndicesMatchContains ComplementPartition ExclusiveDominates Attribution
PROPERTY PairConservation
CHECK_DEADLOCK FALSE
