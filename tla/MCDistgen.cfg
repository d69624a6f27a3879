CONSTANTS
  Sizes <- MCSizes
  Options <- MCOptions
  BLOCKLEN = 2
  MAXDISTCOUNT = 3
  UNROLL = 2
  INT_MAX = 9
  tcount = 2
  MaxSignals = 2
  MaxCount = 16
  NULL = NULL
SPECIFICATION FairSpec
INVARIANTS TypeOK DistancesDescend ChainVisitsAll TraversesItsBlocks AccessesAccounted IterationsDone
PROPERTY Terminates
CHECK_DEADLOCK FALSE
