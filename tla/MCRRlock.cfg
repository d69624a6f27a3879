CONSTANTS
  Threads = {t1, t2, t3}
  Main = t1
  Finishing = {t3}
  NULL = NULL
SPECIFICATION FairSpec
INVARIANTS TypeOK MutualExclusion
PROPERTIES TakesTurns TurnComes GracefulExit
CHECK_DEADLOCK FALSE
