CONSTANTS
  a = a  None = None
  Ids = {a}
  Lives = 3
  Stoppers = {k1, k2, boss}
  k1 = k1  k2 = k2  boss = boss
  Boss = boss
  JoinExpires = FALSE
  RowsPruned = TRUE
SPECIFICATION FairSpec
CHECK_DEADLOCK FALSE
INVARIANTS  OneThreadPerId ShutdownStopsAll
PROPERTIES StopReturns
