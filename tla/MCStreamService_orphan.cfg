CONSTANTS
  a = a  None = None
  Ids = {a}
  Lives = 2
  Stoppers = {k1, k2, boss}
  k1 = k1  k2 = k2  boss = boss
  Boss = boss
  JoinExpires = FALSE
  RowsPruned = FALSE
SPECIFICATION Spec
INVARIANT RunningIsRegistered
CHECK_DEADLOCK FALSE
