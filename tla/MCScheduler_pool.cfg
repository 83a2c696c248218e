CONSTANTS
  a1 = a1  a2 = a2  b1 = b1  a = a  b = b
  NoChannel = NoChannel
  Instances = {a1, a2, b1}
  Streams = {a, b}
  StreamOf <- ReuseOf
  NumWorkers = 2
  Capacity = 1
  FrameBudget <- PoolBudget
  Unlisted = {}
  WaitsExpire = FALSE
SPECIFICATION FairSpec
CHECK_DEADLOCK FALSE
INVARIANTS NoLostWakeup OneWorkerUnlessReused CleanupAfterDrain
PROPERTIES FramesFinishInOrder StopCompletes BacklogIsDrained
