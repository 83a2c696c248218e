SPECIFICATION RecordingSpec
CONSTANTS
  MaxSize = 1
  Seed = 1
  OutMax = 1
  PreMax = 1
  QueueMax = 1
  Quota = 1
  MaxRenders = 2
  MaxClips = 1
  MaxLives = 2
CHECK_DEADLOCK FALSE
INVARIANTS DeliveredFramesAreIntact NoStrandedFrame ClipsAreWhole
