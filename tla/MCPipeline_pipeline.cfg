SPECIFICATION MCSpec
CONSTANTS
  Points <- MCPoints
  MaxObjects = 2
  MaxFrames = 4
  MaxSwaps = 1
  MaxAge = 1
  Reach = 4
  Window = 2
  Still = 0
  Moved = 0
  Near = 1
  Apart = 1
  Dwell = 2
  Scenes <- MCScenes
  s1 = s1
  s2 = s2
  Streams = {s1, s2}
  Kinds <- MCKinds
  Modes <- MCModes
  Candidates <- MCCandidates
  Absent <- MCAbsent
  RetryAttempts = 2
  Backoff <- MCBackoff
  Timeout = 2
  MaxFaults = 1
  MaxBuilds = 2
CHECK_DEADLOCK FALSE
INVARIANTS OccupancyIsExplained CrossingsAreSides 
PROPERTIES MatchingIsStable DeadCameraEnds
