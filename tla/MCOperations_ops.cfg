SPECIFICATION MCSpec
CONSTANTS
  Registered <- MCRegistered
  Interval = 5
  RestartDelay = 2
  MaxRestarts = 2
  MaxDeaths = 4
  Enabled = {"redis", "kafka", "analytics", "alert_engine"}
  Provider = "torch"
  Images <- MCImages
  First = "v1"
  Jobs = {"a", "b", "c"}
  Image <- MCImage
  Broken = {"v3"}
  Files <- MCFiles
  Validated = TRUE
  Serialized = TRUE
  MaxOutages = 2
CHECK_DEADLOCK FALSE
INVARIANTS  AbandonedIsShown 
PROPERTIES DeadWorkersComeBack 
