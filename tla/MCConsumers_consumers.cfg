SPECIFICATION MCSpec
CONSTANTS
  MaxHandled = 2
  MaxFlushes = 2
  QueueMax = 1
  NotifyMax = 1
  MaxRetries = 1
  Conditions <- MCConditions
  Logic = "AND"
  Quantities = {0, 1}
  MaxAlerts = 2
  MaxInputs = 4
CHECK_DEADLOCK FALSE
INVARIANTS   HistoryExplainsState
PROPERTIES DisabledRuleGoesQuiet JobsAreEnded
