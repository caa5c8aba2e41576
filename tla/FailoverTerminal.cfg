CONSTANTS
  Members = {w1}
  Freshness = 1
  FailedChecks = 1
  RecoveryChecks = 1
  RecoveryStable = 0
  MaxStoredEpoch = 2
  Executors = {x1, x2}
  Nobody = nobody
  Abandoned = abandoned
  Views <- SomeViews
  MaxDeeds = 1
  MaxFaults = 1
  MaxPending = 1
SPECIFICATION HeldSpec
CHECK_DEADLOCK FALSE
PROPERTY TerminalHolds
