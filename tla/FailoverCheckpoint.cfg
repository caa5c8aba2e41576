CONSTANTS
  Members = {"a", "b", "c"}
  Freshness = 1
  FailedChecks = 2
  RecoveryChecks = 2
  RecoveryStable = 1
  MaxStoredEpoch = 3
  RetainedFloor = 1
  Journaled <- SomeJournaled
  Sights <- SomeSights
  MaxRecords <- SomeRecords
  MaxFaults = 1
  MaxTime = 4
SPECIFICATION ObservationSpec
CHECK_DEADLOCK FALSE
INVARIANT CrashLeavesLoadable
