CONSTANTS
  Devices = {d1}
  Messages = {m1, m2}
  Recipients = {r1}
  Keys = {k1, k2}
  Attempts = {a1, a2}
  EventIds = {e1, e2, e3}
  SweepId = sweep
  MaxSegments = 1
  PerDevicePending = 1
  PerAccountPending = 2
  QuotaLimit = 2
  Months = 1
  MaxGeneration = 1
  MaxEpoch = 1
  MaxDeployment = 2
  KeysExpire = FALSE
SPECIFICATION RefinementSpec
SYMMETRY Interchangeable
CHECK_DEADLOCK FALSE
INVARIANTS
  OneActivePerDevice
  ConflictIsFinal
  QueueBounded
PROPERTIES
  ImplementsAuthority
