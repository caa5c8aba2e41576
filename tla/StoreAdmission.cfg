CONSTANTS
  Devices = {d1}
  Messages = {m1, m2, m3}
  Recipients = {r1}
  Keys = {k1, k2}
  Attempts = {a1}
  EventIds = {e1}
  SweepId = sweep
  MaxSegments = 1
  PerDevicePending = 2
  PerAccountPending = 2
  QuotaLimit = 2
  Months = 2
  MaxGeneration = 1
  MaxEpoch = 1
  MaxDeployment = 1
  KeysExpire = TRUE
SPECIFICATION AdmissionSpec
SYMMETRY Interchangeable
CHECK_DEADLOCK FALSE
INVARIANTS
  RefundIffUnsent
  MeterBalanced
  KeyNamesItsMessage
PROPERTIES
  BindingsStable
