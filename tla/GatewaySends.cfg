CONSTANTS
  Devices = {d1}
  Phone = d1
  Messages = {m1, m2}
  Recipients = {r1}
  Keys = {k1, k2}
  Attempts = {a1, a2}
  EventIds <- GatewayEventIds
  SweepId = sweep
  MaxSegments = 1
  PerDevicePending = 2
  PerAccountPending = 2
  QuotaLimit = 2
  Months = 1
  MaxGeneration = 1
  MaxEpoch = 2
  MaxDeployment = 2
  KeysExpire = FALSE
  MaxFlight = 2
  CloseLimit = 2
  Reports <- AllReports
SPECIFICATION SendsSpec
CHECK_DEADLOCK FALSE
INVARIANTS
  GatewayTypeOK
  JournalTypeOK
  AtMostOnceRadio
  FramesExpected
  AckedAgrees
  ProofMeansNoRadio
  OneUnresolvedCall
  HubMatchesRadio
  RadioAfterIntent
PROPERTIES
  JournalOneWay
