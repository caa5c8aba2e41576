CONSTANTS
  Devices = {d1}
  Phone = d1
  Messages = {m1}
  Recipients = {r1}
  Keys = {k1}
  Attempts = {a1}
  EventIds <- GatewayEventIds
  SweepId = sweep
  MaxSegments = 1
  PerDevicePending = 2
  PerAccountPending = 2
  QuotaLimit = 2
  Months = 1
  MaxGeneration = 1
  MaxEpoch = 2
  MaxDeployment = 1
  KeysExpire = FALSE
  MaxFlight = 1
  CloseLimit = 2
  Reports <- SentOk
SPECIFICATION LiveSpec
CHECK_DEADLOCK FALSE
PROPERTY EvidenceSettles
