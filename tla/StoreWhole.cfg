CONSTANTS
  Devices = {d1}
  Messages = {m1}
  Recipients = {r1}
  Keys = {k1}
  Attempts = {a1, a2}
  EventIds = {e1, e2, e3}
  SweepId = sweep
  MaxSegments = 2
  PerDevicePending = 1
  PerAccountPending = 2
  QuotaLimit = 2
  Months = 1
  MaxGeneration = 2
  MaxEpoch = 2
  MaxDeployment = 2
  KeysExpire = FALSE
SPECIFICATION StoreSpec
SYMMETRY Interchangeable
CHECK_DEADLOCK FALSE
INVARIANTS
  ReplacedOnlyAfterProof
  StoreTypeOK
  RowsAgree
  OutcomeHasEvidence
PROPERTY NoGrantAfterWithdrawal
