CONSTANTS
  Endpoints = {good, bad}
  Accounts = {acc1, acc2}
  Events = {v1, v2}
  Workers = {w1, w2}
  Nobody = nobody
  Broken = {bad}
  MaxAttempts = 2
  MaxGenerations = 2
  MaxSecrets = 2
  MaxPassed = 1
  MaxQueued = 2
SPECIFICATION PartedSpec
CHECK_DEADLOCK FALSE
INVARIANTS
  WebhookTypeOK
  AttemptsAccounted
  SendsRecorded
  SuccessIsTrue
  OneLaneEach
  SignedWithOriginal
PROPERTIES
  EndedForGood
  HealthySettles
