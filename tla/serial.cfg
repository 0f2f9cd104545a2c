SPECIFICATION Spec
CONSTANTS
  Meeting = {m1}
  Api = {p1}
  Worker = {p1}
  Durations = {1, 2}
  HasQuota = TRUE
  Quota = 1
  MaxRetries = 2
  OtherExpired = TRUE
  MayLoseDispatch = TRUE
  MaxUploads = 2
  MaxClicks = 2
  MaxFaults = 2
INVARIANTS
  FailedNeverBilled
  PurgedMeansGone
  KeptUntilDeadline
  HeldIsNotProcessed
PROPERTY
  RefinesLifecycle
CHECK_DEADLOCK FALSE
