SPECIFICATION Spec
SYMMETRY WorkerSymmetry
CONSTANTS
  Meeting = {m1}
  Api = {a1}
  Worker = {w1, w2}
  Durations = {1}
  HasQuota = FALSE
  Quota = 0
  MaxRetries = 1
  OtherExpired = TRUE
  MayLoseDispatch = TRUE
  MaxUploads = 1
  MaxClicks = 1
  MaxFaults = 1
INVARIANTS
  TypeOK
  ChargedOnce
  StateIsBacked
PROPERTY
  StraysOnlyWhenStale
CHECK_DEADLOCK FALSE
