SPECIFICATION Spec
CONSTANTS
  Meeting = {m1}
  Api = {a1}
  Worker = {w1}
  Durations = {1}
  HasQuota = FALSE
  Quota = 0
  MaxRetries = 1
  OtherExpired = TRUE
  MayLoseDispatch = TRUE
  MaxUploads = 1
  MaxClicks = 1
  MaxFaults = 1
PROPERTY
  DeletedIsTerminal
CHECK_DEADLOCK FALSE
