SPECIFICATION FairSpec
CONSTANTS
  Meeting = {m1}
  Api = {a1}
  Worker = {w1}
  Durations = {1}
  HasQuota = FALSE
  Quota = 0
  MaxRetries = 2
  OtherExpired = FALSE
  MayLoseDispatch = FALSE
  MaxUploads = 1
  MaxClicks = 1
  MaxFaults = 2
PROPERTY
  Settles
CHECK_DEADLOCK FALSE
