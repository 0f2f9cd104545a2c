SPECIFICATION Spec
SYMMETRY Interchangeable
CONSTANTS
  Recording = {r1, r2}
  None = None
  Slot = {s1, s2}
  Parts = 2
  MaxMeetings = 2
  MaxUploads = 2
  MaxTimeouts = 1
  MaxCrashes = 1
  MaxRefusals = 0
  MaxRollbacks = 1
  MaxSaves = 0
  Prompt = FALSE
  MayCancel = TRUE
  Breakable <- Anything
INVARIANTS
  TypeOK
  WholeObject
  DeliveredOnce
  ConfirmedIsStored
  UploadedIsStored
  PartsAreRemembered
CHECK_DEADLOCK FALSE
