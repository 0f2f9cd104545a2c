SPECIFICATION FairSpec
CONSTANTS
  Recording = {r1}
  None = None
  Slot = {s1, s2}
  Parts = 2
  MaxMeetings = 6
  MaxUploads = 5
  MaxTimeouts = 2
  MaxCrashes = 1
  MaxRefusals = 1
  MaxRollbacks = 0
  MaxSaves = 1
  Prompt = TRUE
  MayCancel = FALSE
  Breakable <- Anything
INVARIANTS
  ResendsBounded
PROPERTIES
  Arrives
CHECK_DEADLOCK FALSE
