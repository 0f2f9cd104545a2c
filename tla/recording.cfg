SPECIFICATION Spec
SYMMETRY Interchangeable
CONSTANTS
  Recording = {r1, r2}
  None = None
  SegmentChunks = 2
  Limit = 2
  WarnBefore = 1
  Depth = 2
  MaxHeard = 3
  MaxAsked = 2
  MaxTimeouts = 1
  MaxFailures = 1
  MaxCrashes = 1
  Failing <- AnyWrite
INVARIANTS
  TypeOK
  NamedIsDurable
  LosesOneSegment
  BilledIsKept
  PauseKeepsNothing
  WithinBudget
  RunningIsHeld
CHECK_DEADLOCK FALSE
