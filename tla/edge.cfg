SPECIFICATION Spec
CONSTANTS
  Token = {t1}
  NoToken = none
  Replica = {r1, r2}
  Slot = {s1, s2}
  Socket = {k1}
  Limit = 1
  Threshold = 1
  Cooldown = 1
  Window = 2
  MaxNow = 2
  MaxRequests = 2
  MaxFaults = 1
  First = "ANALYZING"
  MaxMoves = 1
INVARIANTS
  TypeOK
  NeverOverLimit
PROPERTIES
  ViewerLearnsTheEnd
CHECK_DEADLOCK FALSE
