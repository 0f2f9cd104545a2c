SPECIFICATION Spec
CONSTANTS
  Order <- Both
  Speaker = {A, B}
  Horizon = 4
  MaxUtterances = 3
  Threshold = 2
  MaxRetries = 2
  MaxAttempts = 3
SYMMETRY Alike
INVARIANTS
  AskedInTurn
  CitesWhatWasHeard
  DeadlineIsComing
CHECK_DEADLOCK FALSE
