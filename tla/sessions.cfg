SPECIFICATION Spec
CONSTANTS
  a = a
  b = b
  Address = {a, b}
  Slot = {web, ui, bg}
  Client = {ui, bg}
  InitUsers <- MCInitUsers
  Me = a
  MaxTokens = 3
  MaxLinks = 1
  MaxFaults = 1
  MaxRequests = 4
INVARIANTS
  DesktopTypeOK
  RevocationReaches
  SpentOnce
  MachineStaysLinked
SYMMETRY Threads
CHECK_DEADLOCK FALSE
