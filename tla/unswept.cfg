SPECIFICATION Spec
CONSTANTS
  o1 = o1
  o2 = o2
  m3 = m3
  Org = {o1, o2}
  Meeting = {m1, m3}
  OrgOf <- MCOrgOf
  Api = {a1}
  Job = {beat}
  Stubborn = {}
  MaxClicks = 0
  MaxFaults = 0
PROPERTIES
  PastIsPurged
CHECK_DEADLOCK FALSE
