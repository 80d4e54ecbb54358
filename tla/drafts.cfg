SPECIFICATION Spec
CONSTANTS
  r1 = r1
  r2 = r2
  r3 = r3
  e1 = e1
  p1 = p1
  p2 = p2
  Requests = {r1, r2, r3}
  Editors = {e1}
  Processes = {p1, p2}
  HostOf <- TwoHosts
  MaxLives = 2
  MaxFaults = 2
  None = None
INVARIANTS
  SingleGenerator
  ProcessingOwned
  ActiveIsNewest
PROPERTIES
  FailedStaysFailed
CHECK_DEADLOCK FALSE
