SPECIFICATION Spec
CONSTANTS
  c1 = c1
  c2 = c2
  c3 = c3
  c4 = c4
  c5 = c5
  c6 = c6
  p1 = p1
  p2 = p2
  p3 = p3
  Calls = {c1, c2, c3, c4, c5, c6}
  OpOf <- OneOfEachOperation
  Processes = {p1, p2, p3}
  MaxFaults = 1
  None = None
INVARIANTS
  OneOfEach
  RunningIsShown
CHECK_DEADLOCK FALSE
