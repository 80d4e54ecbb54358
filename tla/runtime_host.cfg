SPECIFICATION FairSpec
CONSTANTS
  s1 = s1
  p2 = p2
  p3 = p3
  p1 = p1
  Keys = {s1, p1, p2, p3}
  SendKeys = {s1}
  PostSendVerify = TRUE
  None = None
INVARIANTS
  TypeOK
  LaneExclusive
  LaneServed
  FirstCome
PROPERTIES
  TaskEnds
  Contract
CHECK_DEADLOCK FALSE
