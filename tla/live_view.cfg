SPECIFICATION FairSpec
CONSTANTS
  Pages = {c1}
  QueueSize = 2
  MaxChanges = 4
  MaxFaults = 2
  c1 = c1
INVARIANTS
  TypeOK
  NoSilentLoss
PROPERTIES
  CaughtUp
  StreamsEnd
CHECK_DEADLOCK FALSE
