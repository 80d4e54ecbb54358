SPECIFICATION FairChatSpec
CONSTANTS
  Queries = {"a1", "i1", "i2", "b1", "b2"}
  Immediate = {"i1", "i2"}
  Buffered = {"b1", "b2"}
  MAX_BUFFER_MESSAGES = 2
  SessionOf <- TwoSessions
  SessionPermits = 1
  PipelineLimit = 1
  None = None
INVARIANTS
  SessionSerial
  NoLostWakeup
  InOnePlace
PROPERTIES
  SessionOrder
  LockReleased
  MessagesServed
CHECK_DEADLOCK FALSE
