SPECIFICATION FairSpec
CONSTANTS
  Queries = {"a1", "i1", "i2"}
  Immediate = {"i1", "i2"}
  SessionOf <- TwoSessions
  SessionPermits = 1
  PipelineLimit = 2
  None = None
PROPERTIES
  QueuedConsumed
CHECK_DEADLOCK FALSE
