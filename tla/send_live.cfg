SPECIFICATION FairSpec
CONSTANTS
  Drafts = {"d", "e"}
  Batches <- OneId
  Tasks <- TwoIds
  BatchOf <- OneBatch
  DraftOf <- TwoDrafts
  SendBatches = {1}
  Workers = {w1}
  Callers = {c1}
  HostOf <- AnyHost
  Ops = {"create", "cancel_batch", "clear"}
  Faults = {"crash", "stop", "runtime_restart", "timeout"}
  MaxFaults = 1
  MaxAttempts = 1
  ReuseIds = TRUE
  PostSendVerify = TRUE
  None = None
PROPERTIES
  TaskSettles
  QueuedRuns
CHECK_DEADLOCK FALSE
