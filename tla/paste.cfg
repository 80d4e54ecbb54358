SPECIFICATION Spec
CONSTANTS
  Drafts = {"d", "e"}
  Batches <- OneId
  Tasks <- TwoIds
  BatchOf <- OneBatch
  DraftOf <- TwoDrafts
  SendBatches = {}
  Workers = {w1, w2}
  Callers = {c1}
  HostOf <- AnyHost
  Ops = {"create", "start", "pause", "resume", "cancel_batch", "cancel_task", "run_task"}
  Faults = {"crash", "lost_reply", "db_failure"}
  MaxFaults = 1
  MaxAttempts = 1
  ReuseIds = FALSE
  PostSendVerify = FALSE
  None = None
INVARIANTS
  AttemptUnique
  LeaseExclusive
  BatchSettled
  BatchConcluded
CHECK_DEADLOCK FALSE
