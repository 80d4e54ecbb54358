SPECIFICATION Spec
CONSTANTS
  Drafts = {"d"}
  Batches <- TwoIds
  Tasks <- TwoIds
  BatchOf <- OnePerTask
  DraftOf <- SameDraft
  SendBatches = {1, 2}
  Workers = {w1}
  Callers = {c1}
  HostOf <- AnyHost
  Ops = {"create", "cancel_task"}
  Faults = {}
  MaxFaults = 0
  MaxAttempts = 1
  ReuseIds = FALSE
  PostSendVerify = TRUE
  None = None
INVARIANTS
  NoDoubleEnter
CHECK_DEADLOCK FALSE
