SPECIFICATION Spec
CONSTANTS
  Drafts = {"d"}
  Batches <- TwoIds
  Tasks <- TwoIds
  BatchOf <- OnePerTask
  DraftOf <- SameDraft
  SendBatches = {1, 2}
  Workers = {w1}
  Callers = {c1, c2}
  HostOf <- AnyHost
  Ops = {"create", "cancel_batch", "retry", "mark"}
  Faults = {"attachment"}
  MaxFaults = 1
  MaxAttempts = 2
  ReuseIds = FALSE
  PostSendVerify = TRUE
  None = None
INVARIANTS
  FreshKey
PROPERTIES
  SentStaysSent
CHECK_DEADLOCK FALSE
SYMMETRY CallerSymmetry
