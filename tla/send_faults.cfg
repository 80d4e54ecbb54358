SPECIFICATION HSpec
CONSTANTS
  Drafts = {"d"}
  Batches <- TwoIds
  Tasks <- TwoIds
  BatchOf <- OnePerTask
  DraftOf <- SameDraft
  SendBatches = {1, 2}
  Workers = {w1}
  Callers = {c1}
  HostOf <- AnyHost
  Ops = {"create", "cancel_batch", "mark"}
  Faults = {"crash", "stop", "runtime_restart", "db_failure", "timeout", "lost_reply", "attachment"}
  MaxFaults = 2
  MaxAttempts = 1
  ReuseIds = FALSE
  PostSendVerify = TRUE
  None = None
INVARIANTS
  TypeOK
  ReservationHeld
  SendReserved
  InFlightGuarded
  NoDoubleEnter
  TrueRecord
PROPERTIES
  SendingKept
CHECK_DEADLOCK FALSE
