SPECIFICATION Spec
CONSTANTS
  r1 = r1
  r2 = r2
  r3 = r3
  c1 = c1
  send = send
  again = again
  Requests = {r1, r2, r3}
  Cancellers = {c1}
  Keys = {send, again}
  SendKeys = {send, again}
  KeyOf <- RepeatedKey
  PostSendVerify = TRUE
  MaxFaults = 2
  None = None
INVARIANTS
  OneInFlight
  KeySentOnce
  OutcomeTrue
CHECK_DEADLOCK FALSE
