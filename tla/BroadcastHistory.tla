-------------------------- MODULE BroadcastHistory --------------------------
(***************************************************************************)
(* What the database says of a send, against what happened: a history of   *)
(* the Enter presses beside the variables of BroadcastExecution, which it  *)
(* does not disturb.                                                       *)
(***************************************************************************)
EXTENDS BroadcastExecution

VARIABLE pressed  \* keys whose Enter was pressed while their task had a row

Pressing(k) == rt[k] = "running" /\ rt'[k] = "entered"

Observe == pressed' = {k \in Keys : (k \in pressed \/ Pressing(k)) /\ status'[k[1]] \notin Gone}

HSpec == Init /\ pressed = {} /\ [][Next /\ Observe]_<<vars, pressed>>

\* No Enter was pressed under this key, and none is on its way.
Unpressed(k) == k \notin pressed /\ rt[k] \notin Runtime!InProgress

\* What is on record of a send is true: a send recorded as succeeded had Enter
\* pressed by an attempt of its own, and so had a latest attempt whose row says
\* so; where the latest attempt is said to have failed or been cancelled before
\* Enter, which is what offers a retry, Enter was not pressed and will not be
\* (_persist_execution_result, _get_send_task_retry_state).
TrueRecord ==
  \A t \in Tasks : IsSend(t) /\ status[t] \notin Gone =>
    LET latest == <<t, attempts[t]>> IN
    /\ status[t] = "succeeded" => \E n \in 1 .. MaxAttempts : <<t, n>> \in pressed
    /\ evid[t] = "sent" => latest \in pressed
    /\ evid[t] \in Denied => Unpressed(latest)
=============================================================================
