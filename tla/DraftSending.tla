---------------------------- MODULE DraftSending ----------------------------
(***************************************************************************)
(* What sending a draft promises the operator, whatever batches, tasks,    *)
(* attempts, workers and runtime carry it out: a draft that is offered as  *)
(* pending has no Enter pressed or on its way, and only the operator makes *)
(* a draft pending again whose message may have been sent.                 *)
(*                                                                         *)
(* BroadcastExecution is shown to implement it.                            *)
(***************************************************************************)
CONSTANT Drafts

VARIABLES
  shown,    \* draft -> what it is shown as
  flight,   \* draft -> a send of it may still press Enter
  entered   \* draft -> Enter was pressed since the operator last reopened it

vars == <<shown, flight, entered>>

Shown == {"pending", "sending", "sent", "unknown"}

Init ==
  /\ shown = [d \in Drafts |-> "pending"]
  /\ flight = [d \in Drafts |-> FALSE]
  /\ entered = [d \in Drafts |-> FALSE]

Hot(d) == flight[d] \/ entered[d]

Still(d) == flight'[d] = flight[d] /\ entered'[d] = entered[d]

Reserve(d) ==
  /\ shown[d] = "pending" /\ ~Hot(d)
  /\ shown'[d] = "sending" /\ Still(d)

Call(d) ==
  /\ shown[d] = "sending" /\ ~Hot(d)
  /\ flight'[d] /\ ~entered'[d] /\ shown'[d] = shown[d]

Press(d) ==
  /\ flight[d] /\ ~entered[d]
  /\ ~flight'[d] /\ entered'[d] /\ shown'[d] = shown[d]

\* The send ended, or was forgotten, before Enter.
Lapse(d) ==
  /\ flight[d] /\ ~flight'[d]
  /\ entered'[d] = entered[d] /\ shown'[d] = shown[d]

\* The outcome is shown; one that may have been a success never as pending.
Conclude(d) ==
  /\ shown[d] = "sending" /\ shown'[d] \in Shown \ {"sending"}
  /\ Hot(d) => shown'[d] # "pending"
  /\ Still(d)

\* The operator says that the message was sent, or that it was not, which makes
\* the system forget what it knows of earlier sends.
Confirm(d) ==
  /\ shown[d] \in {"pending", "unknown"}
  /\ shown'[d] = "sent" /\ Still(d)
Reopen(d) ==
  /\ shown'[d] = IF shown[d] = "sending" THEN "sending" ELSE "pending"
  /\ ~flight'[d] /\ ~entered'[d]

Step(d) ==
  \/ shown'[d] = shown[d] /\ Still(d)
  \/ Reserve(d) \/ Call(d) \/ Press(d) \/ Lapse(d) \/ Conclude(d)
  \/ Confirm(d) \/ Reopen(d)

\* One transaction may concern several drafts.
Next == \A d \in Drafts : Step(d)

Spec == Init /\ [][Next]_vars
=============================================================================
