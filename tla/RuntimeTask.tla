----------------------------- MODULE RuntimeTask -----------------------------
(***************************************************************************)
(* What the desktop runtime promises of the tasks it is given, one for     *)
(* each idempotency key: a send presses Enter at most once, and how it     *)
(* ends tells whether Enter was pressed, unless it ends as "refused",      *)
(* which tells nothing.  A paste never presses Enter, and that it is over  *)
(* does not tell whether the text was pasted.  A restart forgets every     *)
(* task.                                                                   *)
(*                                                                         *)
(* BroadcastExecution is composed with this contract; RuntimeHost is shown *)
(* to implement it.                                                        *)
(***************************************************************************)
CONSTANTS
  Keys,           \* idempotency keys
  SendKeys,       \* those of sends
  PostSendVerify  \* the runtime can confirm that a message was sent

VARIABLE rt       \* key -> state of its task, "none" when it has none

InProgress == {"running", "entered"}
NotEntered == {"failed", "cancelled", "refused"}
Entered    == {"unverified", "late_cancel"}
                \cup (IF PostSendVerify THEN {"sent", "refused"} ELSE {})

States == InProgress \cup NotEntered
            \cup {"none", "unverified", "late_cancel", "sent", "pasted"}

Init == rt = [k \in Keys |-> "none"]

Accept(k) == rt[k] = "none" /\ rt' = [rt EXCEPT ![k] = "running"]

Enter(k) ==
  /\ rt[k] = "running" /\ k \in SendKeys
  /\ rt' = [rt EXCEPT ![k] = "entered"]

Ends(k) ==
  CASE rt[k] = "entered"                     -> Entered
    [] rt[k] = "running" /\ k \in SendKeys   -> NotEntered
    [] rt[k] = "running" /\ k \notin SendKeys -> {"pasted"}
    [] OTHER                                 -> {}

End(k) == \E s \in Ends(k) : rt' = [rt EXCEPT ![k] = s]

\* A shutdown ends tasks that have not begun, without telling so.  For an
\* observer it is their ends one after the other.
Abandon ==
  \E K \in SUBSET {k \in Keys : rt[k] = "running"} :
    rt' = [k \in Keys |-> IF k \notin K THEN rt[k]
                          ELSE IF k \in SendKeys THEN "refused" ELSE "pasted"]

Restart == rt' = [k \in Keys |-> "none"]

Next == Abandon \/ Restart \/ \E k \in Keys : Accept(k) \/ Enter(k) \/ End(k)

Spec == Init /\ [][Next]_rt
=============================================================================
