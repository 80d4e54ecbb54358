----------------------------- MODULE RuntimeHost -----------------------------
(***************************************************************************)
(* The desktop runtime's task host: RuntimeHost with its TaskRegistry, its *)
(* ExecutionLaneTaskQueue and the steps of a task that TaskRunner runs.    *)
(* One lane runs the pastes, another the sends; each runs one task at a    *)
(* time and queues the others.                                             *)
(*                                                                         *)
(* A method of RuntimeHost runs without interruption up to its first       *)
(* await, so it is one action; a task in the runner is interrupted by      *)
(* every other method between two of its steps.                            *)
(***************************************************************************)
EXTENDS Sequences, SequencesExt

CONSTANTS
  Keys,        \* idempotency keys of the requests
  SendKeys,    \* those of send_message; the others are of paste_draft
  PostSendVerify, \* a verifier confirms some sends
  None

ASSUME KeyAssumption == SendKeys \subseteq Keys /\ None \notin Keys
ASSUME VerifyAssumption == PostSendVerify \in BOOLEAN

Lanes     == {"default", "wxwork-main-window"}
LaneOf(k) == IF k \in SendKeys THEN "default" ELSE "wxwork-main-window"

VARIABLES
  stat,         \* key -> status and outcome of its task in the registry
  phase,        \* key -> where its task is in the runner
  requests,     \* keys in requestByTaskId
  flagged,      \* keys in cancelledTaskIds
  active,       \* lane -> key of the task that occupies it
  queued,       \* lane -> keys that wait for it
  shuttingDown,
  arrived       \* ghost: lane -> its keys in the order their tasks were created

vars == <<stat, phase, requests, flagged, active, queued, shuttingDown, arrived>>

Active  == {"queued", "running"}
Ends    == {"failed", "refused", "cancelled", "late_cancel", "unverified", "sent", "pasted",
            "interrupted"}
Phases  == {"idle", "prepare", "ready", "entered", "finally"}

TypeOK ==
  /\ stat \in [Keys -> {"none"} \cup Active \cup Ends]
  /\ phase \in [Keys -> Phases]
  /\ requests \subseteq Keys /\ flagged \subseteq Keys
  /\ active \in [Lanes -> Keys \cup {None}]
  /\ queued \in [Lanes -> Seq(Keys)]
  /\ shuttingDown \in BOOLEAN
  /\ arrived \in [Lanes -> Seq(Keys)]

Init ==
  /\ stat = [k \in Keys |-> "none"]
  /\ phase = [k \in Keys |-> "idle"]
  /\ requests = {} /\ flagged = {}
  /\ active = [l \in Lanes |-> None]
  /\ queued = [l \in Lanes |-> <<>>]
  /\ shuttingDown = FALSE
  /\ arrived = [l \in Lanes |-> <<>>]

-----------------------------------------------------------------------------
(* Lanes *)

\* Mutants: a lane counts as free when nobody waits for it; the last to come is
\* the first to go.
QueueEmpty(l) == queued[l] = <<>>
Newest(l)     == Len(queued[l])

LaneFree(l)   == active[l] = None
NextInLane(l) == 1
Admitted      == ~shuttingDown

\* createTask with a new key.  A key the registry knows is answered with its
\* task, or with a conflict; neither changes anything.
CreateTask(k) ==
  LET l == LaneOf(k) IN
  /\ Admitted
  /\ stat[k] = "none"
  /\ arrived' = [arrived EXCEPT ![l] = Append(@, k)]
  /\ requests' = requests \cup {k}
  /\ IF LaneFree(l)
     THEN /\ active' = [active EXCEPT ![l] = k]
          /\ stat' = [stat EXCEPT ![k] = "running"]
          /\ phase' = [phase EXCEPT ![k] = "prepare"]
          /\ UNCHANGED queued
     ELSE /\ queued' = [queued EXCEPT ![l] = Append(@, k)]
          /\ stat' = [stat EXCEPT ![k] = "queued"]
          /\ UNCHANGED <<active, phase>>
  /\ UNCHANGED <<flagged, shuttingDown>>

\* startTask for k once `done` has left the lane.  Without a request nothing
\* happens; a task cancelled while it waited ends, and its lane goes on.
StartAfter(done, k) ==
  LET idle == [phase EXCEPT ![done] = "idle"]
      drop == k \in flagged \ {done} \/ stat[k] = "cancelled"
  IN
  IF k \notin requests
  THEN stat' = stat /\ phase' = idle
  ELSE /\ stat' = [stat EXCEPT ![k] = IF drop THEN "cancelled" ELSE "running"]
       /\ phase' = [idle EXCEPT ![k] = IF drop THEN "finally" ELSE "prepare"]

\* The finally block of startTask, and startNextTask.
Finally(k) ==
  LET l    == LaneOf(k)
      next == queued[l][NextInLane(l)]
      last == queued[l] = <<>>
  IN
  /\ phase[k] = "finally"
  /\ flagged' = flagged \ {k}
  /\ requests' = requests \ {k}
  /\ active' = [active EXCEPT ![l] = IF @ # k THEN @ ELSE IF last THEN None ELSE next]
  /\ queued' = IF active[l] # k \/ last THEN queued
               ELSE [queued EXCEPT ![l] = RemoveAt(@, NextInLane(l))]
  /\ IF active[l] # k \/ last \/ shuttingDown
     THEN phase' = [phase EXCEPT ![k] = "idle"] /\ UNCHANGED stat
     ELSE StartAfter(k, next)
  /\ UNCHANGED <<shuttingDown, arrived>>

-----------------------------------------------------------------------------
(* Cancellation and shutdown *)

Positions(k) == {i \in DOMAIN queued[LaneOf(k)] : queued[LaneOf(k)][i] = k}
InQueue(k)   == Positions(k) # {}

\* Mutants: the stage of a task being cancelled becomes its status; a
\* cancelled task stays in its queue.
FlagAsStatus(k) == flagged' = flagged \cup {k} /\ stat' = [stat EXCEPT ![k] = "cancelling"]
LeftInQueue(k)  == queued

\* The cancellation of a running task; its stage, not its status, changes.
Flag(k) == flagged' = flagged \cup {k} /\ stat' = [stat EXCEPT ![k] = "running"]

Unqueued(k) == [queued EXCEPT ![LaneOf(k)] = RemoveAt(@, CHOOSE i \in Positions(k) : TRUE)]

CancelTask(k) ==
  /\ stat[k] \in Active
  /\ IF InQueue(k)
     THEN /\ queued' = Unqueued(k)
          /\ requests' = requests \ {k}
          /\ stat' = [stat EXCEPT ![k] = "cancelled"]
          /\ UNCHANGED flagged
     ELSE /\ Flag(k)
          /\ UNCHANGED <<queued, requests>>
  /\ UNCHANGED <<phase, active, shuttingDown, arrived>>

\* Mutant: tasks that wait are left waiting.
LeftWaiting == {}

Waiting == {k \in Keys : stat[k] = "queued"}

\* shutdown, up to its await of the running tasks.  Every task that waits is
\* taken out of its queue, and nothing else is in a queue.
Shutdown ==
  /\ ~shuttingDown
  /\ shuttingDown' = TRUE
  /\ stat' = [k \in Keys |-> IF k \in Waiting THEN "interrupted" ELSE stat[k]]
  /\ requests' = requests \ Waiting
  /\ queued' = [l \in Lanes |-> <<>>]
  /\ flagged' = flagged \cup {k \in Keys : stat[k] = "running"}
  /\ UNCHANGED <<phase, active, arrived>>

\* The process ends, after shutdown or by a crash, and a new one starts.
Restart ==
  /\ stat' = [k \in Keys |-> "none"]
  /\ phase' = [k \in Keys |-> "idle"]
  /\ requests' = {} /\ flagged' = {}
  /\ active' = [l \in Lanes |-> None]
  /\ queued' = [l \in Lanes |-> <<>>]
  /\ shuttingDown' = FALSE
  /\ arrived' = [l \in Lanes |-> <<>>]

-----------------------------------------------------------------------------
(* The runner *)

InRunner == UNCHANGED <<requests, flagged, active, queued, shuttingDown, arrived>>

\* The last check for a cancellation before Enter passed.
Prepared(k) ==
  /\ phase[k] = "prepare" /\ k \in SendKeys /\ k \notin flagged
  /\ phase' = [phase EXCEPT ![k] = "ready"]
  /\ UNCHANGED stat /\ InRunner

PressEnter(k) ==
  /\ phase[k] = "ready"
  /\ phase' = [phase EXCEPT ![k] = "entered"]
  /\ UNCHANGED stat /\ InRunner

\* Mutant: a cancelled task has not pressed Enter.
CancelledAnyway(k, outcome) == IF k \in flagged THEN "cancelled" ELSE outcome

\* executeTask overrides the result of a task that was cancelled meanwhile, but
\* keeps what the result tells of Enter.
Overridden(k, outcome) ==
  IF k \notin flagged THEN outcome
  ELSE IF phase[k] = "entered" THEN "late_cancel" ELSE "cancelled"

EndTask(k, outcome) ==
  /\ stat' = [stat EXCEPT ![k] = outcome]
  /\ phase' = [phase EXCEPT ![k] = "finally"]
  /\ InRunner

\* The task fails while it prepares, or when Enter cannot be pressed: with a
\* result, or with an error, which a cancellation does not override.
Fail(k) ==
  /\ phase[k] \in {"prepare", "ready"}
  /\ EndTask(k, Overridden(k, "failed")) \/ EndTask(k, "refused")

\* A check for a cancellation raises.
CheckCancelled(k) ==
  /\ phase[k] = "prepare" /\ k \in flagged
  /\ EndTask(k, "cancelled")

EndPaste(k) ==
  /\ phase[k] = "prepare" /\ k \notin SendKeys
  /\ EndTask(k, Overridden(k, "pasted"))

\* After Enter: a verifier, where there is one, confirms or raises.
EndSend(k) ==
  /\ phase[k] = "entered"
  /\ \/ EndTask(k, Overridden(k, "unverified"))
     \/ PostSendVerify /\ (EndTask(k, Overridden(k, "sent")) \/ EndTask(k, "refused"))

Run(k) ==
  \/ Prepared(k) \/ PressEnter(k) \/ Fail(k) \/ CheckCancelled(k) \/ EndPaste(k)
  \/ EndSend(k) \/ Finally(k)

Next ==
  \/ \E k \in Keys : CreateTask(k) \/ CancelTask(k) \/ Run(k)
  \/ Shutdown \/ Restart

Spec == Init /\ [][Next]_vars

\* Calls of the desktop return.  Requests, cancellations, shutdown and restart
\* need not happen.
FairSpec == Spec /\ \A k \in Keys : WF_vars(Run(k))

-----------------------------------------------------------------------------
(* Properties *)

Executing(k) == phase[k] # "idle"

\* In each lane at most one task drives the desktop, and it is the one that
\* occupies the lane (ExecutionLaneTaskQueue).
LaneExclusive == \A k \in Keys : Executing(k) => active[LaneOf(k)] = k

\* A task waits only behind one that is being executed: no order of
\* cancellations, failures and shutdown leaves a lane stuck with tasks in it.
LaneServed ==
  \A l \in Lanes : queued[l] # <<>> => \E k \in Keys : LaneOf(k) = l /\ Executing(k)

\* The tasks of a lane start in the order in which they were accepted.
FirstCome ==
  \A l \in Lanes : \A i, j \in DOMAIN arrived[l] :
    i < j /\ Executing(arrived[l][j]) => stat[arrived[l][i]] # "queued"

\* Once shutdown began no task starts any more.
NoStartInShutdown ==
  [][\A k \in Keys : shuttingDown /\ ~Executing(k) => ~Executing(k)']_vars

\* Every accepted task ends, unless the process does.
TaskEnds == \A k \in Keys : stat[k] \in Active ~> stat[k] \notin Active

\* The state of each task as seen through the contract: a queued task is one
\* that has not pressed Enter, an interrupted send tells nothing, and a paste
\* that ended is over.
Seen(k) ==
  CASE stat[k] = "queued"                          -> "running"
    [] stat[k] = "running" /\ phase[k] = "entered" -> "entered"
    [] stat[k] \in Ends /\ k \notin SendKeys      -> "pasted"
    [] stat[k] = "interrupted" /\ k \in SendKeys   -> "refused"
    [] OTHER                                       -> stat[k]

Promised == INSTANCE RuntimeTask WITH rt <- [k \in Keys |-> Seen(k)]

\* The host keeps the contract its clients rely on: an outcome that says that
\* Enter was not pressed is true, and an outcome never changes.
Contract == Promised!Spec
=============================================================================
