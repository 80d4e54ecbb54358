----------------------------- MODULE DesktopRuns -----------------------------
(***************************************************************************)
(* Runs of the desktop runtime for one reply draft (desktop automation):   *)
(* requests that paste or send the draft, each with an idempotency key,    *)
(* users that cancel a run, the rows of the runs, and the restart of the   *)
(* backend.  The runtime is the contract RuntimeTask.                      *)
(*                                                                         *)
(* Every statement is a transaction of its own.  A request makes at most   *)
(* one row, which is named after it.                                       *)
(***************************************************************************)
EXTENDS Naturals

CONSTANTS
  Requests,     \* calls that create a run
  Cancellers,   \* calls of cancel_run
  Keys,         \* idempotency keys
  SendKeys,     \* those of requests to send
  KeyOf,        \* [Requests -> Keys]
  PostSendVerify,
  MaxFaults,
  None

Actors == Requests \cup Cancellers

ASSUME ActorAssumption ==
  /\ Requests \cap Cancellers = {} /\ None \notin Actors
  /\ SendKeys \subseteq Keys /\ KeyOf \in [Requests -> Keys]
  /\ PostSendVerify \in BOOLEAN
ASSUME BoundAssumption == MaxFaults \in Nat

VARIABLES
  row,      \* request -> status of its run
  taskId,   \* request -> runtime_task_id of its run: no, current, or old (the runtime forgot it)
  pc,       \* actor -> step
  of,       \* actor -> the run it is about
  result,   \* actor -> what the runtime has told it of the task
  client,   \* of the runtime: none yet (and no runtime), live, dead (the runtime is gone),
            \* or none because of a runtime that an earlier backend has left
  rt,       \* key -> task of the runtime
  enters,   \* key -> how often Enter was pressed for it
  faults

vars == <<row, taskId, pc, of, result, client, rt, enters, faults>>

Runtime == INSTANCE RuntimeTask

Active == {"queued", "running"}
Statuses == {"none", "succeeded", "warning", "failed", "cancelled",
             "dropped",     \* cancelled without asking the runtime
             "recovered"}   \* failed, by reconcile_stale_runs
            \cup Active
Steps == {"idle", "checked", "created", "waiting", "cancelling", "applying",
          "dropping", "asking", "done"}

TypeOK ==
  /\ row \in [Requests -> Statuses]
  /\ taskId \in [Requests -> {"no", "current", "old"}]
  /\ pc \in [Actors -> Steps]
  /\ of \in [Actors -> Requests \cup {None}]
  /\ result \in [Actors -> Runtime!States]
  /\ client \in {"none", "live", "dead", "left"}
  /\ rt \in [Keys -> Runtime!States]
  /\ enters \in [Keys -> Nat]
  /\ faults \in 0 .. MaxFaults

Init ==
  /\ row = [r \in Requests |-> "none"] /\ taskId = [r \in Requests |-> "no"]
  /\ pc = [a \in Actors |-> "idle"] /\ result = [a \in Actors |-> "none"]
  /\ of = [a \in Actors |-> IF a \in Requests THEN a ELSE None]
  /\ client = "none" /\ Runtime!Init
  /\ enters = [k \in Keys |-> 0] /\ faults = 0

-----------------------------------------------------------------------------
Fault == faults < MaxFaults /\ faults' = faults + 1

Goto(a, step) == pc' = [pc EXCEPT ![a] = step]

Key(a) == KeyOf[of[a]]

Over(s) == s \notin Runtime!InProgress

\* An exception, or the answer of the call; the row stays as it is.
Leave(a) == Goto(a, "done") /\ UNCHANGED <<row, taskId, of, result, client, rt, enters>>

Forgotten == [r \in Requests |-> IF taskId[r] = "current" THEN "old" ELSE taskId[r]]

-----------------------------------------------------------------------------
(* A request *)

AlreadySent == \E s \in Requests : KeyOf[s] \in SendKeys /\ row[s] = "succeeded"

\* Mutant: no lookup of the request digest.
NeverMade(r) == FALSE

\* find_run_by_request_digest.
RunExists(r) == \E s \in Requests : KeyOf[s] = KeyOf[r] /\ row[s] # "none"

Check(r) ==
  /\ pc[r] = "idle"
  /\ Goto(r, IF AlreadySent \/ RunExists(r) THEN "done" ELSE "checked")
  /\ UNCHANGED <<row, taskId, of, result, client, rt, enters, faults>>

\* Mutant: no unique index.
NoneActive(r) == FALSE

\* The unique index over active runs of the draft.
OtherActive(r) == \E s \in Requests \ {r} : row[s] \in Active

Create(r) ==
  /\ pc[r] = "checked" /\ ~OtherActive(r)
  /\ row' = [row EXCEPT ![r] = "queued"]
  /\ Goto(r, "created")
  /\ UNCHANGED <<taskId, of, result, client, rt, enters, faults>>

CreateConflict(r) == pc[r] = "checked" /\ OtherActive(r) /\ Leave(r) /\ UNCHANGED faults

AtRuntime(r) == rt[KeyOf[r]]

\* ensure_runtime_client: starts the runtime at its first use.
Connected == client \in {"none", "live"} /\ client' = "live"

\* The client it has is of no use, or the runtime that was left stands in the
\* way of another one (RUNTIME_OWNERSHIP_CONFLICT).
Disconnected == client \in {"dead", "left"} /\ UNCHANGED client

Submit(r) ==
  /\ pc[r] = "created" /\ Connected
  /\ rt' = IF AtRuntime(r) = "none" THEN [rt EXCEPT ![KeyOf[r]] = "running"] ELSE rt
  /\ UNCHANGED <<row, taskId, of, enters>>

\* The runtime has the task, or had it from an earlier request with the key.
Submitted(r) ==
  /\ Submit(r)
  /\ IF AtRuntime(r) = "none" \/ ~Over(AtRuntime(r))
       THEN Goto(r, "waiting") /\ UNCHANGED result
       ELSE Goto(r, "applying") /\ result' = [result EXCEPT ![r] = AtRuntime(r)]
  /\ UNCHANGED faults

ReplyLost(r) == Fault /\ Submit(r) /\ Goto(r, "done") /\ UNCHANGED result

\* The runtime cannot be started or reached.
NotSubmitted(r) ==
  /\ pc[r] = "created"
  /\ \/ Disconnected /\ UNCHANGED faults
     \/ Fault
  /\ Leave(r)

Unreachable(a) ==
  /\ pc[a] \in {"waiting", "cancelling"} /\ client = "dead"
  /\ Leave(a)
  /\ UNCHANGED faults

Obtained(a) ==
  /\ client = "live" /\ Over(rt[Key(a)])
  /\ result' = [result EXCEPT ![a] = rt[Key(a)]]
  /\ Goto(a, "applying")
  /\ UNCHANGED <<row, taskId, of, client, rt, enters, faults>>

\* A poll, or the answer of the cancellation, finds the task over.
Poll(a) == pc[a] \in {"waiting", "cancelling"} /\ Obtained(a)

\* The deadline has passed, and the task is cancelled.
Timeout(r) ==
  /\ pc[r] = "waiting" /\ client = "live"
  /\ Goto(r, "cancelling")
  /\ UNCHANGED <<row, taskId, of, result, client, rt, enters, faults>>

\* The cancelled task is not over after the grace period.
GraceOver(a) ==
  /\ pc[a] = "cancelling" /\ client = "live"
  /\ result' = [result EXCEPT ![a] = "running"]
  /\ Goto(a, "applying")
  /\ UNCHANGED <<row, taskId, of, client, rt, enters, faults>>

\* Mutant: whatever is not known to have been sent may have been.
DecodedKindly(s) == IF s = "sent" THEN {"succeeded"} ELSE {"warning"}

\* What the decoder makes of a task; of a paste only the runtime knows.
Decoded(s) ==
  CASE s \in Runtime!InProgress          -> {"running"}
    [] s = "sent"                        -> {"succeeded"}
    [] s = "unverified"                  -> {"warning"}
    [] s \in {"cancelled", "late_cancel"} -> {"cancelled"}
    [] s = "pasted"                      -> {"succeeded", "failed", "cancelled"}
    [] OTHER                             -> {"failed"}

\* _apply_runtime_task_result: the row is written whatever its status, unless
\* the index refuses a second active run.
Apply(a) ==
  /\ pc[a] = "applying"
  /\ \E s \in Decoded(result[a]) :
       IF s \in Active /\ OtherActive(of[a])
         THEN UNCHANGED <<row, taskId>>
         ELSE /\ row' = [row EXCEPT ![of[a]] = s]
              /\ taskId' = [taskId EXCEPT ![of[a]] = IF client = "live" THEN "current" ELSE "old"]
  /\ Goto(a, "done")
  /\ UNCHANGED <<of, result, client, rt, enters, faults>>

-----------------------------------------------------------------------------
(* cancel_run *)

Look(c, r) ==
  /\ pc[c] = "idle" /\ row[r] # "none"
  /\ of' = [of EXCEPT ![c] = r]
  /\ Goto(c, IF taskId[r] = "no" THEN "dropping" ELSE "asking")
  /\ UNCHANGED <<row, taskId, result, client, rt, enters, faults>>

\* Nobody knows a task of the run.
Drop(c) ==
  /\ pc[c] = "dropping"
  /\ row' = [row EXCEPT ![of[c]] = "dropped"]
  /\ Goto(c, "done")
  /\ UNCHANGED <<taskId, of, result, client, rt, enters, faults>>

\* The runtime is asked to cancel the task and polled for a while.
Ask(c) ==
  /\ pc[c] = "asking" /\ client = "live" /\ taskId[of[c]] = "current"
  /\ Goto(c, "cancelling")
  /\ UNCHANGED <<row, taskId, of, result, client, rt, enters, faults>>

\* The runtime cannot be reached, or is another one and does not know the task.
AskFails(c) ==
  /\ pc[c] = "asking"
  /\ Disconnected \/ (taskId[of[c]] = "old" /\ Connected)
  /\ Goto(c, "done")
  /\ UNCHANGED <<row, taskId, of, result, rt, enters, faults>>

-----------------------------------------------------------------------------
(* The runtime, and restarts *)

Enter(k) ==
  /\ Runtime!Enter(k)
  /\ enters' = [enters EXCEPT ![k] = @ + 1]
  /\ UNCHANGED <<row, taskId, pc, of, result, client, faults>>

End(k) ==
  /\ Runtime!End(k)
  /\ UNCHANGED <<row, taskId, pc, of, result, client, enters, faults>>

\* The application starts the runtime when it starts, or asks for its status.
StartRuntime ==
  /\ Connected
  /\ UNCHANGED <<row, taskId, pc, of, result, rt, enters, faults>>

\* The client that is held keeps pointing to the runtime that is gone.
RuntimeDies ==
  /\ Fault /\ client = "live"
  /\ client' = "dead" /\ Runtime!Restart /\ taskId' = Forgotten
  /\ UNCHANGED <<row, pc, of, result, enters>>

\* Somebody closes the runtime that was left.
LeftRuntimeCloses ==
  /\ client = "left"
  /\ client' = "none" /\ Runtime!Restart /\ taskId' = Forgotten
  /\ UNCHANGED <<row, pc, of, result, enters, faults>>

\* The backend crashes and starts again; runs that have been active for long
\* enough are failed.  The runtime goes on with its tasks.
BackendRestart ==
  /\ Fault
  /\ pc' = [a \in Actors |-> IF pc[a] = "idle" THEN "idle" ELSE "done"]
  /\ client' = IF client \in {"live", "left"} THEN "left" ELSE "none"
  /\ \E Stale \in SUBSET {r \in Requests : row[r] \in Active} :
       row' = [r \in Requests |-> IF r \in Stale THEN "recovered" ELSE row[r]]
  /\ UNCHANGED <<taskId, of, result, rt, enters>>

-----------------------------------------------------------------------------
Request(r) ==
  \/ Check(r) \/ Create(r) \/ CreateConflict(r) \/ Submitted(r) \/ NotSubmitted(r)
  \/ ReplyLost(r) \/ Unreachable(r) \/ Poll(r) \/ Timeout(r) \/ GraceOver(r) \/ Apply(r)

Canceller(c) ==
  \/ \E r \in Requests : Look(c, r)
  \/ Drop(c) \/ Ask(c) \/ AskFails(c)
  \/ Unreachable(c) \/ Poll(c) \/ GraceOver(c) \/ Apply(c)

Next ==
  \/ \E r \in Requests : Request(r)
  \/ \E c \in Cancellers : Canceller(c)
  \/ \E k \in Keys : Enter(k) \/ End(k)
  \/ StartRuntime \/ RuntimeDies \/ LeftRuntimeCloses \/ BackendRestart

Spec == Init /\ [][Next]_vars

-----------------------------------------------------------------------------
(* Properties *)

\* Users have been told that the run is over although nobody knows that.
GivenUp(k) == \E r \in Requests : KeyOf[r] = k /\ row[r] \in {"dropped", "recovered"}

\* A task that works on the draft has an active run, which the index sees,
\* unless the run was cancelled before its task was known, or recovered.
Tracked ==
  \A k \in Keys : ~Over(rt[k]) =>
    GivenUp(k) \/ \E r \in Requests : KeyOf[r] = k /\ row[r] \in Active

\* Two tasks never type into the window for one draft at once, except after
\* such a run was given up.
OneInFlight ==
  \A j, k \in Keys :
    ~Over(rt[j]) /\ ~Over(rt[k]) /\ j # k => GivenUp(j) \/ GivenUp(k)

\* A request that is repeated with its key does not send again, although the
\* runtime forgets its tasks and the reply may be lost.
KeySentOnce == \A k \in Keys : enters[k] <= 1

\* What the run of a send says of it is true, whoever wrote it and however the
\* runtime and the backend went on: Enter was pressed for a run that succeeded,
\* with or without a warning, and for none that failed, unless a verifier may
\* refuse what was sent.
OutcomeTrue ==
  \A r \in Requests : KeyOf[r] \in SendKeys =>
    /\ row[r] \in {"succeeded", "warning"} => enters[KeyOf[r]] # 0
    /\ row[r] = "failed" /\ ~PostSendVerify => enters[KeyOf[r]] = 0
=============================================================================
