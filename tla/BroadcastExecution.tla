------------------------- MODULE BroadcastExecution -------------------------
(***************************************************************************)
(* Execution of broadcast drafts: the API operations on execution batches  *)
(* and tasks (BroadcastService), the worker that claims and runs one task  *)
(* at a time (BroadcastExecutionWorker, the lane and claim statements of   *)
(* BroadcastRepository), startup recovery, and the desktop runtime that    *)
(* pastes a draft or types it and presses Enter.                           *)
(*                                                                         *)
(* One action is one database transaction, one read made outside a         *)
(* transaction, or one call to the runtime; between two of them the        *)
(* handler awaits, and every other handler may run.  Handlers that read    *)
(* the row, decide, and then write in a transaction therefore take two     *)
(* actions.                                                                *)
(***************************************************************************)
EXTENDS BatchStatus, Integers, FiniteSets

CONSTANTS
  Drafts,        \* rows of broadcast_drafts
  Batches,       \* ids of execution batches, natural numbers
  Tasks,         \* ids of execution tasks, natural numbers
  BatchOf,       \* [Tasks -> Batches]
  DraftOf,       \* [Tasks -> Drafts]
  SendBatches,   \* batches of mode "send"; the others are "paste_only"
  Workers,       \* worker processes sharing the database
  Callers,       \* HTTP requests being served
  HostOf,        \* [Callers -> Workers], the process that serves a request
  Ops,           \* the API operations requests may ask for
  Faults,        \* the kinds of fault that may happen
  MaxFaults,     \* bound: faults in a behaviour
  MaxAttempts,   \* bound: attempts of one task
  ReuseIds,      \* ids of deleted rows come back (SQLite) or not (PostgreSQL)
  PostSendVerify,\* the runtime can confirm that a message was sent
  None

Executors == Workers \cup Callers
Keys      == Tasks \X (1 .. MaxAttempts)   \* idempotency keys broadcast:{task}:{attempt}
TasksOf(b) == {t \in Tasks : BatchOf[t] = b}
IsSend(t)  == BatchOf[t] \in SendBatches
SendKeys   == {k \in Keys : IsSend(k[1])}

AllOps    == {"create", "start", "resume", "pause", "cancel_batch", "cancel_task",
              "retry", "run_task", "mark", "clear"}
AllFaults == {"crash", "stop", "runtime_restart", "db_failure", "timeout",
              "lost_reply", "attachment"}

ASSUME IdAssumption ==
  /\ Tasks \subseteq Nat /\ Batches \subseteq Nat
  /\ BatchOf \in [Tasks -> Batches] /\ DraftOf \in [Tasks -> Drafts]
  /\ SendBatches \subseteq Batches
  /\ HostOf \in [Callers -> Workers]
ASSUME BoundAssumption ==
  MaxFaults \in Nat /\ MaxAttempts \in Nat \ {0}
ASSUME OptionAssumption ==
  /\ Ops \subseteq AllOps /\ Faults \subseteq AllFaults
  /\ ReuseIds \in BOOLEAN /\ PostSendVerify \in BOOLEAN
ASSUME NoneAssumption ==
  /\ None \notin Tasks \cup Batches \cup Workers \cup Callers
  /\ Workers \cap Callers = {}
  /\ "orphan" \notin Workers \cup Callers \cup {None}

VARIABLES
  status,      \* task -> status of its row, or "absent" / "deleted"
  attempts,    \* task -> attempt_count
  rows,        \* task -> attempt_no of its rows in broadcast_execution_attempts
  evid,        \* task -> what the latest attempt's row proves of a send
  claim,       \* task -> holder of its claim_token
  bstatus,     \* batch -> status of its row, or "absent" / "deleted"
  sendStatus,  \* draft -> send_status
  reserved,    \* draft -> active_send_task_id
  lane,        \* holder of the lane's owner_token
  fresh,       \* the lane's lease has not expired
  renew,       \* worker -> its renew_leases task is alive
  pc, job, no, res, \* executor -> step, task, attempt number, outcome in hand
  target,      \* caller -> batch its request is about
  todo,        \* worker -> tasks its reconcile has still to settle
  rt,          \* key -> state of the runtime's task, "none" when it has none
  enters,      \* ghost: draft -> Enter presses since it was last marked pending
  stale,       \* ghost: keys still in progress when their draft was marked pending
  faults       \* faults so far

taskVars    == <<status, attempts, rows, evid, claim>>
draftVars   == <<sendStatus, reserved>>
laneVars    == <<lane, fresh>>
localVars   == <<renew, pc, job, no, res, target, todo>>
runtimeVars == <<rt, enters, stale>>
vars == <<taskVars, bstatus, draftVars, laneVars, localVars, runtimeVars, faults>>

\* The desktop runtime, as its clients may rely on it.
Runtime == INSTANCE RuntimeTask

Gone      == {"absent", "deleted"}
Evidence  == {"nothing", "sent", "cancelled", "no_enter"}
Denied    == {"cancelled", "no_enter"}
Outcomes  == {"succeeded", "interrupted", "cancelled", "failed_no_enter", "failed"}
WorkerPc  == {"down", "recovering", "idle", "claimed", "cancel_found", "send_ready",
              "send_started", "ready", "attempted", "polling", "cancel_polling",
              "result", "release"}
CallerPc  == {"idle", "start", "pause", "cancel_batch", "cancel_task", "retry",
              "run_task", "ready", "attempted", "result"}

TypeOK ==
  /\ status \in [Tasks -> TaskStatus \cup Gone]
  /\ attempts \in [Tasks -> 0 .. MaxAttempts]
  /\ rows \in [Tasks -> SUBSET (1 .. MaxAttempts)]
  /\ evid \in [Tasks -> Evidence]
  /\ claim \in [Tasks -> Workers \cup {None, "orphan"}]
  /\ bstatus \in [Batches -> BatchStatuses \cup Gone]
  /\ sendStatus \in [Drafts -> {"pending", "sent", "unknown"}]
  /\ reserved \in [Drafts -> Tasks \cup {None}]
  /\ lane \in Workers \cup {None, "orphan"}
  /\ fresh \in BOOLEAN
  /\ renew \in [Workers -> BOOLEAN]
  /\ pc \in [Executors -> WorkerPc \cup CallerPc]
  /\ job \in [Executors -> Tasks \cup {None}]
  /\ no \in [Executors -> 0 .. MaxAttempts]
  /\ res \in [Executors -> Outcomes \cup {None}]
  /\ target \in [Callers -> Batches \cup {None}]
  /\ todo \in [Workers -> SUBSET Tasks]
  /\ rt \in [Keys -> Runtime!States]
  /\ enters \in [Drafts -> 0 .. 2]
  /\ stale \in SUBSET Keys
  /\ faults \in 0 .. MaxFaults

Init ==
  /\ status = [t \in Tasks |-> "absent"]
  /\ attempts = [t \in Tasks |-> 0]
  /\ rows = [t \in Tasks |-> {}]
  /\ evid = [t \in Tasks |-> "nothing"]
  /\ claim = [t \in Tasks |-> None]
  /\ bstatus = [b \in Batches |-> "absent"]
  /\ sendStatus = [d \in Drafts |-> "pending"]
  /\ reserved = [d \in Drafts |-> None]
  /\ lane = None /\ fresh = FALSE
  /\ renew = [w \in Workers |-> FALSE]
  /\ pc = [e \in Executors |-> IF e \in Workers THEN "down" ELSE "idle"]
  /\ job = [e \in Executors |-> None]
  /\ no = [e \in Executors |-> 0]
  /\ res = [e \in Executors |-> None]
  /\ target = [c \in Callers |-> None]
  /\ todo = [w \in Workers |-> {}]
  /\ Runtime!Init
  /\ enters = [d \in Drafts |-> 0]
  /\ stale = {}
  /\ faults = 0

-----------------------------------------------------------------------------
(* Statements on the database *)

\* UPDATE ... WHERE id = t: a row that is gone stays gone.
WithStatus(t, s) ==
  [status EXCEPT ![t] = IF @ \in Gone THEN @ ELSE s]
WithBatch(b, s) ==
  [bstatus EXCEPT ![b] = IF @ \in Gone THEN @ ELSE s]

\* recompute_execution_batch_counts, after the task statuses became `st` and
\* the batch statuses `bs`.
Recomputed(b, st, bs) ==
  [bs EXCEPT ![b] = IF @ \in Gone THEN @
                    ELSE DerivedStatus({st[t] : t \in TasksOf(b)}, @)]

\* Mutant: the reservation is not released.
ReleasedNever(t) == reserved

\* release_draft_send_reservation.
Released(t) ==
  [reserved EXCEPT ![DraftOf[t]] = IF @ = t THEN None ELSE @]

\* Mutants: the task status is copied; an unknown outcome counts as not sent.
DraftCopies(s) == s
DraftForgets(s) == IF s = "succeeded" THEN "sent" ELSE "pending"

\* _build_send_status_updates: the draft's send_status after a task status.
DraftAfter(s) ==
  CASE s = "succeeded" -> "sent" [] s = "interrupted" -> "unknown" [] OTHER -> "pending"

TaskStatusFor(outcome) == IF outcome = "failed_no_enter" THEN "failed" ELSE outcome

\* get_active_send_task_for_draft finds no task.
NoActiveSendTask(d) ==
  \A t \in Tasks : DraftOf[t] = d /\ IsSend(t) => status[t] \notin {"pending", "running"}

\* Mutant: the reservation of another task is overwritten.
CanSteal(d) == sendStatus[d] = "pending"

\* _reserve_draft_send_task does not raise.
CanReserve(d) == reserved[d] = None /\ sendStatus[d] = "pending"

Fault(kind) == kind \in Faults /\ faults < MaxFaults /\ faults' = faults + 1

-----------------------------------------------------------------------------
(* API operations *)

\* The id the database gives the next batch: one more than the highest id in
\* use (SQLite), or one never used (PostgreSQL, where deleted ids stay taken).
NextId(b) ==
  /\ bstatus[b] = "absent"
  /\ \A c \in Batches : c > b => bstatus[c] = "absent"
  /\ \A c \in Batches : c < b => \E e \in Batches : c <= e /\ e < b /\ bstatus[e] # "absent"

\* create_execution_batch: validation, the rows and the reservations of the
\* drafts are one transaction, rolled back when a draft cannot be reserved.
\* No draft, or a draft given twice, is refused: a send by the second
\* reservation, a paste by _assert_unique_target_conversations.
CreateBatch(b) ==
  LET ds == {DraftOf[t] : t \in TasksOf(b)}
  IN
  /\ "create" \in Ops
  /\ NextId(b)
  /\ TasksOf(b) # {}
  /\ \A t, u \in TasksOf(b) : DraftOf[t] = DraftOf[u] => t = u
  /\ IF b \in SendBatches
     THEN \A d \in ds : CanReserve(d) /\ NoActiveSendTask(d)
     ELSE /\ Cardinality({sendStatus[d] : d \in ds}) = 1
          /\ Cardinality(ds) > 1 => \A d \in ds : sendStatus[d] # "sent"
  /\ status' = [t \in Tasks |-> IF BatchOf[t] = b THEN "pending" ELSE status[t]]
  /\ bstatus' = [bstatus EXCEPT ![b] = IF b \in SendBatches THEN "queued" ELSE "created"]
  /\ reserved' = IF b \in SendBatches
                 THEN [d \in Drafts |-> IF d \in ds
                                        THEN CHOOSE t \in TasksOf(b) : DraftOf[t] = d
                                        ELSE reserved[d]]
                 ELSE reserved
  /\ UNCHANGED <<attempts, rows, evid, claim, sendStatus, laneVars, localVars, runtimeVars, faults>>

\* A request whose checks passed goes on to its transaction.
Accept(c, op, t, b) ==
  /\ pc[c] = "idle"
  /\ pc' = [pc EXCEPT ![c] = op]
  /\ job' = [job EXCEPT ![c] = t]
  /\ target' = [target EXCEPT ![c] = b]
  /\ UNCHANGED <<taskVars, bstatus, draftVars, laneVars, renew, no, res, todo, runtimeVars, faults>>

\* The request is answered.
Answered(c) ==
  /\ pc' = [pc EXCEPT ![c] = "idle"]
  /\ job' = [job EXCEPT ![c] = None]
  /\ target' = [target EXCEPT ![c] = None]
  /\ no' = [no EXCEPT ![c] = 0]
  /\ res' = [res EXCEPT ![c] = None]
  /\ UNCHANGED <<renew, todo>>

StartCheck(c, b) ==
  /\ b \notin SendBatches
  /\ \/ "start" \in Ops /\ bstatus[b] \in {"created", "paused", "interrupted"}
     \/ "resume" \in Ops /\ bstatus[b] = "paused"
  /\ Accept(c, "start", None, b)

StartCommit(c) ==
  /\ pc[c] = "start"
  /\ bstatus' = Recomputed(target[c], status, WithBatch(target[c], "queued"))
  /\ Answered(c)
  /\ UNCHANGED <<taskVars, draftVars, laneVars, runtimeVars, faults>>

PauseCheck(c, b) ==
  /\ "pause" \in Ops
  /\ bstatus[b] \in {"queued", "running"}
  /\ Accept(c, "pause", None, b)

\* The batch is set to paused whatever it has become, without a recompute.
PauseCommit(c) ==
  /\ pc[c] = "pause"
  /\ bstatus' = WithBatch(target[c], "paused")
  /\ Answered(c)
  /\ UNCHANGED <<taskVars, draftVars, laneVars, runtimeVars, faults>>

CancelBatchCheck(c, b) ==
  /\ "cancel_batch" \in Ops
  /\ bstatus[b] \in ActiveBatch \cup {"interrupted", "partially_failed", "failed"}
  /\ Accept(c, "cancel_batch", None, b)

\* The transaction of cancel_execution_batch, cancelling the tasks `dropped`.
CancelTasks(c, dropped) ==
  LET b == target[c] IN
  /\ pc[c] = "cancel_batch"
  /\ status' = [t \in Tasks |->
                  CASE t \in dropped -> "cancelled"
                    [] t \in TasksOf(b) \ dropped /\ status[t] = "running" -> "cancelling"
                    [] OTHER -> status[t]]
  /\ reserved' = [d \in Drafts |->
                    IF b \in SendBatches /\ reserved[d] \in dropped /\ DraftOf[reserved[d]] = d
                    THEN None ELSE reserved[d]]
  /\ bstatus' = Recomputed(b, status', WithBatch(b, "cancelling"))
  /\ Answered(c)
  /\ UNCHANGED <<attempts, rows, evid, claim, sendStatus, laneVars, runtimeVars, faults>>

\* Mutant: tasks that have ended since are cancelled too.
CancelAll(c) == CancelTasks(c, {t \in TasksOf(target[c]) : status[t] \notin Gone \cup {"running"}})

\* Pending tasks are cancelled and give their drafts back; running ones are
\* flagged.  Their runtime_task_id is still NULL, so the runtime is not told.
CancelBatchCommit(c) == CancelTasks(c, {t \in TasksOf(target[c]) : status[t] = "pending"})

CancelTaskCheck(c, t) ==
  /\ "cancel_task" \in Ops
  /\ status[t] = "pending"
  /\ Accept(c, "cancel_task", t, None)

\* The status is overwritten whatever the task has become; its claim stays.
CancelTaskCommit(c) ==
  LET t == job[c] IN
  /\ pc[c] = "cancel_task"
  /\ status' = WithStatus(t, "cancelled")
  /\ reserved' = IF IsSend(t) THEN Released(t) ELSE reserved
  /\ bstatus' = Recomputed(BatchOf[t], status', bstatus)
  /\ Answered(c)
  /\ UNCHANGED <<attempts, rows, evid, claim, sendStatus, laneVars, runtimeVars, faults>>

\* A send is retried only when its latest attempt proves that Enter was not
\* pressed (_get_send_task_retry_state); a paste always.  The bound on attempts
\* is the model's: the code has none.
RetryCheck(c, t) ==
  /\ "retry" \in Ops
  /\ status[t] \in {"failed", "interrupted"}
  /\ IsSend(t) => status[t] = "failed" /\ evid[t] \in Denied
  /\ attempts[t] < MaxAttempts
  /\ Accept(c, "retry", t, None)

\* Without its row the task is not updated, but its draft is reserved.  A draft
\* that cannot be reserved rolls everything back.
RetryCommit(c) ==
  LET t == job[c]
      b == BatchOf[t]
      d == DraftOf[t]
  IN
  /\ pc[c] = "retry"
  /\ IF IsSend(t) /\ ~CanReserve(d)
     THEN UNCHANGED <<status, claim, reserved, bstatus>>
     ELSE /\ attempts[t] < MaxAttempts
          /\ status' = WithStatus(t, "pending")
          /\ claim' = [claim EXCEPT ![t] = None]
          /\ reserved' = IF IsSend(t) THEN [reserved EXCEPT ![d] = t] ELSE reserved
          /\ bstatus' = Recomputed(b, status', WithBatch(b, "queued"))
  /\ Answered(c)
  /\ UNCHANGED <<attempts, rows, evid, sendStatus, laneVars, runtimeVars, faults>>

\* update_draft_statuses: a conditional UPDATE, so check and write are atomic.
\* It looks neither at the reservation nor at the task that holds it.
MarkDraft(d, s) ==
  /\ "mark" \in Ops
  /\ sendStatus[d] \in IF s = "sent" THEN {"pending", "unknown"} ELSE {"sent", "unknown"}
  /\ sendStatus' = [sendStatus EXCEPT ![d] = s]
  /\ IF s = "pending"
     THEN /\ enters' = [enters EXCEPT ![d] = 0]
          /\ stale' = stale \cup {k \in Keys : DraftOf[k[1]] = d /\ rt[k] = "running"}
     ELSE UNCHANGED <<enters, stale>>
  /\ UNCHANGED <<taskVars, bstatus, reserved, laneVars, localVars, rt, faults>>

\* clear_terminal_execution_batches: the settled batches, their tasks and
\* their attempts are deleted.
ClearBatches ==
  LET done == {b \in Batches : bstatus[b] \in SettledBatch}
      gone == {t \in Tasks : BatchOf[t] \in done}
      left == IF ReuseIds THEN "absent" ELSE "deleted"
  IN
  /\ "clear" \in Ops
  /\ done # {}
  /\ status' = [t \in Tasks |-> IF t \in gone THEN left ELSE status[t]]
  /\ bstatus' = [b \in Batches |-> IF b \in done THEN left ELSE bstatus[b]]
  /\ attempts' = [t \in Tasks |-> IF t \in gone THEN 0 ELSE attempts[t]]
  /\ rows' = [t \in Tasks |-> IF t \in gone THEN {} ELSE rows[t]]
  /\ evid' = [t \in Tasks |-> IF t \in gone THEN "nothing" ELSE evid[t]]
  /\ claim' = [t \in Tasks |-> IF t \in gone THEN None ELSE claim[t]]
  /\ UNCHANGED <<draftVars, laneVars, localVars, runtimeVars, faults>>

RunTaskCheck(c, t) ==
  /\ "run_task" \in Ops
  /\ status[t] = "pending" /\ ~IsSend(t)
  /\ Accept(c, "run_task", t, None)

\* start_execution_task: the request runs the paste itself, without the lane
\* and without a claim.  A task that is gone ends in an error.
RunTaskCommit(c) ==
  LET t == job[c] IN
  /\ pc[c] = "run_task"
  /\ status' = WithStatus(t, "running")
  /\ bstatus' = WithBatch(BatchOf[t], "running")
  /\ IF status[t] \in Gone
     THEN Answered(c)
     ELSE /\ pc' = [pc EXCEPT ![c] = "ready"]
          /\ no' = [no EXCEPT ![c] = attempts[t]]
          /\ UNCHANGED <<renew, job, res, target, todo>>
  /\ UNCHANGED <<attempts, rows, evid, claim, draftVars, laneVars, runtimeVars, faults>>

-----------------------------------------------------------------------------
(* The worker: startup recovery, claim, lease *)

Goto(e, step) == pc' = [pc EXCEPT ![e] = step]

\* Mutant: tasks being cancelled are not recovered.
LeftRunning == {t \in Tasks : status[t] = "running"}

\* Tasks of a run that did not end.
Unfinished == {t \in Tasks : status[t] \in {"running", "cancelling"}}

\* BroadcastExecutionWorker.start: the tasks to reconcile are read once,
\* before any of them is written, whoever runs them.
Start(w) ==
  /\ pc[w] = "down"
  /\ todo' = [todo EXCEPT ![w] = Unfinished]
  /\ Goto(w, "recovering")
  /\ UNCHANGED <<taskVars, bstatus, draftVars, laneVars, renew, job, no, res, target, runtimeVars, faults>>

\* One task of reconcile_running_executions is written with status s, its
\* draft with mark m.  runtime_task_id is NULL, so the runtime is not asked,
\* and no claim is checked.
RecoverTask(w, t, s, m) ==
  /\ pc[w] = "recovering" /\ t \in todo[w]
  /\ status' = WithStatus(t, s)
  /\ claim' = [claim EXCEPT ![t] = None]
  /\ sendStatus' = IF IsSend(t) THEN [sendStatus EXCEPT ![DraftOf[t]] = m] ELSE sendStatus
  /\ reserved' = IF IsSend(t) THEN Released(t) ELSE reserved
  /\ bstatus' = Recomputed(BatchOf[t], status', bstatus)
  /\ todo' = [todo EXCEPT ![w] = @ \ {t}]
  /\ UNCHANGED <<attempts, rows, evid, laneVars, renew, pc, job, no, res, target, runtimeVars>>

\* What recovery makes of the row: a send that proves nothing has an unknown
\* outcome, and a paste has no proof.
RecoveredAs(t) ==
  CASE ~IsSend(t)            -> "interrupted"
    [] evid[t] = "sent"      -> "succeeded"
    [] evid[t] = "cancelled" -> "cancelled"
    [] evid[t] = "no_enter"  -> "failed"
    [] OTHER                 -> "interrupted"

Reconcile(w, t) ==
  /\ RecoverTask(w, t, RecoveredAs(t), DraftAfter(RecoveredAs(t)))
  /\ UNCHANGED faults

\* What the fallback transaction marks the draft of a send as.
FallbackMark(proof) ==
  CASE proof = "sent"    -> "sent"
    [] proof \in Denied  -> "pending"
    [] OTHER             -> "unknown"

\* The write of a result failed; the fallback transaction records interrupted.
ReconcileFallback(w, t) ==
  /\ Fault("db_failure")
  /\ rows[t] # {}
  /\ RecoverTask(w, t, "interrupted", FallbackMark(evid[t]))

\* The fallback failed as well, or there was none: start raises.
ReconcileAbort(w) ==
  /\ Fault("db_failure")
  /\ pc[w] = "recovering" /\ todo[w] # {}
  /\ todo' = [todo EXCEPT ![w] = {}]
  /\ Goto(w, "down")
  /\ UNCHANGED <<taskVars, bstatus, draftVars, laneVars, renew, job, no, res, target, runtimeVars>>

\* At the end of recovery a lane whose lease has expired is freed.
Recovered(w) ==
  /\ pc[w] = "recovering" /\ todo[w] = {}
  /\ lane' = IF fresh THEN lane ELSE None
  /\ Goto(w, "idle")
  /\ UNCHANGED <<taskVars, bstatus, draftVars, fresh, renew, job, no, res, target, todo, runtimeVars, faults>>

Claimable == {t \in Tasks : status[t] = "pending" /\ bstatus[BatchOf[t]] \in {"queued", "running"}}

\* Mutant: a lane whose holder died is never taken over.
LaneUnowned == lane = None

\* acquire_execution_lane: nobody holds the lane, or its lease has expired.
LaneFree == ~fresh

\* claim_next_execution_task: the lane, then the first pending task, in one
\* transaction.  Batches are taken in the order of their ids, which created_at
\* follows (ties within its one-second resolution are not modelled).
Claim(w) ==
  /\ pc[w] = "idle" /\ LaneFree
  /\ \E t \in Claimable :
       /\ \A u \in Claimable : t <= u
       /\ status' = [status EXCEPT ![t] = "running"]
       /\ claim' = [claim EXCEPT ![t] = w]
       /\ bstatus' = [bstatus EXCEPT ![BatchOf[t]] = "running"]
       /\ job' = [job EXCEPT ![w] = t]
  /\ lane' = w /\ fresh' = TRUE
  /\ renew' = [renew EXCEPT ![w] = TRUE]
  /\ Goto(w, "claimed")
  /\ UNCHANGED <<attempts, rows, evid, draftVars, no, res, target, todo, runtimeVars, faults>>

\* With nothing to claim the lane just acquired is released.
ClaimNothing(w) ==
  /\ pc[w] = "idle" /\ LaneFree /\ Claimable = {} /\ lane # None
  /\ lane' = None
  /\ UNCHANGED <<taskVars, bstatus, draftVars, fresh, localVars, runtimeVars, faults>>

\* renew_leases ends when either renewal finds its row changed, or raises.
RenewStop(w) ==
  /\ renew[w]
  /\ \/ /\ lane # w \/ status[job[w]] # "running" \/ claim[job[w]] # w
        /\ UNCHANGED faults
     \/ Fault("db_failure")
  /\ renew' = [renew EXCEPT ![w] = FALSE]
  /\ UNCHANGED <<taskVars, bstatus, draftVars, laneVars, pc, job, no, res, target, todo, runtimeVars>>

\* Mutant: the lease expires although it is renewed.
LeaseExpireAnyway ==
  /\ fresh /\ fresh' = FALSE
  /\ UNCHANGED <<taskVars, bstatus, draftVars, lane, localVars, runtimeVars, faults>>

\* 45 seconds without a renewal.
LeaseExpire ==
  /\ fresh
  /\ lane \in Workers => ~renew[lane]
  /\ fresh' = FALSE
  /\ UNCHANGED <<taskVars, bstatus, draftVars, lane, localVars, runtimeVars, faults>>

\* The lane and claim of w, given up: to None by release_execution_lane and
\* clear_execution_task_claim, to "orphan" when nobody could release them.
GiveUp(w, holder) ==
  /\ lane' = IF lane = w THEN holder ELSE lane
  /\ fresh' = (fresh /\ ~(lane = w /\ holder = None))
  /\ claim' = [t \in Tasks |-> IF claim[t] = w THEN holder ELSE claim[t]]

\* Nothing is left in hand; requests served by w are dropped when `drop`.
Forget(w, step, drop) ==
  LET reset == {w} \cup {c \in Callers : drop /\ HostOf[c] = w} IN
  /\ pc' = [e \in Executors |-> IF e = w THEN step ELSE IF e \in reset THEN "idle" ELSE pc[e]]
  /\ job' = [e \in Executors |-> IF e \in reset THEN None ELSE job[e]]
  /\ no' = [e \in Executors |-> IF e \in reset THEN 0 ELSE no[e]]
  /\ res' = [e \in Executors |-> IF e \in reset THEN None ELSE res[e]]
  /\ target' = [c \in Callers |-> IF c \in reset THEN None ELSE target[c]]
  /\ renew' = [renew EXCEPT ![w] = FALSE]
  /\ todo' = [todo EXCEPT ![w] = {}]

\* The finally block of run_next_execution_task.
Release(w) ==
  /\ pc[w] = "release"
  /\ \/ GiveUp(w, None) /\ UNCHANGED faults
     \/ GiveUp(w, "orphan") /\ Fault("db_failure")
  /\ Forget(w, "idle", FALSE)
  /\ UNCHANGED <<status, attempts, rows, evid, bstatus, draftVars, runtimeVars>>

\* Shutdown cancels a run that outlives its ten seconds: only the finally
\* block still runs, unless it is what is cancelled, and the task stays
\* running in the database.
Stop(w) ==
  /\ Fault("stop")
  /\ pc[w] \notin {"down", "recovering"}
  /\ GiveUp(w, IF pc[w] = "release" THEN "orphan" ELSE None)
  /\ Forget(w, "down", TRUE)
  /\ UNCHANGED <<status, attempts, rows, evid, bstatus, draftVars, runtimeVars>>

Crash(w) ==
  /\ Fault("crash")
  /\ pc[w] # "down"
  /\ GiveUp(w, "orphan")
  /\ Forget(w, "down", TRUE)
  /\ UNCHANGED <<status, attempts, rows, evid, bstatus, draftVars, runtimeVars>>

-----------------------------------------------------------------------------
(* Running one task *)

LocalStep(e, step) ==
  /\ Goto(e, step)
  /\ UNCHANGED <<renew, job, no, res, target, todo>>

\* The first read of a claimed task, outside a transaction.  A paste that is
\* no longer running raises; a send looks for a cancellation first.
ReadTask(w) ==
  LET t == job[w] IN
  /\ pc[w] = "claimed"
  /\ no' = [no EXCEPT ![w] = attempts[t]]
  /\ Goto(w, CASE status[t] = "running" /\ ~IsSend(t) -> "ready"
               [] status[t] = "running" /\ IsSend(t)  -> "send_ready"
               [] status[t] = "cancelling" /\ IsSend(t) -> "cancel_found"
               [] OTHER -> "release")
  /\ UNCHANGED <<taskVars, bstatus, draftVars, laneVars, renew, job, res, target, todo, runtimeVars, faults>>

\* _execute_send_task found the task cancelling.
CancelClaimed(w) ==
  LET t == job[w] IN
  /\ pc[w] = "cancel_found"
  /\ status' = WithStatus(t, "cancelled")
  /\ reserved' = Released(t)
  /\ bstatus' = Recomputed(BatchOf[t], status', bstatus)
  /\ LocalStep(w, "release")
  /\ UNCHANGED <<attempts, rows, evid, claim, sendStatus, laneVars, runtimeVars, faults>>

\* _execute_send_task marks the task running, whatever it has become.
SendStarted(w) ==
  LET t == job[w] IN
  /\ pc[w] = "send_ready"
  /\ status' = WithStatus(t, "running")
  /\ bstatus' = WithBatch(BatchOf[t], "running")
  /\ LocalStep(w, "send_started")
  /\ UNCHANGED <<attempts, rows, evid, claim, draftVars, laneVars, runtimeVars, faults>>

\* attempt_count and the attempt's row are written together.
WriteAttempt(e, n) ==
  LET t == job[e] IN
  /\ attempts' = IF status[t] \in Gone THEN attempts ELSE [attempts EXCEPT ![t] = n]
  /\ rows' = [rows EXCEPT ![t] = @ \cup {n}]
  /\ evid' = [evid EXCEPT ![t] = "nothing"]
  /\ no' = [no EXCEPT ![e] = n]
  /\ Goto(e, "attempted")
  /\ UNCHANGED <<status, claim, draftVars, laneVars, renew, job, res, target, todo, runtimeVars, faults>>

\* Mutants: the number of the first attempt is used again; the number is not
\* checked against the rows.
InsertFirst(e) == WriteAttempt(e, 1)
InsertUnchecked(e) == no[e] < MaxAttempts /\ WriteAttempt(e, no[e] + 1)

\* (execution_task_id, attempt_no) is unique.
InsertAttempt(e) ==
  /\ no[e] + 1 \in (1 .. MaxAttempts) \ rows[job[e]]
  /\ WriteAttempt(e, no[e] + 1)

SendAttempt(w) ==
  /\ pc[w] = "send_started"
  /\ InsertAttempt(w)
  /\ UNCHANGED bstatus

PasteAttempt(e) ==
  /\ pc[e] = "ready"
  /\ InsertAttempt(e)
  /\ bstatus' = Recomputed(BatchOf[job[e]], status, bstatus)

\* After its last step a request is answered; the worker's finally block runs.
Finish(e) ==
  IF e \in Workers THEN LocalStep(e, "release") ELSE Answered(e)

\* The attempt's transaction failed.  A send is left running; a paste becomes
\* interrupted, unless that transaction fails as well.
AttemptFailed(e) ==
  LET t == job[e]
      conflict == no[e] + 1 \in rows[t]
  IN
  /\ pc[e] \in {"ready", "send_started"}
  /\ \/ conflict /\ UNCHANGED faults
     \/ Fault("db_failure")
  /\ \/ /\ pc[e] = "ready"
        /\ status' = WithStatus(t, "interrupted")
        /\ bstatus' = Recomputed(BatchOf[t], status', bstatus)
     \/ /\ pc[e] = "send_started" \/ faults' # faults
        /\ UNCHANGED <<status, bstatus>>
  /\ Finish(e)
  /\ UNCHANGED <<attempts, rows, evid, claim, draftVars, laneVars, runtimeVars>>

Key(e) == <<job[e], no[e]>>

Conclude(e, outcome) ==
  /\ Goto(e, "result")
  /\ res' = [res EXCEPT ![e] = outcome]
  /\ UNCHANGED <<renew, job, no, target, todo>>

\* The runtime accepts a request: a new key makes a task, a key it knows does
\* not (TaskRegistry.createOrGet).
Accepted(k) == Runtime!Accept(k) \/ (rt[k] # "none" /\ UNCHANGED rt)

\* send_message.  With a key the runtime knows from a deleted task it answers
\* with that task, or with a conflict when the texts differ.
CallSend(w) ==
  LET k == Key(w) IN
  /\ pc[w] = "attempted" /\ IsSend(job[w])
  /\ \/ Accepted(k) /\ LocalStep(w, "polling") /\ UNCHANGED faults
     \/ rt[k] # "none" /\ UNCHANGED rt /\ Conclude(w, "interrupted") /\ UNCHANGED faults
     \/ Fault("lost_reply") /\ (Accepted(k) \/ UNCHANGED rt) /\ Conclude(w, "interrupted")
     \/ Fault("attachment") /\ UNCHANGED rt /\ Conclude(w, "failed")
  /\ UNCHANGED <<taskVars, bstatus, draftVars, laneVars, enters, stale>>

\* paste_draft.  The runtime answers before it has pasted, and the answer is
\* taken as the result: not verified, hence interrupted.
CallPaste(e) ==
  LET k == Key(e) IN
  /\ pc[e] = "attempted" /\ ~IsSend(job[e])
  /\ \/ Accepted(k) /\ Conclude(e, "interrupted") /\ UNCHANGED faults
     \/ Fault("lost_reply") /\ UNCHANGED rt /\ Conclude(e, "interrupted")
     \/ Fault("attachment") /\ UNCHANGED rt /\ Conclude(e, "failed")
  /\ UNCHANGED <<taskVars, bstatus, draftVars, laneVars, enters, stale>>

\* Mutant: a send that pressed Enter without verification counts as a failure.
OutcomeForgets(state) ==
  CASE state = "sent"                     -> "succeeded"
    [] state = "cancelled"                -> "cancelled"
    [] state \in {"failed", "unverified"} -> "failed_no_enter"
    [] OTHER                              -> "interrupted"

\* Mutant: a task the runtime has forgotten counts as failed before Enter.
OutcomeGuesses(state) ==
  CASE state = "sent"                                   -> "succeeded"
    [] state = "cancelled"                              -> "cancelled"
    [] state \in {"unverified", "late_cancel", "refused"} -> "interrupted"
    [] OTHER                                            -> "failed_no_enter"

\* The classification of a terminal runtime task.
OutcomeOf(state) ==
  CASE state = "sent"      -> "succeeded"
    [] state = "cancelled" -> "cancelled"
    [] state = "failed"    -> "failed_no_enter"
    [] OTHER               -> "interrupted"

\* A query answered with a terminal task, or failing because the runtime has
\* forgotten the task (its cancellation then fails too).
PollTerminal(w) ==
  /\ pc[w] \in {"polling", "cancel_polling"}
  /\ rt[Key(w)] \notin Runtime!InProgress
  /\ Conclude(w, OutcomeOf(rt[Key(w)]))
  /\ UNCHANGED <<taskVars, bstatus, draftVars, laneVars, runtimeVars, faults>>

\* After 120 seconds, or a query that fails, the runtime is asked to cancel.
\* The outcome is unknown when that call fails too.
PollTimeout(w) ==
  /\ "timeout" \in Faults
  /\ pc[w] = "polling" /\ rt[Key(w)] \in Runtime!InProgress
  /\ \/ LocalStep(w, "cancel_polling") /\ UNCHANGED faults
     \/ Conclude(w, "interrupted") /\ Fault("lost_reply")
  /\ UNCHANGED <<taskVars, bstatus, draftVars, laneVars, runtimeVars>>

\* Ten more polls without a terminal state.
CancelPollGiveUp(w) ==
  /\ pc[w] = "cancel_polling" /\ rt[Key(w)] \in Runtime!InProgress
  /\ Conclude(w, "interrupted")
  /\ UNCHANGED <<taskVars, bstatus, draftVars, laneVars, runtimeVars, faults>>

\* The transaction that records the result s of task t, mark m of its draft and
\* the proof in the row of attempt n, which need not be the latest one.
Record(t, n, s, m, proof) ==
  /\ status' = WithStatus(t, s)
  /\ claim' = [claim EXCEPT ![t] = None]
  /\ evid' = [evid EXCEPT ![t] = IF n = attempts[t] THEN proof ELSE @]
  /\ sendStatus' = IF IsSend(t) THEN [sendStatus EXCEPT ![DraftOf[t]] = m] ELSE sendStatus
  /\ reserved' = IF IsSend(t) THEN Released(t) ELSE reserved
  /\ bstatus' = Recomputed(BatchOf[t], status', bstatus)

\* A worker whose claim was taken away writes nothing; a request has no claim
\* and always writes.
Fenced(e) == e \in Workers /\ claim[job[e]] # e

\* What an outcome proves of a send.
ProofOf(outcome) ==
  CASE outcome = "succeeded"       -> "sent"
    [] outcome = "cancelled"       -> "cancelled"
    [] outcome = "failed_no_enter" -> "no_enter"
    [] OTHER                       -> "nothing"

\* _persist_execution_result.
Persist(e) ==
  LET s == TaskStatusFor(res[e]) IN
  /\ pc[e] = "result"
  /\ IF Fenced(e)
     THEN UNCHANGED <<status, claim, evid, draftVars, bstatus>>
     ELSE Record(job[e], no[e], s, DraftAfter(s), ProofOf(res[e]))
  /\ Finish(e)
  /\ UNCHANGED <<attempts, rows, laneVars, runtimeVars, faults>>

\* The transaction failed; _persist_execution_result_fallback records the task
\* as interrupted, and of the draft what the runtime's answer still shows.
PersistFallback(e) ==
  /\ pc[e] = "result"
  /\ Fault("db_failure")
  /\ IF Fenced(e)
     THEN UNCHANGED <<status, claim, evid, draftVars, bstatus>>
     ELSE Record(job[e], no[e], "interrupted", FallbackMark(ProofOf(res[e])), ProofOf(res[e]))
  /\ Finish(e)
  /\ UNCHANGED <<attempts, rows, laneVars, runtimeVars>>

\* The fallback failed too.
PersistLost(e) ==
  /\ pc[e] = "result"
  /\ Fault("db_failure")
  /\ Finish(e)
  /\ UNCHANGED <<taskVars, bstatus, draftVars, laneVars, runtimeVars>>

-----------------------------------------------------------------------------
(* The desktop runtime *)

RtStep == UNCHANGED <<taskVars, bstatus, draftVars, laneVars, localVars>>

PressEnter(k) ==
  /\ Runtime!Enter(k)
  /\ enters' = [enters EXCEPT ![DraftOf[k[1]]] =
                  IF k \in stale \/ @ = 2 THEN @ ELSE @ + 1]
  /\ UNCHANGED <<stale, faults>> /\ RtStep

\* A task ends as the runtime's contract allows.  It may end cancelled without
\* being asked to: a shutdown of the runtime cancels its tasks.
EndRuntimeTask(k) ==
  /\ Runtime!End(k)
  /\ UNCHANGED <<enters, stale, faults>> /\ RtStep

\* The registry of tasks is in memory.
RuntimeRestart ==
  /\ Fault("runtime_restart")
  /\ Runtime!Restart
  /\ stale' = {}
  /\ UNCHANGED enters /\ RtStep

-----------------------------------------------------------------------------
(* The database fails in a step that has no handler for it: the request ends
   in an error, the worker in its finally block. *)
TransactionFailed(e) ==
  /\ Fault("db_failure")
  /\ pc[e] \in {"start", "pause", "cancel_batch", "cancel_task", "retry", "run_task",
                "claimed", "cancel_found", "send_ready"}
  /\ Finish(e)
  /\ UNCHANGED <<taskVars, bstatus, draftVars, laneVars, runtimeVars>>

ApiStep ==
  \/ \E b \in Batches : CreateBatch(b)
  \/ \E d \in Drafts : MarkDraft(d, "sent") \/ MarkDraft(d, "pending")
  \/ ClearBatches
  \/ \E c \in Callers :
       \/ \E b \in Batches : StartCheck(c, b) \/ PauseCheck(c, b) \/ CancelBatchCheck(c, b)
       \/ \E t \in Tasks : CancelTaskCheck(c, t) \/ RetryCheck(c, t) \/ RunTaskCheck(c, t)
       \/ StartCommit(c) \/ PauseCommit(c) \/ CancelBatchCommit(c)
       \/ CancelTaskCommit(c) \/ RetryCommit(c) \/ RunTaskCommit(c)

RunStep(e) ==
  \/ PasteAttempt(e) \/ AttemptFailed(e) \/ CallPaste(e)
  \/ Persist(e) \/ PersistFallback(e) \/ PersistLost(e)

WorkerStep(w) ==
  \/ Start(w) \/ Recovered(w) \/ ReconcileAbort(w)
  \/ \E t \in Tasks : Reconcile(w, t) \/ ReconcileFallback(w, t)
  \/ Claim(w) \/ ClaimNothing(w) \/ Release(w)
  \/ ReadTask(w) \/ CancelClaimed(w) \/ SendStarted(w) \/ SendAttempt(w)
  \/ CallSend(w) \/ PollTerminal(w) \/ PollTimeout(w) \/ CancelPollGiveUp(w)

RuntimeStep(k) ==
  PressEnter(k) \/ EndRuntimeTask(k)

Environment ==
  \/ RuntimeRestart \/ LeaseExpire
  \/ \E w \in Workers : RenewStop(w) \/ Stop(w) \/ Crash(w)
  \/ \E e \in Executors : TransactionFailed(e)

Next ==
  \/ ApiStep
  \/ \E e \in Executors : RunStep(e)
  \/ \E w \in Workers : WorkerStep(w)
  \/ \E k \in Keys : RuntimeStep(k)
  \/ Environment

Spec == Init /\ [][Next]_vars

\* The worker's loop and the runtime keep running, a started process is
\* restarted, and a lease that is not renewed runs out.  Requests and faults
\* need not happen.
Fairness ==
  /\ \A w \in Workers : WF_vars(WorkerStep(w)) /\ WF_vars(RunStep(w)) /\ WF_vars(RenewStop(w))
  /\ \A k \in Keys : WF_vars(RuntimeStep(k))
  /\ WF_vars(LeaseExpire)

FairSpec == Spec /\ Fairness

-----------------------------------------------------------------------------
(* Properties *)

\* A draft is reserved only by a send task of its own that is still active:
\* otherwise the draft could never be sent again (_reserve_draft_send_task).
ReservationHeld ==
  \A d \in Drafts : reserved[d] # None =>
    DraftOf[reserved[d]] = d /\ status[reserved[d]] \in ActiveTask

\* Every active send task holds the reservation of its draft, so a second
\* batch cannot send the draft while the first may (create_execution_batch).
SendReserved ==
  \A t \in Tasks : IsSend(t) /\ status[t] \in ActiveTask => reserved[DraftOf[t]] = t

\* A batch that may be deleted (clear_terminal_execution_batches) has no task
\* that may still run.
BatchSettled ==
  \A t \in Tasks : bstatus[BatchOf[t]] \in SettledBatch => status[t] \in SettledTask

\* A batch whose tasks have all settled has settled too, or was paused when
\* they did: it is not left waiting for a task (recompute_execution_batch_counts).
BatchConcluded ==
  \A b \in Batches : bstatus[b] \in ActiveBatch \ {"paused"} =>
    \E t \in TasksOf(b) : status[t] \in ActiveTask

\* While the runtime may still press Enter for a draft, no new send of the
\* draft can be created: it is reserved, or marked sent, or its outcome is
\* unknown and waits for the operator.
InFlightGuarded ==
  \A k \in Keys : rt[k] = "running" /\ IsSend(k[1]) /\ k \notin stale =>
    \/ reserved[DraftOf[k[1]]] = k[1]
    \/ sendStatus[DraftOf[k[1]]] \in {"unknown", "sent"}

\* Between two times the operator marks a draft pending, Enter is pressed at
\* most once for it, whatever is retried, cancelled, lost or restarted.
NoDoubleEnter == \A d \in Drafts : enters[d] <= 1

\* The lane belongs to every worker whose renewals go on: two workers never
\* both believe that they hold it (acquire_execution_lane).
LeaseExclusive == \A w \in Workers : renew[w] => lane = w /\ fresh

\* No two executors are about to make the same attempt of the same task
\* (create_execution_attempt: (task, attempt_no) is unique).
AttemptUnique ==
  \A e, f \in Executors :
    e # f /\ pc[e] = "attempted" /\ pc[f] = "attempted" => Key(e) # Key(f)

\* A message that was sent is not queued or sent again by any request, late
\* result or recovery, unless the operator has marked its draft pending
\* (_persist_execution_result, retry_execution_task).
SentStaysSent ==
  [][\A t \in Tasks :
       IsSend(t) /\ status[t] = "succeeded" /\ sendStatus[DraftOf[t]] # "pending"
         => status'[t] \in {"succeeded"} \cup Gone]_vars

\* A new attempt has a key the runtime has never seen, so it is neither
\* answered with an older result nor refused (_execute_send_task).
FreshKey == \A e \in Executors : pc[e] = "attempted" => rt[Key(e)] = "none"

\* Sends of draft d that may still press Enter.
Live(d) == {k \in SendKeys : DraftOf[k[1]] = d /\ rt[k] = "running" /\ k \notin stale}

\* Batches, tasks, attempts, the worker and the runtime keep together what
\* sending a draft promises.
Sending == INSTANCE DraftSending WITH
  shown   <- [d \in Drafts |-> IF reserved[d] # None THEN "sending" ELSE sendStatus[d]],
  flight  <- [d \in Drafts |-> Live(d) # {}],
  entered <- [d \in Drafts |-> enters[d] # 0]

SendingKept == Sending!Spec

\* A task being run, or being cancelled, reaches a settled status.
TaskSettles ==
  \A t \in Tasks : status[t] \in {"running", "cancelling"} ~> status[t] \notin {"running", "cancelling"}

\* A queued send is eventually claimed or cancelled.
QueuedRuns ==
  \A t \in Tasks : IsSend(t) /\ status[t] = "pending" ~> status[t] # "pending"
=============================================================================
