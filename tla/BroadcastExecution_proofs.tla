----------------------- MODULE BroadcastExecution_proofs -----------------------
(***************************************************************************)
(* Invariance proofs for BroadcastExecution, for every value of its        *)
(* constants that satisfies its assumptions: types first, which say what   *)
(* each executor has in hand; then the lane, the batches, the reservations *)
(* and the attempts, each with the invariant it needs; from all of these,  *)
(* that a message is sent once and that a draft lives as DraftSending says;*)
(* last, that what is recorded of a send is true.                          *)
(***************************************************************************)
EXTENDS BroadcastHistory, TLAPS

\* Steps at which an executor has a task, an attempt, or a batch in hand.
HasJob     == {"cancel_task", "retry", "run_task", "claimed", "cancel_found", "send_ready",
               "send_started", "ready", "attempted", "polling", "cancel_polling", "result"}
HasAttempt == {"attempted", "polling", "cancel_polling"}
HasBatch   == {"start", "pause", "cancel_batch"}

\* What an executor has in hand at each step.
InHand ==
  /\ \A e \in Executors : pc[e] \in HasJob => job[e] \in Tasks
  /\ \A e \in Executors : pc[e] \in HasAttempt => no[e] \in 1 .. MaxAttempts
  /\ \A e \in Executors : pc[e] = "result" => res[e] \in Outcomes
  /\ \A c \in Callers : pc[c] \in HasBatch => target[c] \in Batches

Typed == TypeOK /\ InHand

-----------------------------------------------------------------------------
(* The operators of the model *)

\* The status derived for a batch is a status of a batch, whatever the tasks.
LEMMA DerivedType ==
  ASSUME NEW S, NEW current \in BatchStatuses
  PROVE  DerivedStatus(S, current) \in BatchStatuses
BY DEF DerivedStatus, CountedStatus, BatchStatuses, ActiveBatch, SettledBatch

LEMMA RecomputedType ==
  ASSUME NEW b, NEW st, NEW bs \in [Batches -> BatchStatuses \cup Gone]
  PROVE  Recomputed(b, st, bs) \in [Batches -> BatchStatuses \cup Gone]
BY DerivedType DEF Recomputed

LEMMA WithBatchType ==
  ASSUME bstatus \in [Batches -> BatchStatuses \cup Gone], NEW b, NEW s \in BatchStatuses
  PROVE  WithBatch(b, s) \in [Batches -> BatchStatuses \cup Gone]
BY DEF WithBatch

LEMMA WithStatusType ==
  ASSUME status \in [Tasks -> TaskStatus \cup Gone], NEW t, NEW s \in TaskStatus
  PROVE  WithStatus(t, s) \in [Tasks -> TaskStatus \cup Gone]
BY DEF WithStatus

LEMMA ReleasedType ==
  ASSUME reserved \in [Drafts -> Tasks \cup {None}], NEW t
  PROVE  Released(t) \in [Drafts -> Tasks \cup {None}]
BY DEF Released

LEMMA DraftAfterType ==
  ASSUME NEW s PROVE DraftAfter(s) \in {"pending", "sent", "unknown"}
BY DEF DraftAfter

LEMMA OutcomeType ==
  ASSUME NEW s PROVE OutcomeOf(s) \in Outcomes
BY DEF OutcomeOf, Outcomes

LEMMA TaskStatusForType ==
  ASSUME NEW r \in Outcomes PROVE TaskStatusFor(r) \in TaskStatus
BY DEF TaskStatusFor, Outcomes, TaskStatus, ActiveTask, SettledTask

\* What is recorded of a send's proof, and what is read of it again.
LEMMA ProofOfType ==
  ASSUME NEW r PROVE ProofOf(r) \in Evidence
BY DEF ProofOf, Evidence

LEMMA ProofOfDenies ==
  ASSUME NEW r, ProofOf(r) \in Denied PROVE r \in {"cancelled", "failed_no_enter"}
BY DEF ProofOf, Denied

LEMMA FallbackMarkType ==
  ASSUME NEW p
  PROVE  /\ FallbackMark(p) \in {"pending", "sent", "unknown"}
         /\ p \notin Denied => FallbackMark(p) \in {"unknown", "sent"}
BY DEF FallbackMark

LEMMA RecoveredAsType ==
  ASSUME NEW t
  PROVE  /\ RecoveredAs(t) \in SettledTask /\ RecoveredAs(t) \in TaskStatus
         /\ evid[t] \notin Denied => DraftAfter(RecoveredAs(t)) \in {"unknown", "sent"}
         /\ RecoveredAs(t) = "succeeded" => evid[t] = "sent"
BY DEF RecoveredAs, DraftAfter, SettledTask, TaskStatus, Denied

LEMMA EvidenceNames == "nothing" \in Evidence \ Denied /\ "sent" \in Evidence \ Denied
BY DEF Evidence, Denied

LEMMA StatusNames ==
  /\ {"pending", "running", "cancelling", "cancelled", "interrupted", "failed"} \subseteq TaskStatus
  /\ {"created", "queued", "running", "paused", "cancelling"} \subseteq BatchStatuses
BY DEF TaskStatus, ActiveTask, SettledTask, BatchStatuses, ActiveBatch

-----------------------------------------------------------------------------
(* Types *)

\* The part of TypeOK about the executors.
LocalTypeOK ==
  /\ renew \in [Workers -> BOOLEAN]
  /\ pc \in [Executors -> WorkerPc \cup CallerPc]
  /\ job \in [Executors -> Tasks \cup {None}]
  /\ no \in [Executors -> 0 .. MaxAttempts]
  /\ res \in [Executors -> Outcomes \cup {None}]
  /\ target \in [Callers -> Batches \cup {None}]
  /\ todo \in [Workers -> SUBSET Tasks]

\* The part about the rows of tasks and batches, and the drafts' columns.
TableTypeOK ==
  /\ status \in [Tasks -> TaskStatus \cup Gone]
  /\ attempts \in [Tasks -> 0 .. MaxAttempts]
  /\ rows \in [Tasks -> SUBSET (1 .. MaxAttempts)]
  /\ evid \in [Tasks -> Evidence]
  /\ claim \in [Tasks -> Workers \cup {None, "orphan"}]
  /\ bstatus \in [Batches -> BatchStatuses \cup Gone]
  /\ sendStatus \in [Drafts -> {"pending", "sent", "unknown"}]
  /\ reserved \in [Drafts -> Tasks \cup {None}]

\* The lane, the runtime and the count of faults.
OtherTypeOK ==
  /\ lane \in Workers \cup {None, "orphan"}
  /\ fresh \in BOOLEAN
  /\ rt \in [Keys -> Runtime!States]
  /\ enters \in [Drafts -> 0 .. 2]
  /\ stale \in SUBSET Keys
  /\ faults \in 0 .. MaxFaults

LEMMA TypedParts ==
  /\ Typed <=> TableTypeOK /\ OtherTypeOK /\ LocalTypeOK /\ InHand
  /\ Typed' <=> TableTypeOK' /\ OtherTypeOK' /\ LocalTypeOK' /\ InHand'
BY DEF Typed, TypeOK, LocalTypeOK, TableTypeOK, OtherTypeOK

LEMMA TypedInit == Init => Typed
<1> SUFFICES ASSUME Init PROVE Typed
  OBVIOUS
<1>1. TableTypeOK
  BY BoundAssumption, EvidenceNames DEF Init, TableTypeOK, Gone
<1>2. OtherTypeOK
  <2>1. rt \in [Keys -> Runtime!States]
    BY DEF Init, Runtime!Init, Runtime!States, Runtime!InProgress
  <2>2. enters \in [Drafts -> 0 .. 2]
    BY DEF Init
  <2>3. faults \in 0 .. MaxFaults
    BY BoundAssumption DEF Init
  <2> QED
    BY <2>1, <2>2, <2>3 DEF Init, OtherTypeOK
<1>3. LocalTypeOK
  BY BoundAssumption DEF Init, LocalTypeOK, Executors, WorkerPc, CallerPc
<1>4. InHand
  BY IdAssumption DEF Init, InHand, HasJob, HasAttempt, HasBatch, Executors
<1> QED
  BY <1>1, <1>2, <1>3, <1>4, TypedParts

LEMMA FaultType ==
  ASSUME faults \in 0 .. MaxFaults, NEW kind, Fault(kind)
  PROVE  faults' \in 0 .. MaxFaults
BY BoundAssumption DEF Fault

\* A step that only moves an executor to `step`, whose hands hold what it needs.
LEMMA LocalStepTyped ==
  ASSUME LocalTypeOK, InHand, NEW e \in Executors, NEW step \in WorkerPc \cup CallerPc,
         LocalStep(e, step),
         step \in HasJob => pc[e] \in HasJob,
         step \in HasAttempt => pc[e] \in HasAttempt,
         step # "result", step \notin HasBatch
  PROVE  LocalTypeOK' /\ InHand'
BY DEF LocalTypeOK, InHand, LocalStep, Goto

LEMMA ConcludeTyped ==
  ASSUME LocalTypeOK, InHand, NEW e \in Executors, pc[e] \in HasJob,
         NEW outcome \in Outcomes, Conclude(e, outcome)
  PROVE  LocalTypeOK' /\ InHand'
BY DEF LocalTypeOK, InHand, Conclude, Goto, HasJob, HasAttempt, HasBatch, WorkerPc

LEMMA AnsweredTyped ==
  ASSUME LocalTypeOK, InHand, NEW c \in Callers, Answered(c)
  PROVE  LocalTypeOK' /\ InHand'
BY BoundAssumption
DEF LocalTypeOK, InHand, Answered, HasJob, HasAttempt, HasBatch, CallerPc, Executors

LEMMA FinishTyped ==
  ASSUME LocalTypeOK, InHand, NEW e \in Executors, Finish(e)
  PROVE  LocalTypeOK' /\ InHand'
<1>1. CASE e \in Workers
  BY <1>1, LocalStepTyped DEF Finish, HasJob, HasAttempt, HasBatch, WorkerPc
<1>2. CASE e \notin Workers
  BY <1>2, AnsweredTyped DEF Finish, Executors
<1> QED
  BY <1>1, <1>2

LEMMA RequestTyped ==
  ASSUME LocalTypeOK, InHand, NEW c \in Callers, NEW op \in CallerPc,
         NEW t \in Tasks \cup {None}, NEW b \in Batches \cup {None},
         op \in HasJob => t \in Tasks, op \in HasBatch => b \in Batches,
         op \notin HasAttempt, op # "result",
         Accept(c, op, t, b)
  PROVE  LocalTypeOK' /\ InHand'
BY DEF LocalTypeOK, InHand, Accept, Executors

LEMMA ForgetTyped ==
  ASSUME LocalTypeOK, InHand, NEW w \in Workers, NEW step \in {"idle", "down"},
         NEW drop \in BOOLEAN, Forget(w, step, drop)
  PROVE  LocalTypeOK' /\ InHand'
BY BoundAssumption
DEF LocalTypeOK, InHand, Forget, HasJob, HasAttempt, HasBatch, WorkerPc, CallerPc, Executors

LEMMA GiveUpTyped ==
  ASSUME TableTypeOK, OtherTypeOK, NEW w \in Workers, NEW holder \in {None, "orphan"},
         GiveUp(w, holder)
  PROVE  /\ lane' \in Workers \cup {None, "orphan"} /\ fresh' \in BOOLEAN
         /\ claim' \in [Tasks -> Workers \cup {None, "orphan"}]
BY DEF TableTypeOK, OtherTypeOK, GiveUp


-----------------------------------------------------------------------------
(* Every action preserves Typed *)

LEMMA TypedCreate ==
  ASSUME Typed, NEW b \in Batches, CreateBatch(b)
  PROVE  Typed'
<1> USE DEF Typed, TypeOK, taskVars, draftVars, laneVars, localVars, runtimeVars
<1>1. status' \in [Tasks -> TaskStatus \cup Gone] /\ bstatus' \in [Batches -> BatchStatuses \cup Gone]
  BY StatusNames DEF CreateBatch
<1>2. reserved' \in [Drafts -> Tasks \cup {None}]
  BY DEF CreateBatch, TasksOf
<1>3. InHand'
  BY DEF CreateBatch, InHand
<1> QED
  BY <1>1, <1>2, <1>3 DEF CreateBatch

LEMMA TypedMark ==
  ASSUME Typed, NEW d \in Drafts, NEW s \in {"sent", "pending"}, MarkDraft(d, s)
  PROVE  Typed'
BY DEF Typed, TypeOK, MarkDraft, InHand, taskVars, draftVars, laneVars, localVars, runtimeVars

LEMMA TypedClear ==
  ASSUME Typed, ClearBatches
  PROVE  Typed'
<1> USE DEF Typed, TypeOK, taskVars, draftVars, laneVars, localVars, runtimeVars
<1>1. InHand'
  BY DEF ClearBatches, InHand
<1>2. /\ status' \in [Tasks -> TaskStatus \cup Gone]
      /\ bstatus' \in [Batches -> BatchStatuses \cup Gone]
  BY DEF ClearBatches, Gone
<1>3. attempts' \in [Tasks -> 0 .. MaxAttempts]
  BY BoundAssumption DEF ClearBatches
<1>4. rows' \in [Tasks -> SUBSET (1 .. MaxAttempts)] /\ evid' \in [Tasks -> Evidence]
  BY EvidenceNames DEF ClearBatches
<1>5. claim' \in [Tasks -> Workers \cup {None, "orphan"}]
  BY DEF ClearBatches
<1> QED
  BY <1>1, <1>2, <1>3, <1>4, <1>5 DEF ClearBatches

\* A step that leaves the tables, the lane and the runtime alone.
LEMMA TypedRest ==
  ASSUME TableTypeOK, OtherTypeOK,
         UNCHANGED <<taskVars, bstatus, draftVars, laneVars, runtimeVars, faults>>
  PROVE  TableTypeOK' /\ OtherTypeOK'
BY DEF TableTypeOK, OtherTypeOK, taskVars, draftVars, laneVars, runtimeVars

LEMMA TypedChecks ==
  ASSUME Typed, NEW c \in Callers,
         \/ \E b \in Batches : StartCheck(c, b) \/ PauseCheck(c, b) \/ CancelBatchCheck(c, b)
         \/ \E t \in Tasks : CancelTaskCheck(c, t) \/ RetryCheck(c, t) \/ RunTaskCheck(c, t)
  PROVE  Typed'
<1> USE DEF HasJob, HasBatch, HasAttempt, CallerPc
<1>1. PICK op \in HasBatch \cup {"cancel_task", "retry", "run_task"},
           t \in Tasks \cup {None}, b \in Batches \cup {None} :
        /\ Accept(c, op, t, b)
        /\ op \in HasJob => t \in Tasks
        /\ op \in HasBatch => b \in Batches
  BY DEF StartCheck, PauseCheck, CancelBatchCheck, CancelTaskCheck, RetryCheck, RunTaskCheck
<1>2. LocalTypeOK' /\ InHand'
  BY <1>1, RequestTyped, TypedParts
<1>3. TableTypeOK' /\ OtherTypeOK'
  BY <1>1, TypedParts
     DEF Accept, TableTypeOK, OtherTypeOK, taskVars, draftVars, laneVars, runtimeVars
<1> QED
  BY <1>2, <1>3, TypedParts

LEMMA TypedCommits ==
  ASSUME Typed, NEW c \in Callers,
         \/ StartCommit(c) \/ PauseCommit(c) \/ CancelBatchCommit(c)
         \/ CancelTaskCommit(c) \/ RetryCommit(c) \/ RunTaskCommit(c)
  PROVE  Typed'
<1> USE DEF taskVars, draftVars, laneVars, runtimeVars
<1>1. c \in Executors /\ TableTypeOK /\ OtherTypeOK /\ LocalTypeOK /\ InHand
  BY TypedParts DEF Executors
<1>2. pc[c] \in HasJob => job[c] \in Tasks /\ BatchOf[job[c]] \in Batches
  BY <1>1, IdAssumption DEF InHand
<1>3. CASE StartCommit(c)
  <2>1. TableTypeOK' /\ OtherTypeOK'
    BY <1>1, <1>3, RecomputedType, WithBatchType, StatusNames
       DEF StartCommit, TableTypeOK, OtherTypeOK
  <2> QED
    BY <2>1, <1>1, <1>3, AnsweredTyped, TypedParts DEF StartCommit
<1>4. CASE PauseCommit(c)
  <2>1. TableTypeOK' /\ OtherTypeOK'
    BY <1>1, <1>4, WithBatchType, StatusNames DEF PauseCommit, TableTypeOK, OtherTypeOK
  <2> QED
    BY <2>1, <1>1, <1>4, AnsweredTyped, TypedParts DEF PauseCommit
<1>5. CASE CancelBatchCommit(c)
  <2> DEFINE dropped == {t \in TasksOf(target[c]) : status[t] = "pending"}
  <2>0. CancelTasks(c, dropped)
    BY <1>5 DEF CancelBatchCommit
  <2> HIDE DEF dropped
  <2>1. status' \in [Tasks -> TaskStatus \cup Gone] /\ reserved' \in [Drafts -> Tasks \cup {None}]
    BY <1>1, <2>0, StatusNames DEF CancelTasks, TableTypeOK
  <2>2. bstatus' \in [Batches -> BatchStatuses \cup Gone]
    BY <1>1, <2>0, RecomputedType, WithBatchType, StatusNames DEF CancelTasks, TableTypeOK
  <2>3. TableTypeOK' /\ OtherTypeOK'
    BY <1>1, <2>0, <2>1, <2>2 DEF CancelTasks, TableTypeOK, OtherTypeOK
  <2> QED
    BY <2>0, <2>3, <1>1, AnsweredTyped, TypedParts DEF CancelTasks
<1>6. CASE CancelTaskCommit(c)
  <2>1. status' \in [Tasks -> TaskStatus \cup Gone] /\ reserved' \in [Drafts -> Tasks \cup {None}]
    BY <1>1, <1>6, WithStatusType, ReleasedType, StatusNames DEF CancelTaskCommit, TableTypeOK
  <2>2. bstatus' \in [Batches -> BatchStatuses \cup Gone]
    BY <1>1, <1>6, RecomputedType DEF CancelTaskCommit, TableTypeOK
  <2>3. TableTypeOK' /\ OtherTypeOK'
    BY <1>1, <1>6, <2>1, <2>2 DEF CancelTaskCommit, TableTypeOK, OtherTypeOK
  <2> QED
    BY <2>3, <1>1, <1>6, AnsweredTyped, TypedParts DEF CancelTaskCommit
<1>7. CASE RetryCommit(c)
  <2>0. job[c] \in Tasks
    BY <1>2, <1>7 DEF RetryCommit, HasJob
  <2>1. status' \in [Tasks -> TaskStatus \cup Gone] /\ reserved' \in [Drafts -> Tasks \cup {None}]
    BY <1>1, <1>7, <2>0, WithStatusType, StatusNames DEF RetryCommit, TableTypeOK
  <2>2. bstatus' \in [Batches -> BatchStatuses \cup Gone]
    BY <1>1, <1>7, RecomputedType, WithBatchType, StatusNames DEF RetryCommit, TableTypeOK
  <2>3. claim' \in [Tasks -> Workers \cup {None, "orphan"}]
    BY <1>1, <1>7 DEF RetryCommit, TableTypeOK
  <2>4. TableTypeOK' /\ OtherTypeOK'
    BY <1>1, <1>7, <2>1, <2>2, <2>3 DEF RetryCommit, TableTypeOK, OtherTypeOK
  <2> QED
    BY <2>4, <1>1, <1>7, AnsweredTyped, TypedParts DEF RetryCommit
<1>8. CASE RunTaskCommit(c)
  <2>0. job[c] \in Tasks
    BY <1>2, <1>8 DEF RunTaskCommit, HasJob
  <2>1. TableTypeOK' /\ OtherTypeOK'
    BY <1>1, <1>8, WithStatusType, WithBatchType, StatusNames
       DEF RunTaskCommit, TableTypeOK, OtherTypeOK
  <2>2. LocalTypeOK' /\ InHand'
    <3>1. CASE status[job[c]] \in Gone
      BY <3>1, <1>1, <1>8, AnsweredTyped DEF RunTaskCommit
    <3>2. CASE status[job[c]] \notin Gone
      <4>1. /\ pc' = [pc EXCEPT ![c] = "ready"] /\ no' = [no EXCEPT ![c] = attempts[job[c]]]
            /\ UNCHANGED <<renew, job, res, target, todo>>
        BY <3>2, <1>8 DEF RunTaskCommit
      <4>2. attempts[job[c]] \in 0 .. MaxAttempts
        BY <1>1, <2>0 DEF TableTypeOK
      <4>3. LocalTypeOK'
        BY <1>1, <4>1, <4>2 DEF LocalTypeOK, CallerPc
      <4>4. InHand'
        BY <1>1, <4>1, <2>0 DEF InHand, LocalTypeOK, HasJob, HasAttempt, HasBatch
      <4> QED
        BY <4>3, <4>4
    <3> QED
      BY <3>1, <3>2
  <2> QED
    BY <2>1, <2>2, TypedParts
<1> QED
  BY <1>3, <1>4, <1>5, <1>6, <1>7, <1>8

LEMMA TypedApi == ASSUME Typed, ApiStep PROVE Typed'
BY TypedCreate, TypedMark, TypedClear, TypedChecks, TypedCommits DEF ApiStep

LEMMA TypedAttempt ==
  ASSUME Typed, NEW e \in Executors, InsertAttempt(e), pc[e] \in HasJob,
         UNCHANGED <<runtimeVars, faults>>,
         bstatus' \in [Batches -> BatchStatuses \cup Gone]
  PROVE  Typed'
<1>1. TableTypeOK /\ OtherTypeOK /\ LocalTypeOK /\ InHand
  BY TypedParts
<1>2. PICK n \in 1 .. MaxAttempts : WriteAttempt(e, n)
  BY DEF InsertAttempt
<1>3. TableTypeOK' /\ OtherTypeOK'
  <2>0. n \in 0 .. MaxAttempts
    BY BoundAssumption
  <2>1. attempts' \in [Tasks -> 0 .. MaxAttempts]
    <3>1. attempts' = attempts \/ attempts' = [attempts EXCEPT ![job[e]] = n]
      BY <1>2 DEF WriteAttempt
    <3> QED
      BY <1>1, <2>0, <3>1 DEF TableTypeOK
  <2>2. rows' \in [Tasks -> SUBSET (1 .. MaxAttempts)] /\ evid' \in [Tasks -> Evidence]
    BY <1>1, <1>2, EvidenceNames DEF WriteAttempt, TableTypeOK
  <2> QED
    BY <2>1, <2>2, <1>1, <1>2
       DEF WriteAttempt, TableTypeOK, OtherTypeOK, draftVars, laneVars, runtimeVars
<1>4. LocalTypeOK'
  BY <1>1, <1>2 DEF WriteAttempt, LocalTypeOK, Goto, WorkerPc
<1>5. InHand'
  BY <1>1, <1>2 DEF WriteAttempt, InHand, LocalTypeOK, Goto, HasJob, HasAttempt, HasBatch
<1> QED
  BY <1>3, <1>4, <1>5, TypedParts

\* The rows written with a result.
LEMMA RecordTyped ==
  ASSUME TableTypeOK, NEW t \in Tasks, NEW n, NEW s \in TaskStatus,
         NEW m \in {"pending", "sent", "unknown"}, NEW proof \in Evidence,
         Record(t, n, s, m, proof), UNCHANGED <<attempts, rows>>
  PROVE  TableTypeOK'
<1>1. status' \in [Tasks -> TaskStatus \cup Gone] /\ reserved' \in [Drafts -> Tasks \cup {None}]
  BY WithStatusType, ReleasedType DEF Record, TableTypeOK
<1>2. bstatus' \in [Batches -> BatchStatuses \cup Gone]
  BY RecomputedType DEF Record, TableTypeOK
<1>3. /\ claim' \in [Tasks -> Workers \cup {None, "orphan"}] /\ evid' \in [Tasks -> Evidence]
      /\ sendStatus' \in [Drafts -> {"pending", "sent", "unknown"}]
  BY DEF Record, TableTypeOK
<1> QED
  BY <1>1, <1>2, <1>3 DEF TableTypeOK

LEMMA TypedRun == ASSUME Typed, NEW e \in Executors, RunStep(e) PROVE Typed'
<1> USE DEF taskVars, draftVars, laneVars, runtimeVars
<1>1. TableTypeOK /\ OtherTypeOK /\ LocalTypeOK /\ InHand
  BY TypedParts
<1>2. pc[e] \in HasJob => job[e] \in Tasks
  BY <1>1 DEF InHand
<1>3. CASE PasteAttempt(e)
  <2>1. bstatus' \in [Batches -> BatchStatuses \cup Gone]
    BY <1>1, <1>3, RecomputedType DEF PasteAttempt, TableTypeOK
  <2>2. UNCHANGED <<runtimeVars, faults>>
    BY <1>3 DEF PasteAttempt, InsertAttempt, WriteAttempt
  <2> QED
    BY <1>3, <2>1, <2>2, TypedAttempt DEF PasteAttempt, HasJob
<1>4. CASE AttemptFailed(e)
  <2>1. faults' \in 0 .. MaxFaults
    BY <1>1, <1>4, FaultType DEF AttemptFailed, OtherTypeOK
  <2>2. status' \in [Tasks -> TaskStatus \cup Gone]
    BY <1>1, <1>4, WithStatusType, StatusNames DEF AttemptFailed, TableTypeOK
  <2>3. bstatus' \in [Batches -> BatchStatuses \cup Gone]
    BY <1>1, <1>4, RecomputedType DEF AttemptFailed, TableTypeOK
  <2>4. TableTypeOK' /\ OtherTypeOK'
    BY <1>1, <1>4, <2>1, <2>2, <2>3 DEF AttemptFailed, TableTypeOK, OtherTypeOK
  <2> QED
    BY <2>4, <1>1, <1>4, FinishTyped, TypedParts DEF AttemptFailed
<1>5. CASE CallPaste(e)
  <2>1. pc[e] \in HasJob /\ Key(e) \in Keys
    BY <1>1, <1>2, <1>5 DEF CallPaste, HasJob, HasAttempt, InHand, Key, Keys
  <2>2. faults' \in 0 .. MaxFaults
    BY <1>1, <1>5, FaultType DEF CallPaste, OtherTypeOK
  <2>3. rt' \in [Keys -> Runtime!States]
    BY <1>1, <1>5, <2>1 DEF CallPaste, Accepted, Runtime!Accept, OtherTypeOK, Runtime!States, Runtime!InProgress
  <2>4. TableTypeOK' /\ OtherTypeOK'
    BY <1>1, <1>5, <2>2, <2>3 DEF CallPaste, TableTypeOK, OtherTypeOK
  <2>5. \E outcome \in Outcomes : Conclude(e, outcome)
    BY <1>5 DEF CallPaste, Outcomes
  <2> QED
    BY <1>1, <2>1, <2>4, <2>5, ConcludeTyped, TypedParts
<1>6. CASE Persist(e)
  <2>1. job[e] \in Tasks /\ res[e] \in Outcomes
    BY <1>1, <1>6 DEF Persist, InHand, HasJob
  <2>2. TableTypeOK'
    <3>1. CASE Fenced(e)
      BY <3>1, <1>1, <1>6 DEF Persist, TableTypeOK
    <3>2. CASE ~Fenced(e)
      BY <3>2, <2>1, <1>1, <1>6, RecordTyped, TaskStatusForType, DraftAfterType,
         ProofOfType
      DEF Persist
    <3> QED
      BY <3>1, <3>2
  <2>3. OtherTypeOK'
    BY <1>1, <1>6 DEF Persist, OtherTypeOK
  <2> QED
    BY <2>2, <2>3, <1>1, <1>6, FinishTyped, TypedParts DEF Persist
<1>7. CASE PersistFallback(e)
  <2>1. job[e] \in Tasks
    BY <1>1, <1>7 DEF PersistFallback, InHand, HasJob
  <2>2. TableTypeOK'
    <3>1. CASE Fenced(e)
      BY <3>1, <1>1, <1>7 DEF PersistFallback, TableTypeOK
    <3>2. CASE ~Fenced(e)
      BY <3>2, <2>1, <1>1, <1>7, RecordTyped, StatusNames, FallbackMarkType, ProofOfType
      DEF PersistFallback
    <3> QED
      BY <3>1, <3>2
  <2>3. OtherTypeOK'
    BY <1>1, <1>7, FaultType DEF PersistFallback, OtherTypeOK
  <2> QED
    BY <2>2, <2>3, <1>1, <1>7, FinishTyped, TypedParts DEF PersistFallback
<1>8. CASE PersistLost(e)
  <2>1. TableTypeOK' /\ OtherTypeOK'
    BY <1>1, <1>8, FaultType DEF PersistLost, TableTypeOK, OtherTypeOK
  <2> QED
    BY <2>1, <1>1, <1>8, FinishTyped, TypedParts DEF PersistLost
<1> QED
  BY <1>3, <1>4, <1>5, <1>6, <1>7, <1>8 DEF RunStep

LEMMA TypedRecover ==
  ASSUME Typed, NEW w \in Workers, NEW t \in Tasks, NEW s \in TaskStatus,
         NEW m \in {"pending", "sent", "unknown"}, RecoverTask(w, t, s, m),
         faults' \in 0 .. MaxFaults
  PROVE  Typed'
<1> USE DEF taskVars, draftVars, laneVars, runtimeVars
<1>1. TableTypeOK /\ OtherTypeOK /\ LocalTypeOK /\ InHand
  BY TypedParts
<1>2. status' \in [Tasks -> TaskStatus \cup Gone] /\ reserved' \in [Drafts -> Tasks \cup {None}]
  BY <1>1, WithStatusType, ReleasedType DEF RecoverTask, TableTypeOK
<1>3. bstatus' \in [Batches -> BatchStatuses \cup Gone]
  BY <1>1, RecomputedType DEF RecoverTask, TableTypeOK
<1>4. /\ claim' \in [Tasks -> Workers \cup {None, "orphan"}]
      /\ sendStatus' \in [Drafts -> {"pending", "sent", "unknown"}]
  BY <1>1 DEF RecoverTask, TableTypeOK
<1>5. TableTypeOK' /\ OtherTypeOK'
  BY <1>1, <1>2, <1>3, <1>4 DEF RecoverTask, TableTypeOK, OtherTypeOK
<1>6. LocalTypeOK' /\ InHand'
  BY <1>1 DEF RecoverTask, LocalTypeOK, InHand
<1> QED
  BY <1>5, <1>6, TypedParts

\* A worker gives up the lane and its claim, and forgets what it has in hand.
LEMMA TypedGiveUp ==
  ASSUME Typed, NEW w \in Workers, NEW holder \in {None, "orphan"}, GiveUp(w, holder),
         NEW step \in {"idle", "down"}, NEW drop \in BOOLEAN, Forget(w, step, drop),
         UNCHANGED <<status, attempts, rows, evid, bstatus, draftVars, runtimeVars>>,
         faults' \in 0 .. MaxFaults
  PROVE  Typed'
<1>1. TableTypeOK /\ OtherTypeOK /\ LocalTypeOK /\ InHand
  BY TypedParts
<1>2. TableTypeOK' /\ OtherTypeOK'
  BY <1>1, GiveUpTyped DEF TableTypeOK, OtherTypeOK, draftVars, runtimeVars
<1> QED
  BY <1>1, <1>2, ForgetTyped, TypedParts

LEMMA TypedStartup ==
  ASSUME Typed, NEW w \in Workers,
         \/ Start(w) \/ Recovered(w) \/ ReconcileAbort(w)
         \/ \E t \in Tasks : Reconcile(w, t) \/ ReconcileFallback(w, t)
  PROVE  Typed'
<1> USE DEF taskVars, draftVars, laneVars, runtimeVars
<1>1. TableTypeOK /\ OtherTypeOK /\ LocalTypeOK /\ InHand /\ w \in Executors
  BY TypedParts DEF Executors
<1>2. CASE Start(w)
  <2>1. LocalTypeOK' /\ InHand'
    BY <1>1, <1>2 DEF Start, Unfinished, LocalTypeOK, InHand, Goto, WorkerPc, HasJob, HasAttempt, HasBatch
  <2>2. TableTypeOK' /\ OtherTypeOK'
    BY <1>1, <1>2 DEF Start, TableTypeOK, OtherTypeOK
  <2> QED
    BY <2>1, <2>2, TypedParts
<1>3. CASE Recovered(w)
  <2>1. LocalTypeOK' /\ InHand'
    BY <1>1, <1>3 DEF Recovered, LocalTypeOK, InHand, Goto, WorkerPc, HasJob, HasAttempt, HasBatch
  <2>2. TableTypeOK' /\ OtherTypeOK'
    BY <1>1, <1>3 DEF Recovered, TableTypeOK, OtherTypeOK
  <2> QED
    BY <2>1, <2>2, TypedParts
<1>4. CASE ReconcileAbort(w)
  <2>1. LocalTypeOK' /\ InHand'
    BY <1>1, <1>4 DEF ReconcileAbort, LocalTypeOK, InHand, Goto, WorkerPc, HasJob, HasAttempt, HasBatch
  <2>2. TableTypeOK' /\ OtherTypeOK'
    BY <1>1, <1>4, FaultType DEF ReconcileAbort, TableTypeOK, OtherTypeOK
  <2> QED
    BY <2>1, <2>2, TypedParts
<1>5. ASSUME NEW t \in Tasks, Reconcile(w, t) PROVE Typed'
  BY <1>1, <1>5, TypedRecover, RecoveredAsType, DraftAfterType DEF Reconcile, OtherTypeOK
<1>6. ASSUME NEW t \in Tasks, ReconcileFallback(w, t) PROVE Typed'
  <2>1. faults' \in 0 .. MaxFaults
    BY <1>1, <1>6, FaultType DEF ReconcileFallback, OtherTypeOK
  <2> QED
    BY <1>6, <2>1, TypedRecover, StatusNames, FallbackMarkType DEF ReconcileFallback
<1> QED
  BY <1>2, <1>3, <1>4, <1>5, <1>6

LEMMA TypedClaim ==
  ASSUME Typed, NEW w \in Workers, Claim(w) \/ ClaimNothing(w) \/ Release(w)
  PROVE  Typed'
<1> USE DEF taskVars, draftVars, laneVars, runtimeVars
<1>1. TableTypeOK /\ OtherTypeOK /\ LocalTypeOK /\ InHand /\ w \in Executors
  BY TypedParts DEF Executors
<1>2. CASE Claim(w)
  <2>1. PICK t \in Claimable :
          /\ status' = [status EXCEPT ![t] = "running"]
          /\ claim' = [claim EXCEPT ![t] = w]
          /\ bstatus' = [bstatus EXCEPT ![BatchOf[t]] = "running"]
          /\ job' = [job EXCEPT ![w] = t]
    BY <1>2 DEF Claim
  <2>2. t \in Tasks
    BY DEF Claimable
  <2>3. TableTypeOK' /\ OtherTypeOK'
    BY <1>1, <1>2, <2>1, <2>2, StatusNames DEF Claim, TableTypeOK, OtherTypeOK
  <2>4. LocalTypeOK' /\ InHand'
    BY <1>1, <1>2, <2>1, <2>2
       DEF Claim, LocalTypeOK, InHand, Goto, WorkerPc, HasAttempt, HasBatch
  <2> QED
    BY <2>3, <2>4, TypedParts
<1>3. CASE ClaimNothing(w)
  BY <1>1, <1>3, TypedParts
     DEF ClaimNothing, TableTypeOK, OtherTypeOK, LocalTypeOK, InHand, localVars
<1>4. CASE Release(w)
  <2>1. faults' \in 0 .. MaxFaults
    BY <1>1, <1>4, FaultType DEF Release, OtherTypeOK
  <2>2. PICK holder \in {None, "orphan"} : GiveUp(w, holder)
    BY <1>4 DEF Release
  <2> QED
    BY <1>4, <2>1, <2>2, TypedGiveUp DEF Release
<1> QED
  BY <1>2, <1>3, <1>4

LEMMA TypedSend ==
  ASSUME Typed, NEW w \in Workers,
         \/ ReadTask(w) \/ CancelClaimed(w) \/ SendStarted(w) \/ SendAttempt(w)
         \/ CallSend(w) \/ PollTerminal(w) \/ PollTimeout(w) \/ CancelPollGiveUp(w)
  PROVE  Typed'
<1> USE DEF taskVars, draftVars, laneVars, runtimeVars
<1>1. TableTypeOK /\ OtherTypeOK /\ LocalTypeOK /\ InHand /\ w \in Executors
  BY TypedParts DEF Executors
<1>2. pc[w] \in HasJob => job[w] \in Tasks
  BY <1>1 DEF InHand
<1>3. CASE ReadTask(w)
  <2>1. attempts[job[w]] \in 0 .. MaxAttempts
    BY <1>1, <1>2, <1>3 DEF ReadTask, HasJob, TableTypeOK
  <2>2. PICK step \in {"ready", "send_ready", "cancel_found", "release"} : Goto(w, step)
    BY <1>3 DEF ReadTask
  <2>3. LocalTypeOK'
    BY <1>1, <1>3, <2>1, <2>2 DEF ReadTask, LocalTypeOK, Goto, WorkerPc
  <2>4. InHand'
    BY <1>1, <1>2, <1>3, <2>2
       DEF ReadTask, LocalTypeOK, InHand, Goto, HasJob, HasAttempt, HasBatch
  <2>5. TableTypeOK' /\ OtherTypeOK'
    BY <1>1, <1>3 DEF ReadTask, TableTypeOK, OtherTypeOK
  <2> QED
    BY <2>3, <2>4, <2>5, TypedParts
<1>4. CASE CancelClaimed(w)
  <2>1. status' \in [Tasks -> TaskStatus \cup Gone] /\ reserved' \in [Drafts -> Tasks \cup {None}]
    BY <1>1, <1>4, WithStatusType, ReleasedType, StatusNames DEF CancelClaimed, TableTypeOK
  <2>2. bstatus' \in [Batches -> BatchStatuses \cup Gone]
    BY <1>1, <1>4, RecomputedType DEF CancelClaimed, TableTypeOK
  <2>3. TableTypeOK' /\ OtherTypeOK'
    BY <1>1, <1>4, <2>1, <2>2 DEF CancelClaimed, TableTypeOK, OtherTypeOK
  <2>4. LocalTypeOK' /\ InHand'
    BY <1>1, <1>4, LocalStepTyped DEF CancelClaimed, HasJob, HasAttempt, HasBatch, WorkerPc
  <2> QED
    BY <2>3, <2>4, TypedParts
<1>5. CASE SendStarted(w)
  <2>1. TableTypeOK' /\ OtherTypeOK'
    BY <1>1, <1>5, WithStatusType, WithBatchType, StatusNames
       DEF SendStarted, TableTypeOK, OtherTypeOK
  <2>2. LocalTypeOK' /\ InHand'
    BY <1>1, <1>5, LocalStepTyped DEF SendStarted, HasJob, HasAttempt, HasBatch, WorkerPc
  <2> QED
    BY <2>1, <2>2, TypedParts
<1>6. CASE SendAttempt(w)
  BY <1>1, <1>6, TypedAttempt
     DEF SendAttempt, InsertAttempt, WriteAttempt, HasJob, TableTypeOK
<1>7. CASE CallSend(w)
  <2>1. pc[w] \in HasJob /\ Key(w) \in Keys
    BY <1>1, <1>2, <1>7 DEF CallSend, HasJob, HasAttempt, InHand, Key, Keys
  <2>2. faults' \in 0 .. MaxFaults
    BY <1>1, <1>7, FaultType DEF CallSend, OtherTypeOK
  <2>3. rt' \in [Keys -> Runtime!States]
    BY <1>1, <1>7, <2>1 DEF CallSend, Accepted, Runtime!Accept, OtherTypeOK, Runtime!States, Runtime!InProgress
  <2>4. TableTypeOK' /\ OtherTypeOK'
    BY <1>1, <1>7, <2>2, <2>3 DEF CallSend, TableTypeOK, OtherTypeOK
  <2>5. CASE LocalStep(w, "polling")
    BY <1>1, <1>7, <2>4, <2>5, LocalStepTyped, TypedParts
       DEF CallSend, HasJob, HasAttempt, HasBatch, WorkerPc
  <2>6. CASE \E outcome \in Outcomes : Conclude(w, outcome)
    BY <1>1, <2>1, <2>4, <2>6, ConcludeTyped, TypedParts
  <2> QED
    BY <1>7, <2>5, <2>6 DEF CallSend, Outcomes
<1>8. CASE PollTerminal(w)
  <2>1. pc[w] \in HasJob
    BY <1>8 DEF PollTerminal, HasJob
  <2>2. TableTypeOK' /\ OtherTypeOK'
    BY <1>1, <1>8 DEF PollTerminal, TableTypeOK, OtherTypeOK
  <2> QED
    BY <1>1, <1>8, <2>1, <2>2, ConcludeTyped, OutcomeType, TypedParts DEF PollTerminal
<1>9. CASE PollTimeout(w)
  <2>1. pc[w] \in HasJob /\ Key(w) \in Keys
    BY <1>1, <1>2, <1>9 DEF PollTimeout, HasJob, HasAttempt, InHand, Key, Keys
  <2>2. faults' \in 0 .. MaxFaults
    BY <1>1, <1>9, FaultType DEF PollTimeout, OtherTypeOK
  <2>3. TableTypeOK' /\ OtherTypeOK'
    BY <1>1, <1>9, <2>1, <2>2 DEF PollTimeout, TableTypeOK, OtherTypeOK
  <2>4. CASE LocalStep(w, "cancel_polling")
    BY <1>1, <1>9, <2>1, <2>3, <2>4, LocalStepTyped, TypedParts
       DEF PollTimeout, HasJob, HasAttempt, HasBatch, WorkerPc
  <2>5. CASE Conclude(w, "interrupted")
    BY <1>1, <2>1, <2>3, <2>5, ConcludeTyped, TypedParts DEF Outcomes
  <2> QED
    BY <1>9, <2>4, <2>5 DEF PollTimeout
<1>10. CASE CancelPollGiveUp(w)
  <2>1. pc[w] \in HasJob
    BY <1>10 DEF CancelPollGiveUp, HasJob
  <2>2. TableTypeOK' /\ OtherTypeOK'
    BY <1>1, <1>10 DEF CancelPollGiveUp, TableTypeOK, OtherTypeOK
  <2> QED
    BY <1>1, <1>10, <2>1, <2>2, ConcludeTyped, TypedParts DEF CancelPollGiveUp, Outcomes
<1> QED
  BY <1>3, <1>4, <1>5, <1>6, <1>7, <1>8, <1>9, <1>10

LEMMA TypedWorker == ASSUME Typed, NEW w \in Workers, WorkerStep(w) PROVE Typed'
BY TypedStartup, TypedClaim, TypedSend DEF WorkerStep

LEMMA TypedRuntime == ASSUME Typed, NEW k \in Keys, RuntimeStep(k) PROVE Typed'
<1>1. TableTypeOK /\ OtherTypeOK /\ LocalTypeOK /\ InHand
  BY TypedParts
<1>2. TableTypeOK' /\ LocalTypeOK' /\ InHand' /\ UNCHANGED <<laneVars, stale, faults>>
  BY <1>1
     DEF RuntimeStep, PressEnter, EndRuntimeTask, RtStep, TableTypeOK,
         LocalTypeOK, InHand, taskVars, draftVars, localVars
<1>3. \/ UNCHANGED enters
      \/ enters' = [enters EXCEPT ![DraftOf[k[1]]] = IF k \in stale \/ @ = 2 THEN @ ELSE @ + 1]
  BY DEF RuntimeStep, PressEnter, EndRuntimeTask
<1>4. enters' \in [Drafts -> 0 .. 2]
  BY <1>1, <1>3 DEF OtherTypeOK
<1>5. \E s \in Runtime!States : rt' = [rt EXCEPT ![k] = s]
  BY DEF RuntimeStep, PressEnter, EndRuntimeTask, Runtime!Enter, Runtime!End, Runtime!Ends,
         Runtime!States, Runtime!InProgress, Runtime!NotEntered, Runtime!Entered
<1>6. rt' \in [Keys -> Runtime!States]
  BY <1>1, <1>5 DEF OtherTypeOK
<1> QED
  BY <1>1, <1>2, <1>4, <1>6, TypedParts DEF OtherTypeOK, laneVars

LEMMA TypedEnvironment == ASSUME Typed, Environment PROVE Typed'
<1> USE DEF taskVars, draftVars, laneVars, runtimeVars
<1>1. TableTypeOK /\ OtherTypeOK /\ LocalTypeOK /\ InHand
  BY TypedParts
<1>2. CASE RuntimeRestart
  <2>1. TableTypeOK' /\ LocalTypeOK' /\ InHand'
    BY <1>1, <1>2 DEF RuntimeRestart, RtStep, TableTypeOK, LocalTypeOK, InHand, localVars
  <2>2. rt' \in [Keys -> Runtime!States] /\ faults' \in 0 .. MaxFaults
    BY <1>1, <1>2, FaultType DEF RuntimeRestart, Runtime!Restart, OtherTypeOK, Runtime!States, Runtime!InProgress
  <2> QED
    BY <1>1, <1>2, <2>1, <2>2, TypedParts DEF RuntimeRestart, RtStep, OtherTypeOK
<1>3. CASE LeaseExpire
  BY <1>1, <1>3, TypedParts
     DEF LeaseExpire, TableTypeOK, OtherTypeOK, LocalTypeOK, InHand, localVars
<1>4. ASSUME NEW w \in Workers, RenewStop(w) PROVE Typed'
  <2>1. faults' \in 0 .. MaxFaults
    BY <1>1, <1>4, FaultType DEF RenewStop, OtherTypeOK
  <2> QED
    BY <1>1, <1>4, <2>1, TypedParts
       DEF RenewStop, TableTypeOK, OtherTypeOK, LocalTypeOK, InHand
<1>5. ASSUME NEW w \in Workers, Stop(w) \/ Crash(w) PROVE Typed'
  <2>1. faults' \in 0 .. MaxFaults
    BY <1>1, <1>5, FaultType DEF Stop, Crash, OtherTypeOK
  <2>2. PICK holder \in {None, "orphan"} : GiveUp(w, holder)
    BY <1>5 DEF Stop, Crash
  <2> QED
    BY <1>5, <2>1, <2>2, TypedGiveUp DEF Stop, Crash
<1>6. ASSUME NEW e \in Executors, TransactionFailed(e) PROVE Typed'
  <2>1. TableTypeOK' /\ OtherTypeOK'
    BY <1>1, <1>6, FaultType DEF TransactionFailed, TableTypeOK, OtherTypeOK
  <2> QED
    BY <1>1, <1>6, <2>1, FinishTyped, TypedParts DEF TransactionFailed
<1> QED
  BY <1>2, <1>3, <1>4, <1>5, <1>6 DEF Environment

\* Typed is inductive.
LEMMA TypedNext == Typed /\ [Next]_vars => Typed'
<1> SUFFICES ASSUME Typed, [Next]_vars PROVE Typed'
  OBVIOUS
<1>1. CASE Next
  BY <1>1, TypedApi, TypedRun, TypedWorker, TypedRuntime, TypedEnvironment DEF Next
<1>2. CASE UNCHANGED vars
  BY <1>2 DEF Typed, TypeOK, InHand, vars, taskVars, draftVars, laneVars, localVars, runtimeVars
<1> QED
  BY <1>1, <1>2

\* Every variable has its type, and what an executor has in hand at a step is
\* there: a step never finds its task, attempt or batch missing.
THEOREM Typing == Spec => []Typed
BY TypedInit, TypedNext, PTL DEF Spec

\* The type invariant the runs check.
THEOREM TypeCorrect == Spec => []TypeOK
<1>1. Typed => TypeOK
  BY DEF Typed
<1> QED
  BY <1>1, Typing, PTL


-----------------------------------------------------------------------------
(* The lane *)

\* A renewal that goes on is that of the lane's holder, and a lane is taken
\* only when no lease is live: no step can make two workers believe that they
\* hold the lane.
LEMMA LeaseNext == Typed /\ LeaseExclusive /\ [Next]_vars => LeaseExclusive'
<1> SUFFICES ASSUME Typed, LeaseExclusive, [Next]_vars PROVE LeaseExclusive'
  OBVIOUS
<1> USE DEF LeaseExclusive
<1>1. renew \in [Workers -> BOOLEAN] /\ None \notin Workers /\ "orphan" \notin Workers
  BY NoneAssumption DEF Typed, TypeOK
<1>2. CASE UNCHANGED <<lane, fresh, renew>>
  BY <1>2
<1>3. ASSUME NEW w \in Workers, Claim(w) PROVE LeaseExclusive'
  BY <1>1, <1>3 DEF Claim, LaneFree
<1>4. ASSUME NEW w \in Workers, NEW holder \in {None, "orphan"}, GiveUp(w, holder),
             renew' = [renew EXCEPT ![w] = FALSE]
      PROVE  LeaseExclusive'
  BY <1>1, <1>4 DEF GiveUp
<1>5. ASSUME NEW w \in Workers, Recovered(w) \/ ClaimNothing(w) PROVE LeaseExclusive'
  BY <1>5 DEF Recovered, ClaimNothing, LaneFree, localVars
<1>6. CASE LeaseExpire
  BY <1>1, <1>6 DEF LeaseExpire, localVars
<1>7. ASSUME NEW w \in Workers, RenewStop(w) PROVE LeaseExclusive'
  BY <1>1, <1>7 DEF RenewStop, laneVars
<1>8. CASE ApiStep
  <2>1. UNCHANGED <<lane, fresh, renew>>
    BY <1>8
       DEF ApiStep, CreateBatch, MarkDraft, ClearBatches, StartCheck, PauseCheck,
           CancelBatchCheck, CancelTaskCheck, RetryCheck, RunTaskCheck, Accept, StartCommit,
           PauseCommit, CancelBatchCommit, CancelTasks, CancelTaskCommit, RetryCommit,
           RunTaskCommit, Answered, laneVars, localVars
  <2> QED
    BY <2>1, <1>2
<1>9. ASSUME NEW e \in Executors, RunStep(e) \/ TransactionFailed(e) PROVE LeaseExclusive'
  <2>1. UNCHANGED <<lane, fresh, renew>>
    BY <1>9
       DEF RunStep, PasteAttempt, AttemptFailed, CallPaste, Persist, PersistFallback,
           PersistLost, TransactionFailed, InsertAttempt, WriteAttempt, Finish, LocalStep,
           Answered, Conclude, laneVars
  <2> QED
    BY <2>1, <1>2
<1>10. ASSUME NEW w \in Workers, WorkerStep(w) PROVE LeaseExclusive'
  <2>1. CASE Release(w)
    <3>1. PICK holder \in {None, "orphan"} : GiveUp(w, holder)
      BY <2>1 DEF Release
    <3> QED
      BY <2>1, <3>1, <1>4 DEF Release, Forget
  <2>2. CASE \/ Start(w) \/ ReconcileAbort(w)
             \/ \E t \in Tasks : Reconcile(w, t) \/ ReconcileFallback(w, t)
             \/ ReadTask(w) \/ CancelClaimed(w) \/ SendStarted(w) \/ SendAttempt(w)
             \/ CallSend(w) \/ PollTerminal(w) \/ PollTimeout(w) \/ CancelPollGiveUp(w)
    <3>1. UNCHANGED <<lane, fresh, renew>>
      BY <2>2
         DEF Start, ReconcileAbort, Reconcile, ReconcileFallback, RecoverTask, ReadTask,
             CancelClaimed, SendStarted, SendAttempt, InsertAttempt, WriteAttempt, CallSend,
             PollTerminal, PollTimeout, CancelPollGiveUp, LocalStep, Conclude, laneVars
    <3> QED
      BY <3>1, <1>2
  <2> QED
    BY <1>10, <2>1, <2>2, <1>3, <1>5 DEF WorkerStep
<1>11. ASSUME NEW k \in Keys, RuntimeStep(k) PROVE LeaseExclusive'
  BY <1>11, <1>2
     DEF RuntimeStep, PressEnter, EndRuntimeTask, RtStep, laneVars,
         localVars
<1>12. CASE Environment
  <2>1. CASE RuntimeRestart
    BY <2>1, <1>2 DEF RuntimeRestart, RtStep, laneVars, localVars
  <2>2. ASSUME NEW w \in Workers, Stop(w) \/ Crash(w) PROVE LeaseExclusive'
    <3>1. PICK holder \in {None, "orphan"} : GiveUp(w, holder)
      BY <2>2 DEF Stop, Crash
    <3> QED
      BY <2>2, <3>1, <1>4 DEF Stop, Crash, Forget
  <2> QED
    BY <1>12, <2>1, <2>2, <1>6, <1>7, <1>9 DEF Environment
<1>13. CASE UNCHANGED vars
  BY <1>13, <1>2 DEF vars, laneVars, localVars
<1> QED
  BY <1>8, <1>9, <1>10, <1>11, <1>12, <1>13 DEF Next

\* Two workers never both believe that they hold the lane
\* (acquire_execution_lane, renew_execution_lane).
THEOREM LaneHasOneOwner == Spec => []LeaseExclusive
<1>1. Init => LeaseExclusive
  BY DEF Init, LeaseExclusive
<1> QED
  BY <1>1, LeaseNext, Typing, PTL DEF Spec

-----------------------------------------------------------------------------
(* The status of a batch *)

\* A batch's row exists exactly when the rows of its tasks do, and a batch
\* that has settled has only settled tasks.
Consistent(st, bs) ==
  \A t \in Tasks :
    /\ st[t] \in Gone <=> bs[BatchOf[t]] \in Gone
    /\ bs[BatchOf[t]] \in SettledBatch => st[t] \in SettledTask

StatusTyped ==
  /\ status \in [Tasks -> TaskStatus \cup Gone]
  /\ bstatus \in [Batches -> BatchStatuses \cup Gone]

\* The statuses of the code are not those of a missing row, and an active
\* status is not a settled one.
LEMMA Disjoint ==
  /\ TaskStatus \cap Gone = {} /\ BatchStatuses \cap Gone = {}
  /\ ActiveTask \cap SettledTask = {} /\ ActiveBatch \cap SettledBatch = {}
BY DEF TaskStatus, ActiveTask, SettledTask, BatchStatuses, ActiveBatch, SettledBatch, Gone

\* recompute_execution_batch_counts settles a batch only when no task of it is
\* active.
LEMMA DerivedSettles ==
  ASSUME NEW S, NEW current \in BatchStatuses, DerivedStatus(S, current) \in SettledBatch
  PROVE  S \cap ActiveTask = {}
<1>1. CASE S \cap ActiveTask # {} /\ current = "cancelling"
  BY <1>1 DEF DerivedStatus, SettledBatch
<1>2. CASE S \cap ActiveTask # {} /\ current # "cancelling"
  <2>1. DerivedStatus(S, current) = CountedStatus(S, current)
    BY <1>2 DEF DerivedStatus
  <2>2. CASE S \cap {"running", "cancelling"} # {}
    BY <2>1, <2>2 DEF CountedStatus, OnlyFailedAs, Succeeded, SettledBatch
  <2>3. CASE S \cap {"running", "cancelling"} = {} /\ S = {"pending"}
    BY <2>1, <2>3 DEF CountedStatus, OnlyFailedAs, Succeeded, SettledBatch
  <2>4. CASE S \cap {"running", "cancelling"} = {} /\ S # {"pending"}
    <3>1. "pending" \in S
      BY <1>2, <2>4 DEF ActiveTask
    <3> QED
      BY <2>1, <2>4, <3>1 DEF CountedStatus, OnlyFailedAs, Succeeded, SettledBatch
  <2> QED
    BY <2>2, <2>3, <2>4
<1> QED
  BY <1>1, <1>2

\* A recompute of batch b restores Consistent when only b may violate it.
LEMMA RecomputeRestores ==
  ASSUME NEW st \in [Tasks -> TaskStatus \cup Gone],
         NEW bs \in [Batches -> BatchStatuses \cup Gone], NEW b \in Batches,
         \A t \in Tasks : st[t] \in Gone <=> bs[BatchOf[t]] \in Gone,
         \A t \in Tasks : BatchOf[t] # b /\ bs[BatchOf[t]] \in SettledBatch
                          => st[t] \in SettledTask
  PROVE  Consistent(st, Recomputed(b, st, bs))
<1> DEFINE S == {st[t] : t \in TasksOf(b)}
<1>1. ASSUME NEW t \in Tasks
      PROVE  st[t] \in Gone <=> Recomputed(b, st, bs)[BatchOf[t]] \in Gone
  BY IdAssumption, DerivedType, Disjoint DEF Recomputed
<1>2. ASSUME NEW t \in Tasks, Recomputed(b, st, bs)[BatchOf[t]] \in SettledBatch
      PROVE  st[t] \in SettledTask
  <2>1. CASE BatchOf[t] # b
    BY <1>2, <2>1, IdAssumption DEF Recomputed
  <2>2. CASE BatchOf[t] = b
    <3>1. st[t] \in S /\ st[t] \notin Gone
      BY <1>1, <1>2, <2>2, Disjoint DEF TasksOf, SettledBatch, Gone
    <3>2. bs[b] \in BatchStatuses /\ DerivedStatus(S, bs[b]) \in SettledBatch
      BY <1>2, <2>2, <3>1 DEF Recomputed
    <3>3. st[t] \notin ActiveTask
      BY <3>1, <3>2, DerivedSettles
    <3> QED
      BY <3>1, <3>3 DEF TaskStatus
  <2> QED
    BY <2>1, <2>2
<1> QED
  BY <1>1, <1>2 DEF Consistent

\* The ways in which the code writes one task and its batch, or recounts a
\* batch: _persist_execution_result and the like, the start of a task, and
\* recompute_execution_batch_counts alone.
Writes(t, s) ==
  /\ status' = WithStatus(t, s)
  /\ \E bs \in {bstatus, WithBatch(BatchOf[t], "queued")} :
       bstatus' = Recomputed(BatchOf[t], status', bs)
Runs(t) ==
  status' = WithStatus(t, "running") /\ bstatus' = WithBatch(BatchOf[t], "running")
Recounts(b) ==
  /\ status' = status
  /\ \E bs \in {bstatus, WithBatch(b, "queued")} : bstatus' = Recomputed(b, status, bs)

LEMMA ApiWrites ==
  ASSUME Typed, ApiStep
  PROVE  \/ UNCHANGED <<status, bstatus>>
         \/ \E t \in Tasks : Runs(t) \/ \E s \in TaskStatus : Writes(t, s)
         \/ \E b \in Batches : Recounts(b) \/ CreateBatch(b)
         \/ \E c \in Callers : PauseCommit(c) \/ CancelBatchCommit(c)
         \/ ClearBatches
<1>1. CASE \E d \in Drafts : MarkDraft(d, "sent") \/ MarkDraft(d, "pending")
  BY <1>1 DEF MarkDraft, taskVars
<1>2. ASSUME NEW c \in Callers,
             \/ \E b \in Batches : StartCheck(c, b) \/ PauseCheck(c, b) \/ CancelBatchCheck(c, b)
             \/ \E t \in Tasks : CancelTaskCheck(c, t) \/ RetryCheck(c, t) \/ RunTaskCheck(c, t)
      PROVE  UNCHANGED <<status, bstatus>>
  BY <1>2
     DEF StartCheck, PauseCheck, CancelBatchCheck, CancelTaskCheck, RetryCheck, RunTaskCheck,
         Accept, taskVars
<1>3. ASSUME NEW c \in Callers, StartCommit(c) PROVE \E b \in Batches : Recounts(b)
  BY <1>3 DEF StartCommit, Typed, InHand, HasBatch, Recounts, taskVars
<1>4. ASSUME NEW c \in Callers, CancelTaskCommit(c) \/ RetryCommit(c) \/ RunTaskCommit(c)
      PROVE  \/ UNCHANGED <<status, bstatus>>
             \/ \E t \in Tasks : Runs(t) \/ \E s \in TaskStatus : Writes(t, s)
  <2>1. job[c] \in Tasks
    BY <1>4 DEF CancelTaskCommit, RetryCommit, RunTaskCommit, Typed, InHand, HasJob, Executors
  <2>2. CASE CancelTaskCommit(c)
    BY <2>1, <2>2, StatusNames DEF CancelTaskCommit, Writes
  <2>3. CASE RetryCommit(c)
    BY <2>1, <2>3, StatusNames DEF RetryCommit, Writes
  <2>4. CASE RunTaskCommit(c)
    BY <2>1, <2>4 DEF RunTaskCommit, Runs
  <2> QED
    BY <1>4, <2>2, <2>3, <2>4
<1> QED
  BY <1>1, <1>2, <1>3, <1>4 DEF ApiStep

LEMMA RunWrites ==
  ASSUME Typed, NEW e \in Executors, RunStep(e)
  PROVE  \/ UNCHANGED <<status, bstatus>>
         \/ \E t \in Tasks, s \in TaskStatus : Writes(t, s)
         \/ \E b \in Batches : Recounts(b)
<1>1. CASE PasteAttempt(e)
  <2>1. job[e] \in Tasks /\ BatchOf[job[e]] \in Batches
    BY <1>1, IdAssumption DEF PasteAttempt, Typed, InHand, HasJob
  <2>2. status' = status /\ bstatus' = Recomputed(BatchOf[job[e]], status, bstatus)
    BY <1>1 DEF PasteAttempt, InsertAttempt, WriteAttempt
  <2> QED
    BY <2>1, <2>2 DEF Recounts
<1>2. CASE AttemptFailed(e)
  <2>1. job[e] \in Tasks
    BY <1>2 DEF AttemptFailed, Typed, InHand, HasJob
  <2> QED
    BY <1>2, <2>1, StatusNames DEF AttemptFailed, Writes
<1>3. CASE Persist(e) \/ PersistFallback(e)
  <2>1. job[e] \in Tasks /\ res[e] \in Outcomes
    BY <1>3 DEF Persist, PersistFallback, Typed, InHand, HasJob
  <2> QED
    BY <1>3, <2>1, TaskStatusForType, StatusNames DEF Persist, PersistFallback, Record, Writes
<1>4. CASE CallPaste(e) \/ PersistLost(e)
  BY <1>4 DEF CallPaste, PersistLost, taskVars
<1> QED
  BY <1>1, <1>2, <1>3, <1>4 DEF RunStep

LEMMA WorkerWrites ==
  ASSUME Typed, NEW w \in Workers, WorkerStep(w)
  PROVE  \/ UNCHANGED <<status, bstatus>>
         \/ \E t \in Tasks : Runs(t) \/ \E s \in TaskStatus : Writes(t, s)
<1>0. w \in Executors /\ StatusTyped
  BY DEF Executors, Typed, TypeOK, StatusTyped
<1>1. ASSUME NEW t \in Tasks, Reconcile(w, t) \/ ReconcileFallback(w, t)
      PROVE  \E s \in TaskStatus : Writes(t, s)
  BY <1>1, StatusNames, RecoveredAsType DEF Reconcile, ReconcileFallback, RecoverTask, Writes
<1>2. CASE Claim(w)
  <2>1. PICK t \in Claimable :
          /\ status' = [status EXCEPT ![t] = "running"]
          /\ bstatus' = [bstatus EXCEPT ![BatchOf[t]] = "running"]
    BY <1>2 DEF Claim
  <2>2. t \in Tasks /\ status[t] = "pending" /\ bstatus[BatchOf[t]] \notin Gone
    BY DEF Claimable, Gone
  <2>3. status' = WithStatus(t, "running") /\ bstatus' = WithBatch(BatchOf[t], "running")
    BY <1>0, <2>1, <2>2, IdAssumption DEF WithStatus, WithBatch, StatusTyped, Gone
  <2> QED
    BY <2>2, <2>3 DEF Runs
<1>3. CASE CancelClaimed(w) \/ SendStarted(w)
  <2>1. job[w] \in Tasks
    BY <1>0, <1>3 DEF CancelClaimed, SendStarted, Typed, InHand, HasJob
  <2> QED
    BY <1>3, <2>1, StatusNames DEF CancelClaimed, SendStarted, Writes, Runs
<1>4. CASE \/ Start(w) \/ Recovered(w) \/ ReconcileAbort(w) \/ ClaimNothing(w) \/ Release(w)
           \/ ReadTask(w) \/ SendAttempt(w) \/ CallSend(w) \/ PollTerminal(w)
           \/ PollTimeout(w) \/ CancelPollGiveUp(w)
  BY <1>4
     DEF Start, Recovered, ReconcileAbort, ClaimNothing, Release, ReadTask, SendAttempt,
         InsertAttempt, WriteAttempt, CallSend, PollTerminal, PollTimeout, CancelPollGiveUp,
         taskVars
<1> QED
  BY <1>1, <1>2, <1>3, <1>4 DEF WorkerStep

\* Every step leaves the statuses alone, or writes them in one of these ways.
LEMMA StatusSteps ==
  ASSUME Typed, [Next]_vars
  PROVE  \/ UNCHANGED <<status, bstatus>>
         \/ \E t \in Tasks : Runs(t) \/ \E s \in TaskStatus : Writes(t, s)
         \/ \E b \in Batches : Recounts(b) \/ CreateBatch(b)
         \/ \E c \in Callers : PauseCommit(c) \/ CancelBatchCommit(c)
         \/ ClearBatches
<1>1. ASSUME NEW k \in Keys, RuntimeStep(k) PROVE UNCHANGED <<status, bstatus>>
  BY <1>1 DEF RuntimeStep, PressEnter, EndRuntimeTask, RtStep, taskVars
<1>2. CASE Environment
  BY <1>2
     DEF Environment, RuntimeRestart, RtStep, LeaseExpire, RenewStop, Stop, Crash,
         TransactionFailed, taskVars
<1>3. CASE UNCHANGED vars
  BY <1>3 DEF vars, taskVars
<1> QED
  BY <1>1, <1>2, <1>3, ApiWrites, RunWrites, WorkerWrites DEF Next

LEMMA WriteAndRecompute ==
  ASSUME StatusTyped, Consistent(status, bstatus), NEW t \in Tasks, NEW s \in TaskStatus,
         Writes(t, s)
  PROVE  Consistent(status', bstatus')
<1>1. /\ status' = WithStatus(t, s)
      /\ \E bs \in {bstatus, WithBatch(BatchOf[t], "queued")} :
           bstatus' = Recomputed(BatchOf[t], status', bs)
  BY DEF Writes
<1>0. PICK bs \in {bstatus, WithBatch(BatchOf[t], "queued")} :
        bstatus' = Recomputed(BatchOf[t], status', bs)
  BY <1>1
<1>2. /\ bs \in [Batches -> BatchStatuses \cup Gone]
      /\ status' \in [Tasks -> TaskStatus \cup Gone]
  BY <1>1, WithBatchType, WithStatusType, StatusNames DEF StatusTyped
<1>3. \A u \in Tasks : bs[BatchOf[u]] \in Gone <=> bstatus[BatchOf[u]] \in Gone
  BY IdAssumption, StatusNames, Disjoint DEF WithBatch, StatusTyped
<1>4. \A u \in Tasks : status'[u] \in Gone <=> status[u] \in Gone
  BY <1>1, Disjoint DEF WithStatus, StatusTyped
<1>5. \A u \in Tasks : status'[u] \in Gone <=> bs[BatchOf[u]] \in Gone
  BY <1>3, <1>4 DEF Consistent
<1>6. \A u \in Tasks : BatchOf[u] # BatchOf[t] => bs[BatchOf[u]] = bstatus[BatchOf[u]]
  BY IdAssumption DEF WithBatch, StatusTyped
<1>7. \A u \in Tasks : BatchOf[u] # BatchOf[t] /\ bs[BatchOf[u]] \in SettledBatch
                       => status'[u] \in SettledTask
  BY <1>1, <1>6 DEF Consistent, WithStatus, StatusTyped
<1>8. BatchOf[t] \in Batches
  BY IdAssumption
<1> QED
  BY <1>0, <1>2, <1>5, <1>7, <1>8, RecomputeRestores

LEMMA WriteRunning ==
  ASSUME StatusTyped, Consistent(status, bstatus), NEW t \in Tasks,
         Runs(t)
  PROVE  Consistent(status', bstatus')
<1> USE DEF Runs
<1>1. \A u \in Tasks : status'[u] \in Gone <=> status[u] \in Gone
  BY Disjoint, StatusNames DEF WithStatus, StatusTyped
<1>2. \A u \in Tasks : bstatus'[BatchOf[u]] \in Gone <=> bstatus[BatchOf[u]] \in Gone
  BY IdAssumption, Disjoint, StatusNames DEF WithBatch, StatusTyped
<1>3. ASSUME NEW u \in Tasks, bstatus'[BatchOf[u]] \in SettledBatch PROVE status'[u] \in SettledTask
  <2>1. bstatus'[BatchOf[u]] = bstatus[BatchOf[u]] /\ u # t
    BY <1>3, IdAssumption DEF WithBatch, StatusTyped, SettledBatch, Gone
  <2> QED
    BY <1>3, <2>1 DEF Consistent, WithStatus, StatusTyped
<1> QED
  BY <1>1, <1>2, <1>3 DEF Consistent

LEMMA RecountConsistent ==
  ASSUME StatusTyped, Consistent(status, bstatus), NEW b \in Batches, Recounts(b)
  PROVE  Consistent(status', bstatus')
<1>1. PICK bs \in {bstatus, WithBatch(b, "queued")} : bstatus' = Recomputed(b, status, bs)
  BY DEF Recounts
<1>2. bs \in [Batches -> BatchStatuses \cup Gone] /\ status \in [Tasks -> TaskStatus \cup Gone]
  BY WithBatchType, StatusNames DEF StatusTyped
<1>3. \A u \in Tasks : status[u] \in Gone <=> bs[BatchOf[u]] \in Gone
  BY IdAssumption, StatusNames, Disjoint DEF WithBatch, Consistent, StatusTyped
<1>4. \A u \in Tasks : BatchOf[u] # b /\ bs[BatchOf[u]] \in SettledBatch => status[u] \in SettledTask
  BY IdAssumption DEF WithBatch, Consistent, StatusTyped
<1>5. Consistent(status, Recomputed(b, status, bs))
  BY <1>2, <1>3, <1>4, RecomputeRestores
<1> QED
  BY <1>1, <1>5 DEF Recounts

\* cancel_execution_batch: what its transaction does to the statuses.
LEMMA CancelBatchWrites ==
  ASSUME Typed, NEW c \in Callers, CancelBatchCommit(c)
  PROVE  LET b  == target[c]
             bs == WithBatch(b, "cancelling")
         IN  /\ b \in Batches
             /\ bs \in [Batches -> BatchStatuses \cup Gone]
             /\ status' \in [Tasks -> TaskStatus \cup Gone]
             /\ bstatus' = Recomputed(b, status', bs)
             /\ \A u \in Tasks : status'[u] \in Gone <=> status[u] \in Gone
             /\ \A u \in Tasks : BatchOf[u] # b => status'[u] = status[u]
<1> DEFINE b == target[c]
           dropped == {t \in TasksOf(b) : status[t] = "pending"}
<1>0. StatusTyped
  BY DEF Typed, TypeOK, StatusTyped
<1>1. b \in Batches
  BY DEF CancelBatchCommit, CancelTasks, Typed, InHand, HasBatch
<1>2. /\ status' = [t \in Tasks |->
                      CASE t \in dropped -> "cancelled"
                        [] t \in TasksOf(b) \ dropped /\ status[t] = "running" -> "cancelling"
                        [] OTHER -> status[t]]
      /\ bstatus' = Recomputed(b, status', WithBatch(b, "cancelling"))
  BY DEF CancelBatchCommit, CancelTasks
<1>3. WithBatch(b, "cancelling") \in [Batches -> BatchStatuses \cup Gone]
  BY <1>0, WithBatchType, StatusNames DEF StatusTyped
<1>4. status' \in [Tasks -> TaskStatus \cup Gone]
  BY <1>0, <1>2, StatusNames DEF StatusTyped
<1>5. \A u \in Tasks : status'[u] \in Gone <=> status[u] \in Gone
  BY <1>0, <1>2 DEF StatusTyped, Gone
<1>6. \A u \in Tasks : BatchOf[u] # b => status'[u] = status[u]
  BY <1>2 DEF TasksOf
<1> QED
  BY <1>1, <1>2, <1>3, <1>4, <1>5, <1>6

LEMMA ConsistentNext ==
  Typed /\ Consistent(status, bstatus) /\ [Next]_vars => Consistent(status, bstatus)'
<1> SUFFICES ASSUME Typed, Consistent(status, bstatus), [Next]_vars
             PROVE  Consistent(status', bstatus')
  OBVIOUS
<1>0. StatusTyped
  BY DEF Typed, TypeOK, StatusTyped
<1>1. ASSUME NEW b \in Batches, CreateBatch(b) PROVE Consistent(status', bstatus')
  BY <1>0, <1>1, IdAssumption
     DEF CreateBatch, Consistent, StatusTyped, Gone, SettledBatch
<1>2. CASE ClearBatches
  BY <1>0, <1>2, IdAssumption DEF ClearBatches, Consistent, StatusTyped, Gone, SettledBatch
<1>3. ASSUME NEW c \in Callers, PauseCommit(c) PROVE Consistent(status', bstatus')
  <2>1. status' = status /\ bstatus' = WithBatch(target[c], "paused")
    BY <1>3 DEF PauseCommit, taskVars
  <2> QED
    BY <1>0, <2>1, IdAssumption, StatusNames, Disjoint
       DEF WithBatch, Consistent, StatusTyped, Gone, SettledBatch
<1>4. ASSUME NEW c \in Callers, CancelBatchCommit(c) PROVE Consistent(status', bstatus')
  <2> DEFINE b == target[c]
             bs == WithBatch(b, "cancelling")
  <2>1. /\ b \in Batches /\ bs \in [Batches -> BatchStatuses \cup Gone]
        /\ status' \in [Tasks -> TaskStatus \cup Gone]
        /\ bstatus' = Recomputed(b, status', bs)
        /\ \A u \in Tasks : status'[u] \in Gone <=> status[u] \in Gone
        /\ \A u \in Tasks : BatchOf[u] # b => status'[u] = status[u]
    BY <1>4, CancelBatchWrites
  <2>2. \A u \in Tasks : status[u] \in Gone <=> bs[BatchOf[u]] \in Gone
    BY <1>0, IdAssumption, StatusNames, Disjoint DEF WithBatch, Consistent, StatusTyped
  <2>3. \A u \in Tasks : BatchOf[u] # b => bs[BatchOf[u]] = bstatus[BatchOf[u]]
    BY <1>0, IdAssumption DEF WithBatch, StatusTyped
  <2> HIDE DEF b, bs
  <2>4. \A u \in Tasks : BatchOf[u] # b /\ bs[BatchOf[u]] \in SettledBatch => status'[u] \in SettledTask
    BY <2>1, <2>3 DEF Consistent
  <2> QED
    BY <2>1, <2>2, <2>4, RecomputeRestores
<1> QED
  BY <1>0, <1>1, <1>2, <1>3, <1>4, StatusSteps, WriteAndRecompute, WriteRunning, RecountConsistent

\* A batch that clear_terminal_execution_batches may delete has no task that
\* is pending or running, whatever operations, faults and restarts happened:
\* the recompute after every write of a task keeps the two tables together.
THEOREM SettledBatchesSettled == Spec => []BatchSettled
<1>1. Init => Consistent(status, bstatus)
  BY IdAssumption DEF Init, Consistent, Gone, SettledBatch
<1>2. Consistent(status, bstatus) => BatchSettled
  BY DEF Consistent, BatchSettled
<1> QED
  BY <1>1, <1>2, ConsistentNext, Typing, PTL DEF Spec

-----------------------------------------------------------------------------
(* A batch is concluded with its last task *)

\* BatchConcluded of any statuses.
Concluded(st, bs) ==
  \A b \in Batches : bs[b] \in ActiveBatch \ {"paused"} =>
    \E t \in TasksOf(b) : st[t] \in ActiveTask

\* A batch has tasks: create_execution_batch refuses one without drafts, for
\* which recompute_execution_batch_counts would derive "created".
Peopled(bs) == \A b \in Batches : bs[b] \notin Gone => TasksOf(b) # {}

\* recompute_execution_batch_counts leaves no batch active whose tasks have
\* all settled.
LEMMA DerivedConcludes ==
  ASSUME NEW S, NEW current, S # {}, S \subseteq TaskStatus, S \cap ActiveTask = {}
  PROVE  DerivedStatus(S, current) \notin ActiveBatch
<1>1. DerivedStatus(S, current) = CountedStatus(S, current)
  BY DEF DerivedStatus
<1>2. S \cap {"running", "cancelling"} = {} /\ "pending" \notin S /\ S # {"pending"}
  BY DEF ActiveTask
<1>3. CASE S \subseteq Succeeded
  <2>1. CountedStatus(S, current) = "completed"
    BY <1>2, <1>3 DEF CountedStatus, OnlyFailedAs, Succeeded
  <2> QED
    BY <1>1, <2>1 DEF ActiveBatch
<1>4. CASE ~(S \subseteq Succeeded)
  <2>1. CountedStatus(S, current)
          \in {"completed", "cancelled", "failed", "partially_failed", "interrupted"}
    BY <1>2, <1>4 DEF CountedStatus
  <2> QED
    BY <1>1, <2>1 DEF ActiveBatch
<1> QED
  BY <1>3, <1>4

\* A recompute of batch b restores Concluded when only b may violate it.
LEMMA RecomputeConcludes ==
  ASSUME NEW st \in [Tasks -> TaskStatus \cup Gone],
         NEW bs \in [Batches -> BatchStatuses \cup Gone], NEW b \in Batches,
         \A t \in Tasks : st[t] \in Gone <=> bs[BatchOf[t]] \in Gone,
         bs[b] \notin Gone => TasksOf(b) # {},
         \A a \in Batches \ {b} : bs[a] \in ActiveBatch \ {"paused"} =>
           \E t \in TasksOf(a) : st[t] \in ActiveTask
  PROVE  Concluded(st, Recomputed(b, st, bs))
<1> DEFINE S  == {st[t] : t \in TasksOf(b)}
           new == Recomputed(b, st, bs)
<1> SUFFICES ASSUME NEW a \in Batches, new[a] \in ActiveBatch \ {"paused"}
             PROVE  \E t \in TasksOf(a) : st[t] \in ActiveTask
  BY DEF Concluded
<1>1. CASE a # b
  BY <1>1 DEF Recomputed
<1>2. CASE a = b
  <2>1. bs[b] \notin Gone /\ new[b] = DerivedStatus(S, bs[b])
    BY <1>2 DEF Recomputed, ActiveBatch, Gone
  <2>2. S # {}
    BY <2>1
  <2>3. S \subseteq TaskStatus
    BY <2>1 DEF TasksOf
  <2>4. S \cap ActiveTask # {}
    BY <1>2, <2>1, <2>2, <2>3, DerivedConcludes
  <2> QED
    BY <1>2, <2>4
<1> QED
  BY <1>1, <1>2

CInv == Typed /\ Consistent(status, bstatus) /\ Peopled(bstatus) /\ Concluded(status, bstatus)

LEMMA PeopledNext ==
  Typed /\ Peopled(bstatus) /\ [Next]_vars => Peopled(bstatus)'
<1> SUFFICES ASSUME Typed, Peopled(bstatus), [Next]_vars PROVE Peopled(bstatus')
  OBVIOUS
<1>0. StatusTyped
  BY DEF Typed, TypeOK, StatusTyped
<1>1. ASSUME NEW b, NEW st, NEW s, Peopled(WithBatch(b, s))
      PROVE  Peopled(Recomputed(b, st, bstatus)) /\ Peopled(Recomputed(b, st, WithBatch(b, s)))
  BY <1>0 DEF Peopled, Recomputed, WithBatch, StatusTyped
<1>2. ASSUME NEW b, NEW s PROVE Peopled(WithBatch(b, s))
  BY <1>0 DEF Peopled, WithBatch, StatusTyped
<1>3. ASSUME NEW t \in Tasks, NEW s, Runs(t) \/ Writes(t, s) PROVE Peopled(bstatus')
  BY <1>1, <1>2, <1>3 DEF Runs, Writes
<1>4. ASSUME NEW b \in Batches, Recounts(b) \/ CreateBatch(b) PROVE Peopled(bstatus')
  <2>1. CASE Recounts(b)
    BY <1>1, <1>2, <2>1 DEF Recounts
  <2>2. CASE CreateBatch(b)
    BY <1>0, <2>2 DEF CreateBatch, Peopled, StatusTyped
  <2> QED
    BY <1>4, <2>1, <2>2
<1>5. ASSUME NEW c \in Callers, PauseCommit(c) PROVE Peopled(bstatus')
  BY <1>2, <1>5 DEF PauseCommit
<1>6. ASSUME NEW c \in Callers, CancelBatchCommit(c) PROVE Peopled(bstatus')
  BY <1>1, <1>2, <1>6, CancelBatchWrites
<1>7. CASE ClearBatches
  BY <1>0, <1>7 DEF ClearBatches, Peopled, StatusTyped, Gone, SettledBatch
<1> QED
  BY <1>3, <1>4, <1>5, <1>6, <1>7, StatusSteps

\* A task that runs in a batch with a row keeps the batch unconcluded.
LEMMA WritesConclude ==
  ASSUME CInv, NEW t \in Tasks, NEW s \in TaskStatus, Writes(t, s)
  PROVE  Concluded(status', bstatus')
<1>0. StatusTyped
  BY DEF CInv, Typed, TypeOK, StatusTyped
<1>1. PICK bs \in {bstatus, WithBatch(BatchOf[t], "queued")} :
        bstatus' = Recomputed(BatchOf[t], status', bs)
  BY DEF Writes
<1>2. status' = WithStatus(t, s)
  BY DEF Writes
<1>3. /\ bs \in [Batches -> BatchStatuses \cup Gone] /\ BatchOf[t] \in Batches
      /\ status' \in [Tasks -> TaskStatus \cup Gone]
  BY <1>0, <1>2, IdAssumption, WithBatchType, WithStatusType, StatusNames DEF StatusTyped
<1>4. \A b \in Batches : /\ bs[b] \in Gone <=> bstatus[b] \in Gone
                         /\ b # BatchOf[t] => bs[b] = bstatus[b]
  BY <1>0, StatusNames, Disjoint DEF WithBatch, StatusTyped
<1>5. \A u \in Tasks : /\ status'[u] \in Gone <=> status[u] \in Gone
                       /\ u # t => status'[u] = status[u]
  BY <1>0, <1>2, Disjoint DEF WithStatus, StatusTyped
<1>6. \A u \in Tasks : status'[u] \in Gone <=> bs[BatchOf[u]] \in Gone
  BY <1>4, <1>5, IdAssumption DEF CInv, Consistent
<1>7. \A a \in Batches \ {BatchOf[t]} : bs[a] \in ActiveBatch \ {"paused"} =>
        \E u \in TasksOf(a) : status'[u] \in ActiveTask
  <2> SUFFICES ASSUME NEW a \in Batches \ {BatchOf[t]}, bs[a] \in ActiveBatch \ {"paused"}
               PROVE  \E u \in TasksOf(a) : status'[u] \in ActiveTask
    OBVIOUS
  <2>1. PICK u \in TasksOf(a) : status[u] \in ActiveTask
    BY <1>4 DEF CInv, Concluded
  <2>2. u \in Tasks /\ u # t
    BY DEF TasksOf
  <2> QED
    BY <1>5, <2>1, <2>2
<1>8. bs[BatchOf[t]] \notin Gone => TasksOf(BatchOf[t]) # {}
  BY DEF TasksOf
<1> QED
  BY <1>1, <1>3, <1>6, <1>7, <1>8, RecomputeConcludes

LEMMA ConcludedNext == CInv /\ [Next]_vars => Concluded(status, bstatus)'
<1> SUFFICES ASSUME CInv, [Next]_vars PROVE Concluded(status', bstatus')
  OBVIOUS
<1>0. StatusTyped /\ Typed
  BY DEF CInv, Typed, TypeOK, StatusTyped
<1>1. CASE UNCHANGED <<status, bstatus>>
  BY <1>1 DEF CInv
<1>2. ASSUME NEW t \in Tasks, Runs(t) PROVE Concluded(status', bstatus')
  <2> SUFFICES ASSUME NEW b \in Batches, bstatus'[b] \in ActiveBatch \ {"paused"}
               PROVE  \E u \in TasksOf(b) : status'[u] \in ActiveTask
    BY DEF Concluded
  <2>1. CASE b = BatchOf[t]
    <3>1. bstatus[b] \notin Gone
      BY <1>0, <1>2, <2>1 DEF Runs, WithBatch, StatusTyped, ActiveBatch, Gone
    <3>2. status[t] \notin Gone
      BY <2>1, <3>1 DEF CInv, Consistent
    <3>3. t \in TasksOf(b) /\ status'[t] = "running"
      BY <1>0, <1>2, <2>1, <3>2 DEF Runs, WithStatus, StatusTyped, TasksOf
    <3> QED
      BY <3>3 DEF ActiveTask
  <2>2. CASE b # BatchOf[t]
    <3>1. bstatus'[b] = bstatus[b]
      BY <1>0, <1>2, <2>2 DEF Runs, WithBatch, StatusTyped
    <3>2. PICK u \in TasksOf(b) : status[u] \in ActiveTask
      BY <3>1 DEF CInv, Concluded
    <3>3. u \in Tasks /\ status'[u] = status[u]
      BY <1>0, <1>2, <2>2, <3>2 DEF Runs, WithStatus, StatusTyped, TasksOf
    <3> QED
      BY <3>2, <3>3
  <2> QED
    BY <2>1, <2>2
<1>3. ASSUME NEW b \in Batches, Recounts(b) PROVE Concluded(status', bstatus')
  <2>1. PICK bs \in {bstatus, WithBatch(b, "queued")} : bstatus' = Recomputed(b, status, bs)
    BY <1>3 DEF Recounts
  <2>2. bs \in [Batches -> BatchStatuses \cup Gone] /\ status \in [Tasks -> TaskStatus \cup Gone]
    BY <1>0, WithBatchType, StatusNames DEF StatusTyped
  <2>3. \A a \in Batches : /\ bs[a] \in Gone <=> bstatus[a] \in Gone
                           /\ a # b => bs[a] = bstatus[a]
    BY <1>0, StatusNames, Disjoint DEF WithBatch, StatusTyped
  <2>4. \A u \in Tasks : status[u] \in Gone <=> bs[BatchOf[u]] \in Gone
    BY <2>3, IdAssumption DEF CInv, Consistent
  <2>5. \A a \in Batches \ {b} : bs[a] \in ActiveBatch \ {"paused"} =>
          \E u \in TasksOf(a) : status[u] \in ActiveTask
    BY <2>3 DEF CInv, Concluded
  <2>6. bs[b] \notin Gone => TasksOf(b) # {}
    BY <2>3 DEF CInv, Peopled
  <2>7. Concluded(status, Recomputed(b, status, bs))
    BY <2>2, <2>4, <2>5, <2>6, RecomputeConcludes
  <2> QED
    BY <1>3, <2>1, <2>7 DEF Recounts
<1>4. ASSUME NEW b \in Batches, CreateBatch(b) PROVE Concluded(status', bstatus')
  <2> SUFFICES ASSUME NEW a \in Batches, bstatus'[a] \in ActiveBatch \ {"paused"}
               PROVE  \E u \in TasksOf(a) : status'[u] \in ActiveTask
    BY DEF Concluded
  <2>1. CASE a = b
    BY <1>4, <2>1 DEF CreateBatch, TasksOf, ActiveTask
  <2>2. CASE a # b
    <3>1. PICK u \in TasksOf(a) : status[u] \in ActiveTask
      BY <1>0, <1>4, <2>2 DEF CInv, Concluded, CreateBatch, StatusTyped
    <3>2. u \in Tasks /\ status'[u] = status[u]
      BY <1>4, <2>2 DEF CreateBatch, TasksOf
    <3> QED
      BY <3>1, <3>2
  <2> QED
    BY <2>1, <2>2
<1>5. ASSUME NEW c \in Callers, PauseCommit(c) PROVE Concluded(status', bstatus')
  BY <1>0, <1>5 DEF PauseCommit, taskVars, WithBatch, CInv, Concluded, StatusTyped
<1>6. ASSUME NEW c \in Callers, CancelBatchCommit(c) PROVE Concluded(status', bstatus')
  <2> DEFINE b == target[c]
             bs == WithBatch(b, "cancelling")
  <2>1. /\ b \in Batches /\ bs \in [Batches -> BatchStatuses \cup Gone]
        /\ status' \in [Tasks -> TaskStatus \cup Gone]
        /\ bstatus' = Recomputed(b, status', bs)
        /\ \A u \in Tasks : status'[u] \in Gone <=> status[u] \in Gone
        /\ \A u \in Tasks : BatchOf[u] # b => status'[u] = status[u]
    BY <1>0, <1>6, CancelBatchWrites
  <2>2. \A a \in Batches : /\ bs[a] \in Gone <=> bstatus[a] \in Gone
                           /\ a # b => bs[a] = bstatus[a]
    BY <1>0, StatusNames, Disjoint DEF WithBatch, StatusTyped
  <2> HIDE DEF b, bs
  <2>3. \A u \in Tasks : status'[u] \in Gone <=> bs[BatchOf[u]] \in Gone
    BY <2>1, <2>2, IdAssumption DEF CInv, Consistent
  <2>4. \A a \in Batches \ {b} : bs[a] \in ActiveBatch \ {"paused"} =>
          \E u \in TasksOf(a) : status'[u] \in ActiveTask
    BY <2>1, <2>2 DEF CInv, Concluded, TasksOf
  <2>5. bs[b] \notin Gone => TasksOf(b) # {}
    BY <2>1, <2>2 DEF CInv, Peopled
  <2>6. Concluded(status', Recomputed(b, status', bs))
    BY <2>1, <2>3, <2>4, <2>5, RecomputeConcludes
  <2> QED
    BY <2>1, <2>6
<1>7. CASE ClearBatches
  <2> SUFFICES ASSUME NEW a \in Batches, bstatus'[a] \in ActiveBatch \ {"paused"}
               PROVE  \E u \in TasksOf(a) : status'[u] \in ActiveTask
    BY DEF Concluded
  <2>1. bstatus'[a] = bstatus[a] /\ bstatus[a] \notin SettledBatch
    BY <1>0, <1>7, Disjoint DEF ClearBatches, StatusTyped, ActiveBatch
  <2>2. PICK u \in TasksOf(a) : status[u] \in ActiveTask
    BY <2>1 DEF CInv, Concluded
  <2>3. u \in Tasks /\ status'[u] = status[u]
    BY <1>7, <2>1 DEF ClearBatches, TasksOf
  <2> QED
    BY <2>2, <2>3
<1> QED
  BY <1>0, <1>1, <1>2, <1>3, <1>4, <1>5, <1>6, <1>7, StatusSteps, WritesConclude

\* A batch whose tasks have all settled has settled too, or was paused, for
\* any number of batches and tasks: no sequence of cancels, retries, failures
\* and recoveries leaves it queued or running with nothing to run.
THEOREM BatchesConclude == Spec => []BatchConcluded
<1>1. Init => CInv
  BY TypedInit, IdAssumption
     DEF Init, CInv, Consistent, Peopled, Concluded, Gone, SettledBatch, ActiveBatch
<1>2. CInv /\ [Next]_vars => CInv'
  BY TypedNext, ConsistentNext, PeopledNext, ConcludedNext DEF CInv
<1>3. CInv => BatchConcluded
  BY DEF CInv, Concluded, BatchConcluded
<1> QED
  BY <1>1, <1>2, <1>3, PTL DEF Spec

-----------------------------------------------------------------------------
(* Reservations *)

\* A reservation is that of a send task of the draft.  The task is active, or
\* gone: a retry whose task is cleared before its transaction reserves the draft
\* all the same.
HeldStatus == ActiveTask \cup (IF {"retry", "clear"} \subseteq Ops THEN Gone ELSE {})
ReservedActive ==
  \A d \in Drafts : reserved[d] # None =>
    /\ DraftOf[reserved[d]] = d
    /\ status[reserved[d]] \in HeldStatus
    /\ IsSend(reserved[d])

\* Requests and workers that prepare a paste have no send task in hand, a
\* retry that waits for its transaction has lost its task only to a clearing,
\* and only requests of Ops are served.
Hands ==
  /\ \A e \in Executors : pc[e] \in {"ready", "run_task"} => ~IsSend(job[e])
  /\ \A c \in Callers : pc[c] = "retry" =>
       "retry" \in Ops /\ (status[job[c]] \in Gone => "clear" \in Ops)
  /\ \A c \in Callers : pc[c] = "cancel_task" => "cancel_task" \in Ops

\* Nobody newly comes to one of the steps Hands is about.
Kept ==
  \A f \in Executors :
    \/ pc'[f] = pc[f] /\ job'[f] = job[f]
    \/ pc'[f] \notin {"ready", "run_task", "retry", "cancel_task"}

\* No row of a task disappears.
RowsKept == \A t \in Tasks : status'[t] \in Gone => status[t] \in Gone

LEMMA HandsKept ==
  ASSUME Typed, Hands, Kept, RowsKept
  PROVE  Hands'
BY DEF Typed, InHand, HasJob, Hands, Kept, RowsKept, Executors

LEMMA KeptLocal ==
  ASSUME Typed, NEW e \in Executors
  PROVE  /\ \A step \in WorkerPc \ {"ready"} : Goto(e, step) /\ UNCHANGED job => Kept
         /\ \A step \in WorkerPc \ {"ready"} : LocalStep(e, step) => Kept
         /\ \A outcome \in Outcomes : Conclude(e, outcome) => Kept
         /\ e \in Callers /\ Answered(e) => Kept
         /\ Finish(e) => Kept
<1> USE DEF Typed, TypeOK
<1>1. \A step \in WorkerPc \ {"ready"} : Goto(e, step) /\ UNCHANGED job => Kept
  BY DEF Goto, Kept, WorkerPc
<1>2. \A step \in WorkerPc \ {"ready"} : LocalStep(e, step) => Kept
  BY <1>1 DEF LocalStep
<1>3. \A outcome \in Outcomes : Conclude(e, outcome) => Kept
  BY <1>1 DEF Conclude, WorkerPc
<1>4. e \in Callers /\ Answered(e) => Kept
  BY DEF Answered, Kept
<1>5. Finish(e) => Kept
  BY <1>2, <1>4 DEF Finish, Executors, WorkerPc
<1> QED
  BY <1>1, <1>2, <1>3, <1>4, <1>5

LEMMA RowsWritten ==
  ASSUME Typed, NEW t, NEW s \in TaskStatus, status' = WithStatus(t, s)
  PROVE  RowsKept
BY Disjoint DEF Typed, TypeOK, RowsKept, WithStatus

\* A task that ends releases its draft; one that goes on keeps it.
LEMMA ReleasedActive ==
  ASSUME Typed, ReservedActive, NEW t \in Tasks, NEW s \in TaskStatus,
         status' = WithStatus(t, s),
         reserved' = IF IsSend(t) THEN Released(t) ELSE reserved
  PROVE  ReservedActive'
BY NoneAssumption
DEF Typed, TypeOK, ReservedActive, HeldStatus, WithStatus, Released, IsSend, ActiveTask, Gone

LEMMA RunningActive ==
  ASSUME Typed, ReservedActive, NEW t \in Tasks, NEW s \in ActiveTask,
         status' = WithStatus(t, s), reserved' = reserved
  PROVE  ReservedActive'
BY NoneAssumption
DEF Typed, TypeOK, ReservedActive, HeldStatus, WithStatus, IsSend, ActiveTask, Gone

LEMMA PasteActive ==
  ASSUME Typed, ReservedActive, NEW t \in Tasks, ~IsSend(t), NEW s \in TaskStatus,
         status' = WithStatus(t, s), reserved' = reserved
  PROVE  ReservedActive'
BY DEF Typed, TypeOK, ReservedActive, WithStatus, IsSend

LEMMA SameActive ==
  ASSUME ReservedActive, status' = status, reserved' = reserved
  PROVE  ReservedActive' /\ RowsKept
BY DEF ReservedActive, IsSend, RowsKept

RInv == Typed /\ Consistent(status, bstatus) /\ ReservedActive /\ Hands

LEMMA ReservedRequest ==
  ASSUME RInv, NEW c \in Callers,
         \/ \E b \in Batches : StartCheck(c, b) \/ PauseCheck(c, b) \/ CancelBatchCheck(c, b)
         \/ \E t \in Tasks : CancelTaskCheck(c, t) \/ RetryCheck(c, t) \/ RunTaskCheck(c, t)
  PROVE  ReservedActive' /\ Hands'
<1> USE DEF RInv
<1>1. /\ pc \in [Executors -> WorkerPc \cup CallerPc] /\ job \in [Executors -> Tasks \cup {None}]
      /\ c \in Executors
  BY DEF Typed, TypeOK, Executors
<1>2. PICK op \in CallerPc, t \in Tasks \cup {None}, b \in Batches \cup {None} :
        /\ Accept(c, op, t, b)
        /\ op = "run_task" => ~IsSend(t)
        /\ op = "retry" => "retry" \in Ops /\ status[t] \notin Gone
        /\ op = "cancel_task" => "cancel_task" \in Ops
        /\ op # "ready"
  BY DEF StartCheck, PauseCheck, CancelBatchCheck, CancelTaskCheck, RetryCheck, RunTaskCheck,
         CallerPc, Gone
<1>3. status' = status /\ reserved' = reserved
  BY <1>2 DEF Accept, taskVars, draftVars
<1>4. Hands'
  BY <1>1, <1>2, <1>3 DEF Accept, Hands, IsSend, Executors
<1> QED
  BY <1>3, <1>4, SameActive

LEMMA ReservedCommit ==
  ASSUME RInv, NEW c \in Callers,
         \/ StartCommit(c) \/ PauseCommit(c) \/ CancelBatchCommit(c)
         \/ CancelTaskCommit(c) \/ RetryCommit(c) \/ RunTaskCommit(c)
  PROVE  ReservedActive' /\ Hands'
<1> USE DEF RInv
<1>1. c \in Executors
  BY DEF Executors
<1>2. CASE StartCommit(c) \/ PauseCommit(c)
  <2>1. status' = status /\ reserved' = reserved /\ Answered(c)
    BY <1>2 DEF StartCommit, PauseCommit, taskVars, draftVars
  <2> QED
    BY <1>1, <2>1, SameActive, KeptLocal, HandsKept
<1>3. CASE CancelBatchCommit(c)
  <2> DEFINE b == target[c]
             dropped == {t \in TasksOf(b) : status[t] = "pending"}
  <2>1. /\ status' = [t \in Tasks |->
                        CASE t \in dropped -> "cancelled"
                          [] t \in TasksOf(b) \ dropped /\ status[t] = "running" -> "cancelling"
                          [] OTHER -> status[t]]
        /\ reserved' = [d \in Drafts |->
                          IF b \in SendBatches /\ reserved[d] \in dropped /\ DraftOf[reserved[d]] = d
                          THEN None ELSE reserved[d]]
        /\ Answered(c)
    BY <1>3 DEF CancelBatchCommit, CancelTasks
  <2>2. \A t \in dropped : t \in Tasks /\ BatchOf[t] = b
    BY DEF TasksOf
  <2> HIDE DEF b, dropped
  <2>3. ASSUME NEW d \in Drafts, reserved'[d] # None
        PROVE  reserved'[d] = reserved[d] /\ reserved[d] \in Tasks /\ reserved[d] \notin dropped
    BY <2>1, <2>2, <2>3 DEF ReservedActive, Typed, TypeOK, IsSend
  <2>4. ReservedActive'
    BY <2>1, <2>3 DEF ReservedActive, HeldStatus, ActiveTask, IsSend, Gone
  <2>5. RowsKept
    BY <2>1 DEF RowsKept, Gone
  <2> QED
    BY <1>1, <2>1, <2>4, <2>5, KeptLocal, HandsKept
<1>4. CASE CancelTaskCommit(c)
  <2>1. job[c] \in Tasks
    BY <1>1, <1>4 DEF CancelTaskCommit, Typed, InHand, HasJob
  <2> QED
    BY <1>1, <1>4, <2>1, StatusNames, ReleasedActive, RowsWritten, KeptLocal, HandsKept
       DEF CancelTaskCommit
<1>5. CASE RetryCommit(c)
  <2> DEFINE t == job[c]
  <2>1. /\ t \in Tasks /\ Answered(c)
        /\ status[t] \in Gone => {"retry", "clear"} \subseteq Ops
    BY <1>1, <1>5 DEF RetryCommit, Typed, InHand, HasJob, Hands
  <2>2. CASE UNCHANGED <<status, reserved>>
    BY <1>1, <2>1, <2>2, SameActive, KeptLocal, HandsKept
  <2>3. CASE /\ status' = WithStatus(t, "pending")
             /\ reserved' = IF IsSend(t) THEN [reserved EXCEPT ![DraftOf[t]] = t] ELSE reserved
    <3>1. ReservedActive'
      BY <2>1, <2>3, IdAssumption
         DEF ReservedActive, HeldStatus, WithStatus, IsSend, ActiveTask, Typed, TypeOK, Gone
    <3> QED
      BY <1>1, <2>1, <2>3, <3>1, StatusNames, RowsWritten, KeptLocal, HandsKept
  <2> QED
    BY <1>5, <2>2, <2>3 DEF RetryCommit
<1>6. CASE RunTaskCommit(c)
  <2>1. /\ job[c] \in Tasks /\ ~IsSend(job[c])
        /\ status' = WithStatus(job[c], "running") /\ reserved' = reserved
    BY <1>1, <1>6 DEF RunTaskCommit, Typed, InHand, HasJob, Hands, draftVars
  <2>2. ReservedActive' /\ RowsKept
    BY <2>1, StatusNames, PasteActive, RowsWritten
  <2>3. CASE Answered(c)
    BY <1>1, <2>2, <2>3, KeptLocal, HandsKept
  <2>4. CASE pc' = [pc EXCEPT ![c] = "ready"] /\ job' = job
    <3>1. pc \in [Executors -> WorkerPc \cup CallerPc]
      BY DEF Typed, TypeOK
    <3>2. \A f \in Callers : pc'[f] = "retry" => pc[f] = "retry" /\ job[f] \in Tasks
      BY <2>4, <3>1 DEF Typed, InHand, HasJob, Executors
    <3>3. \A e \in Executors : pc'[e] \in {"ready", "run_task"} => ~IsSend(job[e])
      BY <2>1, <2>4, <3>1 DEF Hands
    <3>4. \A f \in Callers : pc'[f] = "cancel_task" => "cancel_task" \in Ops
      BY <2>4, <3>1 DEF Hands, Executors
    <3> QED
      BY <2>2, <2>4, <3>2, <3>3, <3>4 DEF Hands, RowsKept, IsSend
  <2> QED
    BY <1>6, <2>3, <2>4 DEF RunTaskCommit
<1> QED
  BY <1>2, <1>3, <1>4, <1>5, <1>6

\* An action that is no request's: nobody comes to a step of Hands' requests.
LEMMA ReservedTables ==
  ASSUME RInv,
         \/ \E b \in Batches : CreateBatch(b)
         \/ \E d \in Drafts : MarkDraft(d, "sent") \/ MarkDraft(d, "pending")
         \/ ClearBatches
  PROVE  ReservedActive' /\ Hands'
<1> USE DEF RInv
<1>1. pc' = pc /\ job' = job
  BY DEF CreateBatch, MarkDraft, ClearBatches, localVars
<1>2. ASSUME NEW b \in Batches, CreateBatch(b) PROVE ReservedActive' /\ Hands'
  <2>1. /\ status' = [t \in Tasks |-> IF BatchOf[t] = b THEN "pending" ELSE status[t]]
        /\ reserved' = IF b \in SendBatches
                       THEN [d \in Drafts |-> IF d \in {DraftOf[t] : t \in TasksOf(b)}
                                              THEN CHOOSE t \in TasksOf(b) : DraftOf[t] = d
                                              ELSE reserved[d]]
                       ELSE reserved
    BY <1>2 DEF CreateBatch
  <2>2. ASSUME NEW d \in Drafts, reserved'[d] # None
        PROVE  \/ reserved'[d] = reserved[d]
               \/ reserved'[d] \in Tasks /\ BatchOf[reserved'[d]] = b /\ DraftOf[reserved'[d]] = d
                  /\ b \in SendBatches
    BY <2>1 DEF TasksOf
  <2>3. ASSUME NEW d \in Drafts, reserved'[d] # None
        PROVE  /\ DraftOf[reserved'[d]] = d /\ IsSend(reserved'[d])
               /\ status'[reserved'[d]] \in HeldStatus
    <3>1. CASE reserved'[d] = reserved[d]
      <4>1. reserved[d] \in Tasks /\ status[reserved[d]] \in HeldStatus
        BY <2>3, <3>1 DEF ReservedActive, Typed, TypeOK
      <4> QED
        BY <2>1, <2>3, <3>1, <4>1 DEF ReservedActive, HeldStatus, ActiveTask
    <3>2. CASE /\ reserved'[d] \in Tasks /\ BatchOf[reserved'[d]] = b /\ DraftOf[reserved'[d]] = d
               /\ b \in SendBatches
      BY <2>1, <3>2 DEF IsSend, HeldStatus, ActiveTask
    <3> QED
      BY <2>2, <2>3, <3>1, <3>2
  <2>4. ReservedActive' /\ RowsKept
    BY <2>1, <2>3 DEF ReservedActive, RowsKept, IsSend, Gone
  <2> QED
    BY <1>1, <2>4, HandsKept DEF Kept
<1>3. ASSUME NEW d \in Drafts, MarkDraft(d, "sent") \/ MarkDraft(d, "pending")
      PROVE  ReservedActive' /\ Hands'
  <2>1. status' = status /\ reserved' = reserved
    BY <1>3 DEF MarkDraft, taskVars
  <2> QED
    BY <1>1, <2>1, SameActive, HandsKept DEF Kept
<1>4. CASE ClearBatches
  <2> DEFINE done == {b \in Batches : bstatus[b] \in SettledBatch}
             gone == {t \in Tasks : BatchOf[t] \in done}
  <2>1. /\ \A t \in Tasks \ gone : status'[t] = status[t]
        /\ \A t \in gone : status'[t] \in Gone
        /\ reserved' = reserved /\ "clear" \in Ops
    BY <1>4 DEF ClearBatches, draftVars, Gone
  <2>2. \A t \in gone : status[t] \notin ActiveTask
    BY Disjoint DEF Consistent
  <2> HIDE DEF gone
  <2>3. ReservedActive'
    BY <2>1, <2>2 DEF ReservedActive, HeldStatus, Typed, TypeOK, IsSend
  <2>4. Hands'
    BY <1>1, <2>1 DEF Hands, IsSend
  <2> QED
    BY <2>3, <2>4
<1> QED
  BY <1>2, <1>3, <1>4

LEMMA ReservedRun ==
  ASSUME RInv, NEW e \in Executors, RunStep(e)
  PROVE  ReservedActive' /\ Hands'
<1> USE DEF RInv
<1>1. CASE PasteAttempt(e) \/ CallPaste(e) \/ PersistLost(e)
  <2>1. status' = status /\ reserved' = reserved
    BY <1>1
       DEF PasteAttempt, InsertAttempt, WriteAttempt, CallPaste, PersistLost, taskVars, draftVars
  <2>2. Kept
    BY <1>1, KeptLocal
       DEF PasteAttempt, InsertAttempt, WriteAttempt, CallPaste, PersistLost, WorkerPc, Outcomes
  <2> QED
    BY <2>1, <2>2, SameActive, HandsKept
<1>2. CASE AttemptFailed(e)
  <2>1. job[e] \in Tasks /\ Kept /\ reserved' = reserved
    BY <1>2, KeptLocal DEF AttemptFailed, Typed, InHand, HasJob, draftVars
  <2>2. CASE status' = status
    BY <2>1, <2>2, SameActive, HandsKept
  <2>3. CASE pc[e] = "ready" /\ status' = WithStatus(job[e], "interrupted")
    BY <2>1, <2>3, StatusNames, PasteActive, RowsWritten, HandsKept DEF Hands
  <2> QED
    BY <1>2, <2>2, <2>3 DEF AttemptFailed
<1>3. CASE Persist(e) \/ PersistFallback(e)
  <2>1. job[e] \in Tasks /\ res[e] \in Outcomes /\ Kept
    BY <1>3, KeptLocal DEF Persist, PersistFallback, Typed, InHand, HasJob
  <2>2. \/ status' = status /\ reserved' = reserved
        \/ \E s \in TaskStatus :
             /\ status' = WithStatus(job[e], s)
             /\ reserved' = IF IsSend(job[e]) THEN Released(job[e]) ELSE reserved
    BY <1>3, <2>1, TaskStatusForType, StatusNames
       DEF Persist, PersistFallback, Record, draftVars
  <2> QED
    BY <2>1, <2>2, SameActive, ReleasedActive, RowsWritten, HandsKept
<1> QED
  BY <1>1, <1>2, <1>3 DEF RunStep

LEMMA ReservedWorker ==
  ASSUME RInv, NEW w \in Workers, WorkerStep(w)
  PROVE  ReservedActive' /\ Hands'
<1> USE DEF RInv
<1>1. /\ w \in Executors /\ w \notin Callers
      /\ pc \in [Executors -> WorkerPc \cup CallerPc] /\ job \in [Executors -> Tasks \cup {None}]
  BY NoneAssumption DEF Executors, Typed, TypeOK
<1>2. ASSUME NEW t \in Tasks, Reconcile(w, t) \/ ReconcileFallback(w, t)
      PROVE  ReservedActive' /\ Hands'
  <2>1. \E s \in TaskStatus :
          /\ status' = WithStatus(t, s)
          /\ reserved' = IF IsSend(t) THEN Released(t) ELSE reserved
    BY <1>2, StatusNames, RecoveredAsType DEF Reconcile, ReconcileFallback, RecoverTask
  <2>2. Kept
    BY <1>2 DEF Reconcile, ReconcileFallback, RecoverTask, Kept
  <2> QED
    BY <2>1, <2>2, ReleasedActive, RowsWritten, HandsKept
<1>3. CASE Claim(w)
  <2>1. PICK t \in Claimable : /\ status' = [status EXCEPT ![t] = "running"]
                               /\ job' = [job EXCEPT ![w] = t]
    BY <1>3 DEF Claim
  <2>2. t \in Tasks /\ status' = WithStatus(t, "running") /\ reserved' = reserved
    BY <1>3, <2>1 DEF Claim, Claimable, WithStatus, Gone, draftVars, Typed, TypeOK
  <2>3. Kept
    BY <1>1, <1>3, <2>1 DEF Claim, Goto, Kept
  <2> QED
    BY <2>2, <2>3, StatusNames, RunningActive, RowsWritten, HandsKept DEF ActiveTask
<1>4. CASE CancelClaimed(w)
  <2>1. job[w] \in Tasks
    BY <1>1, <1>4 DEF CancelClaimed, Typed, InHand, HasJob
  <2>2. Kept
    BY <1>1, <1>4, KeptLocal DEF CancelClaimed, WorkerPc
  <2>3. reserved' = IF IsSend(job[w]) THEN Released(job[w]) ELSE reserved
    <3>1. CASE IsSend(job[w])
      BY <3>1, <1>4 DEF CancelClaimed
    <3>2. CASE ~IsSend(job[w])
      <4>1. DraftOf[job[w]] \in Drafts /\ job[w] # None
        BY <2>1, IdAssumption, NoneAssumption
      <4>2. reserved[DraftOf[job[w]]] # job[w]
        BY <3>2, <4>1 DEF ReservedActive
      <4>3. Released(job[w]) = reserved
        BY <4>1, <4>2 DEF Released, Typed, TypeOK
      <4> QED
        BY <3>2, <4>3, <1>4 DEF CancelClaimed
    <3> QED
      BY <3>1, <3>2
  <2> QED
    BY <1>4, <2>1, <2>2, <2>3, StatusNames, ReleasedActive, RowsWritten, HandsKept
       DEF CancelClaimed
<1>5. CASE SendStarted(w)
  <2>1. job[w] \in Tasks
    BY <1>1, <1>5 DEF SendStarted, Typed, InHand, HasJob
  <2>2. Kept
    BY <1>1, <1>5, KeptLocal DEF SendStarted, WorkerPc
  <2> QED
    BY <1>5, <2>1, <2>2, StatusNames, RunningActive, RowsWritten, HandsKept
       DEF SendStarted, draftVars, ActiveTask
<1>6. CASE ReadTask(w)
  <2>1. status' = status /\ reserved' = reserved /\ job' = job
    BY <1>6 DEF ReadTask, taskVars, draftVars
  <2>2. \/ pc' = [pc EXCEPT ![w] = "ready"] /\ ~IsSend(job[w])
        \/ \E step \in {"send_ready", "cancel_found", "release"} : pc' = [pc EXCEPT ![w] = step]
    BY <1>6 DEF ReadTask, Goto
  <2>3. Hands'
    BY <1>1, <2>1, <2>2 DEF Hands, IsSend, Executors
  <2> QED
    BY <2>1, <2>3, SameActive
<1>7. CASE \/ Start(w) \/ Recovered(w) \/ ReconcileAbort(w) \/ ClaimNothing(w) \/ Release(w)
           \/ SendAttempt(w) \/ CallSend(w) \/ PollTerminal(w) \/ PollTimeout(w)
           \/ CancelPollGiveUp(w)
  <2>1. status' = status /\ reserved' = reserved
    BY <1>7
       DEF Start, Recovered, ReconcileAbort, ClaimNothing, Release, SendAttempt, InsertAttempt,
           WriteAttempt, CallSend, PollTerminal, PollTimeout, CancelPollGiveUp, taskVars,
           draftVars
  <2>2. CASE Start(w) \/ Recovered(w) \/ ReconcileAbort(w) \/ SendAttempt(w)
    <3>1. (\E step \in WorkerPc \ {"ready"} : Goto(w, step)) /\ UNCHANGED job
      BY <2>2 DEF Start, Recovered, ReconcileAbort, SendAttempt, InsertAttempt, WriteAttempt, WorkerPc
    <3> QED
      BY <1>1, <2>1, <3>1, KeptLocal, SameActive, HandsKept
  <2>3. CASE ClaimNothing(w)
    BY <2>1, <2>3, SameActive, HandsKept DEF ClaimNothing, localVars, Kept
  <2>4. CASE Release(w)
    <3>1. Kept
      BY <1>1, <2>4 DEF Release, Forget, Kept
    <3> QED
      BY <2>1, <3>1, SameActive, HandsKept
  <2>5. CASE CallSend(w) \/ PollTerminal(w) \/ PollTimeout(w) \/ CancelPollGiveUp(w)
    <3>1. \/ \E step \in WorkerPc \ {"ready"} : LocalStep(w, step)
          \/ \E outcome \in Outcomes : Conclude(w, outcome)
      BY <2>5, OutcomeType
         DEF CallSend, PollTerminal, PollTimeout, CancelPollGiveUp, WorkerPc, Outcomes
    <3>2. Kept
      BY <1>1, <3>1, KeptLocal
    <3> QED
      BY <2>1, <3>2, SameActive, HandsKept
  <2> QED
    BY <1>7, <2>2, <2>3, <2>4, <2>5
<1> QED
  BY <1>2, <1>3, <1>4, <1>5, <1>6, <1>7 DEF WorkerStep

LEMMA ReservedRest ==
  ASSUME RInv, Environment \/ (\E k \in Keys : RuntimeStep(k)) \/ UNCHANGED vars
  PROVE  ReservedActive' /\ Hands'
<1> USE DEF RInv
<1>1. status' = status /\ reserved' = reserved
  BY DEF Environment, RuntimeRestart, RtStep, LeaseExpire, RenewStop, Stop, Crash,
         TransactionFailed, RuntimeStep, PressEnter, EndRuntimeTask,
         vars, taskVars, draftVars
<1>2. Kept
  <2>1. ASSUME NEW e \in Executors, TransactionFailed(e) PROVE Kept
    BY <2>1, KeptLocal DEF TransactionFailed
  <2>2. ASSUME NEW w \in Workers, Stop(w) \/ Crash(w) PROVE Kept
    BY <2>2 DEF Stop, Crash, Forget, Kept
  <2>3. ASSUME pc' = pc, job' = job PROVE Kept
    BY <2>3 DEF Kept
  <2> QED
    BY <2>1, <2>2, <2>3
       DEF Environment, RuntimeRestart, RtStep, LeaseExpire, RenewStop, RuntimeStep, PressEnter, EndRuntimeTask, vars, localVars
<1> QED
  BY <1>1, <1>2, SameActive, HandsKept

LEMMA ReservationInvariant == Spec => []RInv
<1>1. Init => ReservedActive /\ Hands /\ Consistent(status, bstatus)
  BY IdAssumption DEF Init, ReservedActive, Hands, Consistent, Executors, Gone, SettledBatch
<1>2. RInv /\ [Next]_vars => ReservedActive' /\ Hands'
  BY ReservedRequest, ReservedCommit, ReservedTables, ReservedRun, ReservedWorker, ReservedRest
     DEF Next, ApiStep
<1> QED
  BY <1>1, <1>2, ConsistentNext, Typing, PTL DEF Spec, RInv

\* Whatever is created, cancelled, retried, lost or restarted, a draft is
\* reserved only by a send task of its own that is still active, so that the
\* draft can always be sent again once its task has ended
\* (_reserve_draft_send_task, release_draft_send_reservation) -- unless both
\* retries and the clearing of batches are allowed.
THEOREM ReservationsHeld ==
  ASSUME ~({"retry", "clear"} \subseteq Ops)
  PROVE  Spec => []ReservationHeld
<1>1. RInv => ReservationHeld
  BY DEF RInv, ReservedActive, HeldStatus, ReservationHeld
<1> QED
  BY <1>1, ReservationInvariant, PTL

-----------------------------------------------------------------------------
(* Attempts and idempotency keys *)

\* What the theorems on keys assume: the ids of cleared batches, and so the keys
\* of their tasks, are not given again (PostgreSQL), or no batch is cleared.
Lasting == "clear" \in Ops => ~ReuseIds

Alive(t) == status[t] # "deleted"

\* A deleted task belongs to a deleted batch, so that no new batch has it.
DeletedPaired == \A t \in Tasks : ~Alive(t) => bstatus[BatchOf[t]] = "deleted"

\* Rows that are gone stay so, and none is deleted.
GoneStay ==
  /\ \A t \in Tasks : status[t] \in Gone \/ status'[t] \in Gone => status'[t] = status[t]
  /\ \A b \in Batches : bstatus[b] \in Gone => bstatus'[b] = bstatus[b]

\* Deleted tasks stay so, and only clear_terminal_execution_batches makes them.
Lasts ==
  \A t \in Tasks :
    /\ Alive(t)' => Alive(t)
    /\ "clear" \notin Ops /\ Alive(t) => Alive(t)'
    /\ status'[t] = "absent" => status[t] = "absent"

LEMMA StatusGone ==
  ASSUME StatusTyped, NEW t, NEW s \in TaskStatus, status' = WithStatus(t, s)
  PROVE  \A u \in Tasks : status[u] \in Gone \/ status'[u] \in Gone => status'[u] = status[u]
BY Disjoint DEF WithStatus, StatusTyped

LEMMA BatchGone ==
  ASSUME StatusTyped, NEW a, NEW s \in BatchStatuses
  PROVE  \A b \in Batches : bstatus[b] \in Gone => WithBatch(a, s)[b] = bstatus[b]
BY DEF WithBatch, StatusTyped

LEMMA RecomputedGone ==
  ASSUME NEW bs \in [Batches -> BatchStatuses \cup Gone], NEW a, NEW st
  PROVE  \A b \in Batches : bs[b] \in Gone => Recomputed(a, st, bs)[b] = bs[b]
BY DEF Recomputed

\* The batch statuses of Writes, Recounts and cancel_execution_batch.
LEMMA QueuedGone ==
  ASSUME StatusTyped, NEW a, NEW c, NEW st, NEW s \in BatchStatuses,
         NEW bs \in {bstatus, WithBatch(a, s)}, bstatus' = Recomputed(c, st, bs)
  PROVE  \A b \in Batches : bstatus[b] \in Gone => bstatus'[b] = bstatus[b]
<1>1. bs \in [Batches -> BatchStatuses \cup Gone]
  BY WithBatchType DEF StatusTyped
<1>2. \A b \in Batches : bstatus[b] \in Gone => bs[b] = bstatus[b]
  BY BatchGone
<1> QED
  BY <1>1, <1>2, RecomputedGone

LEMMA GoneLasts ==
  ASSUME Lasting, Typed, DeletedPaired, [Next]_vars
  PROVE  Lasts /\ DeletedPaired'
<1>0. StatusTyped /\ \A t \in Tasks : BatchOf[t] \in Batches
  BY IdAssumption DEF Typed, TypeOK, StatusTyped
<1>1. ASSUME NEW b \in Batches, CreateBatch(b) PROVE Lasts /\ DeletedPaired'
  <2>1. /\ bstatus[b] = "absent"
        /\ status' = [t \in Tasks |-> IF BatchOf[t] = b THEN "pending" ELSE status[t]]
        /\ \A a \in Batches \ {b} : bstatus'[a] = bstatus[a]
    BY <1>0, <1>1 DEF CreateBatch, NextId, StatusTyped
  <2> QED
    BY <1>0, <2>1 DEF Lasts, DeletedPaired, Alive
<1>2. CASE ClearBatches
  <2> DEFINE done == {b \in Batches : bstatus[b] \in SettledBatch}
  <2>1. /\ "clear" \in Ops
        /\ status' = [t \in Tasks |-> IF BatchOf[t] \in done THEN "deleted" ELSE status[t]]
        /\ bstatus' = [b \in Batches |-> IF b \in done THEN "deleted" ELSE bstatus[b]]
    BY <1>0, <1>2 DEF ClearBatches, Lasting
  <2>2. \A t \in Tasks : ~Alive(t) => BatchOf[t] \notin done
    BY <1>0 DEF DeletedPaired, SettledBatch
  <2> HIDE DEF done
  <2> QED
    BY <1>0, <2>1, <2>2 DEF Lasts, DeletedPaired, Alive
<1>3. ASSUME GoneStay PROVE Lasts /\ DeletedPaired'
  BY <1>0, <1>3 DEF GoneStay, Lasts, DeletedPaired, Alive, Gone
<1>4. ASSUME NEW t \in Tasks, Runs(t) PROVE GoneStay
  BY <1>0, <1>4, StatusGone, BatchGone, StatusNames DEF Runs, GoneStay
<1>5. ASSUME NEW t \in Tasks, NEW s \in TaskStatus, Writes(t, s) PROVE GoneStay
  BY <1>0, <1>5, StatusGone, QueuedGone, StatusNames DEF Writes, GoneStay
<1>6. ASSUME NEW b \in Batches, Recounts(b) PROVE GoneStay
  BY <1>0, <1>6, QueuedGone, StatusNames DEF Recounts, GoneStay
<1>7. ASSUME NEW c \in Callers, PauseCommit(c) PROVE GoneStay
  BY <1>0, <1>7, BatchGone, StatusNames DEF PauseCommit, GoneStay, taskVars
<1>8. ASSUME NEW c \in Callers, CancelBatchCommit(c) PROVE GoneStay
  <2>1. \A t \in Tasks : status[t] \in Gone \/ status'[t] \in Gone => status'[t] = status[t]
    BY <1>0, <1>8 DEF CancelBatchCommit, CancelTasks, StatusTyped, Gone
  <2>2. \A b \in Batches : bstatus[b] \in Gone => bstatus'[b] = bstatus[b]
    BY <1>0, <1>8, CancelBatchWrites, QueuedGone, StatusNames
  <2> QED
    BY <2>1, <2>2 DEF GoneStay
<1>9. CASE UNCHANGED <<status, bstatus>>
  BY <1>3, <1>9 DEF GoneStay
<1> QED
  BY <1>1, <1>2, <1>3, <1>4, <1>5, <1>6, <1>7, <1>8, <1>9, StatusSteps

\* An executor has an attempt in hand from the insert of its row until the
\* result is recorded.
Holding  == {"attempted", "polling", "cancel_polling", "result"}
Holds(e) == pc[e] \in Holding /\ Alive(job[e])

\* The attempt in hand has its row, the runtime knows only keys of attempts that
\* have one, and no two executors have the same attempt in hand.
Tried    == \A e \in Executors : Holds(e) => no[e] \in rows[job[e]]
Known    == \A k \in Keys : rt[k] # "none" /\ Alive(k[1]) => k[2] \in rows[k[1]]
Distinct == \A e, f \in Executors : e # f /\ Holds(e) /\ Holds(f) => Key(e) # Key(f)
Unseen   == \A e \in Executors : pc[e] = "attempted" /\ Alive(job[e]) => rt[Key(e)] = "none"

\* Nobody works on a task before its batch is created, and it has no attempts.
Started ==
  /\ \A e \in Executors : job[e] \in Tasks => status[job[e]] # "absent"
  /\ \A t \in Tasks : rows[t] # {} => status[t] # "absent"

Keyed == Tried /\ Known /\ Distinct /\ Unseen /\ Started

AInv ==
  /\ Typed /\ DeletedPaired /\ Keyed
  /\ "clear" \notin Ops => \A t \in Tasks : Alive(t)

\* A step in which nobody begins an attempt and the runtime learns no key.
Quiet ==
  /\ \A t \in Tasks : rows'[t] \subseteq rows[t] /\ (Alive(t)' => rows'[t] = rows[t])
  /\ \A k \in Keys : rt'[k] # "none" => rt[k] # "none"
  /\ \A f \in Executors :
       /\ \/ pc'[f] \notin Holding
          \/ /\ job'[f] = job[f] /\ no'[f] = no[f]
             /\ pc[f] \in Holding /\ pc'[f] \in {pc[f]} \cup (Holding \ {"attempted"})
       /\ job'[f] \in {job[f], None} \/ status[job'[f]] \notin Gone

LEMMA AttemptInHand ==
  ASSUME Typed, NEW e \in Executors, pc[e] = "attempted"
  PROVE  Key(e) \in Keys /\ job[e] \in Tasks /\ no[e] \in 1 .. MaxAttempts
BY DEF Typed, InHand, HasJob, HasAttempt, Key, Keys

LEMMA HeldInHand ==
  ASSUME Typed, Tried, NEW e \in Executors, pc[e] \in Holding
  PROVE  job[e] \in Tasks /\ (Alive(job[e]) => Key(e) \in Keys)
BY DEF Typed, TypeOK, InHand, HasJob, Holding, Tried, Holds, Key, Keys

LEMMA QuietKeeps ==
  ASSUME AInv, Lasts, Quiet
  PROVE  Keyed'
<1>1. \A f \in Executors : Holds(f)' =>
        /\ Holds(f) /\ job'[f] = job[f] /\ no'[f] = no[f] /\ job[f] \in Tasks
        /\ Key(f)' = Key(f) /\ Key(f) \in Keys
        /\ pc'[f] = "attempted" => pc[f] = "attempted"
  BY HeldInHand DEF Quiet, AInv, Keyed, Key, Holds, Lasts, Alive
<1>2. Tried'
  BY <1>1 DEF AInv, Keyed, Tried, Quiet, Holds, Alive
<1>3. Known'
  <2>1. \A k \in Keys : k[1] \in Tasks
    BY DEF Keys
  <2> QED
    BY <2>1 DEF AInv, Keyed, Known, Quiet, Lasts, Alive
<1>4. Distinct'
  BY <1>1 DEF AInv, Keyed, Distinct
<1>5. Unseen'
  <2>1. \A f \in Executors : pc'[f] = "attempted" /\ Alive(job[f])' => Holds(f)'
    BY DEF Holds, Holding
  <2> QED
    BY <1>1, <2>1 DEF AInv, Keyed, Unseen, Quiet, Holds
<1>6. Started'
  <2>1. \A f \in Executors : job[f] \in Tasks \cup {None}
    BY DEF AInv, Typed, TypeOK
  <2> QED
    BY <2>1, NoneAssumption DEF AInv, Keyed, Started, Quiet, Lasts, Gone
<1> QED
  BY <1>2, <1>3, <1>4, <1>5, <1>6 DEF Keyed

\* The unique index on (execution_task_id, attempt_no).
LEMMA InsertKeeps ==
  ASSUME AInv, Lasts, NEW e \in Executors, InsertAttempt(e), pc[e] \in HasJob, rt' = rt
  PROVE  Keyed'
<1> DEFINE n == no[e] + 1
<1>1. /\ n \in 1 .. MaxAttempts /\ n \notin rows[job[e]]
      /\ rows' = [rows EXCEPT ![job[e]] = @ \cup {n}]
      /\ no' = [no EXCEPT ![e] = n] /\ pc' = [pc EXCEPT ![e] = "attempted"] /\ job' = job
      /\ status' = status
  BY DEF InsertAttempt, WriteAttempt, Goto
<1>2. /\ job[e] \in Tasks /\ rows \in [Tasks -> SUBSET (1 .. MaxAttempts)]
      /\ no \in [Executors -> 0 .. MaxAttempts] /\ pc \in [Executors -> WorkerPc \cup CallerPc]
  BY DEF AInv, Typed, TypeOK, InHand
<1> HIDE DEF n
<1>3. /\ Key(e)' = <<job[e], n>>
      /\ \A f \in Executors \ {e} :
           pc'[f] = pc[f] /\ no'[f] = no[f] /\ Key(f)' = Key(f) /\ (Holds(f)' <=> Holds(f))
  BY <1>1, <1>2 DEF Key, Holds, Alive
<1>4. \A f \in Executors : Holds(f) => job[f] \in Tasks /\ no[f] \in rows[job[f]]
  BY HeldInHand DEF AInv, Keyed, Tried, Holds
<1>5. Tried'
  BY <1>1, <1>2, <1>3, <1>4 DEF Tried
<1>6. Known'
  <2>1. \A k \in Keys : k[1] \in Tasks
    BY DEF Keys
  <2> QED
    BY <1>1, <1>2, <2>1 DEF AInv, Keyed, Known, Alive
<1>7. ASSUME NEW f \in Executors \ {e}, Holds(f)' PROVE Key(f)' # Key(e)'
  BY <1>1, <1>3, <1>4, <1>7 DEF Key
<1>8. Distinct'
  <2> SUFFICES ASSUME NEW f \in Executors, NEW g \in Executors, f # g, Holds(f)', Holds(g)'
               PROVE  Key(f)' # Key(g)'
    BY DEF Distinct
  <2>1. CASE f = e \/ g = e
    BY <2>1, <1>7
  <2>2. CASE f # e /\ g # e
    BY <2>2, <1>3 DEF AInv, Keyed, Distinct
  <2> QED
    BY <2>1, <2>2
<1>9. Unseen'
  <2>1. <<job[e], n>> \in Keys
    BY <1>1, <1>2 DEF Keys
  <2>2. Alive(job[e]) => rt[<<job[e], n>>] = "none"
    BY <1>1, <2>1 DEF AInv, Keyed, Known
  <2> QED
    BY <1>1, <1>3, <2>2 DEF AInv, Keyed, Unseen, Alive
<1>10. Started'
  BY <1>1, <1>2 DEF AInv, Keyed, Started
<1> QED
  BY <1>5, <1>6, <1>8, <1>9, <1>10 DEF Keyed

\* The call that gives the runtime a key ends the step that had it in hand.
LEMMA AcceptKeeps ==
  ASSUME AInv, NEW e \in Executors, pc[e] = "attempted", Accepted(Key(e)),
         NEW step \in {"polling", "result"}, Goto(e, step), UNCHANGED <<job, no, rows, status>>
  PROVE  Keyed'
<1>1. /\ job[e] \in Tasks /\ pc \in [Executors -> WorkerPc \cup CallerPc]
      /\ rt \in [Keys -> Runtime!States] /\ (Alive(job[e]) => Key(e) \in Keys)
  BY HeldInHand DEF AInv, Keyed, Typed, TypeOK, Holding
<1>2. \A f \in Executors :
        /\ Key(f)' = Key(f) /\ (Holds(f)' <=> Holds(f))
        /\ pc'[f] = "attempted" => f # e /\ pc[f] = "attempted"
  BY <1>1 DEF Goto, Key, Holds, Holding, Alive
<1>3. Tried' /\ Distinct' /\ Started'
  BY <1>2 DEF AInv, Keyed, Tried, Distinct, Started
<1>4. \A k \in Keys : rt'[k] = rt[k] \/ k = Key(e)
  BY <1>1 DEF Accepted, Runtime!Accept
<1>5. Known'
  <2>1. Alive(Key(e)[1]) => Key(e)[2] \in rows[Key(e)[1]]
    BY DEF AInv, Keyed, Tried, Key, Holds, Holding
  <2> QED
    BY <1>4, <2>1 DEF AInv, Keyed, Known, Alive
<1>6. Unseen'
  <2> SUFFICES ASSUME NEW f \in Executors, pc'[f] = "attempted", Alive(job[f])'
               PROVE  rt'[Key(f)'] = "none"
    BY DEF Unseen
  <2>1. f # e /\ pc[f] = "attempted" /\ Holds(f) /\ Alive(job[f]) /\ Key(f)' = Key(f)
    BY <1>2 DEF Holds, Holding, Alive
  <2>2. rt[Key(f)] = "none" /\ Key(f) \in Keys
    BY <2>1, HeldInHand DEF AInv, Keyed, Unseen, Holding
  <2>3. Key(e) = Key(f) => Holds(e)
    BY <2>1 DEF Holds, Holding, Key
  <2>4. Key(f) # Key(e)
    BY <2>1, <2>3 DEF AInv, Keyed, Distinct
  <2> QED
    BY <1>4, <2>1, <2>2, <2>4
<1> QED
  BY <1>3, <1>5, <1>6 DEF Keyed

\* The steps of one executor.
LEMMA QuietLocal ==
  ASSUME Typed, NEW e \in Executors, rows' = rows, rt' = rt
  PROVE  /\ \A step \in WorkerPc \ Holding : Goto(e, step) /\ UNCHANGED <<job, no>> => Quiet
         /\ \A step \in WorkerPc \ Holding : LocalStep(e, step) => Quiet
         /\ pc[e] \in Holding =>
              /\ \A step \in Holding \ {"attempted"} : LocalStep(e, step) => Quiet
              /\ \A outcome \in Outcomes : Conclude(e, outcome) => Quiet
         /\ Answered(e) => Quiet
         /\ Finish(e) => Quiet
<1>0. pc \in [Executors -> WorkerPc \cup CallerPc] /\ no \in [Executors -> 0 .. MaxAttempts]
      /\ job \in [Executors -> Tasks \cup {None}]
  BY DEF Typed, TypeOK
<1>1. ASSUME NEW step, Goto(e, step), UNCHANGED <<job, no>>,
             step \notin Holding \/ (pc[e] \in Holding /\ step \in Holding \ {"attempted"})
      PROVE  Quiet
  <2>1. pc' = [pc EXCEPT ![e] = step] /\ job' = job /\ no' = no
    BY <1>1 DEF Goto
  <2> QED
    BY <1>0, <1>1, <2>1 DEF Quiet
<1>2. \A step \in WorkerPc \ Holding : Goto(e, step) /\ UNCHANGED <<job, no>> => Quiet
  BY <1>1
<1>3. \A step \in WorkerPc \ Holding : LocalStep(e, step) => Quiet
  BY <1>1 DEF LocalStep
<1>4. ASSUME pc[e] \in Holding
      PROVE  /\ \A step \in Holding \ {"attempted"} : LocalStep(e, step) => Quiet
             /\ \A outcome \in Outcomes : Conclude(e, outcome) => Quiet
  BY <1>1, <1>4 DEF LocalStep, Conclude, Holding
<1>5. Answered(e) => Quiet
  <2> SUFFICES ASSUME Answered(e) PROVE Quiet
    OBVIOUS
  <2>1. pc' = [pc EXCEPT ![e] = "idle"] /\ job' = [job EXCEPT ![e] = None] /\ no' = [no EXCEPT ![e] = 0]
    BY DEF Answered
  <2> QED
    BY <1>0, <2>1 DEF Quiet, Holding
<1>6. Finish(e) => Quiet
  BY <1>3, <1>5 DEF Finish, WorkerPc, Holding
<1> QED
  BY <1>2, <1>3, <1>4, <1>5, <1>6

LEMMA QuietApi ==
  ASSUME Typed, Lasting, ApiStep
  PROVE  Quiet
<1>0. /\ pc \in [Executors -> WorkerPc \cup CallerPc] /\ job \in [Executors -> Tasks \cup {None}]
      /\ no \in [Executors -> 0 .. MaxAttempts] /\ rows \in [Tasks -> SUBSET (1 .. MaxAttempts)]
  BY DEF Typed, TypeOK
<1>1. CASE \/ \E b \in Batches : CreateBatch(b)
           \/ \E d \in Drafts : MarkDraft(d, "sent") \/ MarkDraft(d, "pending")
  BY <1>1 DEF CreateBatch, MarkDraft, localVars, runtimeVars, taskVars, Quiet
<1>2. CASE ClearBatches
  <2>1. /\ \A t \in Tasks : rows'[t] = rows[t] \/ (rows'[t] = {} /\ ~Alive(t)')
        /\ UNCHANGED <<rt, pc, job, no>>
    BY <1>2 DEF ClearBatches, Lasting, Alive, localVars, runtimeVars
  <2> QED
    BY <2>1 DEF Quiet
<1>3. ASSUME NEW c \in Callers, NEW op \in CallerPc \ Holding, NEW t, NEW b,
             Accept(c, op, t, b), t = None \/ status[t] \notin Gone
      PROVE  Quiet
  <2>1. /\ pc' = [pc EXCEPT ![c] = op] /\ job' = [job EXCEPT ![c] = t]
        /\ UNCHANGED <<rows, rt, no>>
    BY <1>3 DEF Accept, taskVars, runtimeVars
  <2> QED
    BY <1>0, <1>3, <2>1 DEF Quiet, Executors
<1>4. ASSUME NEW c \in Callers, NEW b \in Batches,
             StartCheck(c, b) \/ PauseCheck(c, b) \/ CancelBatchCheck(c, b)
      PROVE  Quiet
  BY <1>3, <1>4 DEF StartCheck, PauseCheck, CancelBatchCheck, CallerPc, Holding
<1>5. ASSUME NEW c \in Callers, NEW t \in Tasks,
             CancelTaskCheck(c, t) \/ RetryCheck(c, t) \/ RunTaskCheck(c, t)
      PROVE  Quiet
  BY <1>3, <1>5 DEF CancelTaskCheck, RetryCheck, RunTaskCheck, CallerPc, Holding, Gone
<1>6. ASSUME NEW c \in Callers,
             \/ StartCommit(c) \/ PauseCommit(c) \/ CancelBatchCommit(c)
             \/ CancelTaskCommit(c) \/ RetryCommit(c) \/ RunTaskCommit(c)
      PROVE  Quiet
  <2>1. c \in Executors /\ rows' = rows /\ rt' = rt
    BY <1>6 DEF Executors, StartCommit, PauseCommit, CancelBatchCommit, CancelTasks,
         CancelTaskCommit, RetryCommit, RunTaskCommit, taskVars, runtimeVars
  <2>2. CASE Answered(c)
    BY <2>1, <2>2, QuietLocal
  <2>3. CASE pc' = [pc EXCEPT ![c] = "ready"] /\ job' = job
             /\ no' = [no EXCEPT ![c] = attempts[job[c]]]
    BY <1>0, <2>1, <2>3 DEF Quiet, Holding
  <2> QED
    BY <1>6, <2>2, <2>3
       DEF StartCommit, PauseCommit, CancelBatchCommit, CancelTasks, CancelTaskCommit,
           RetryCommit, RunTaskCommit
<1> QED
  BY <1>1, <1>2, <1>4, <1>5, <1>6 DEF ApiStep

LEMMA KeyedRun ==
  ASSUME AInv, Lasts, NEW e \in Executors, RunStep(e)
  PROVE  Keyed'
<1>0. Typed
  BY DEF AInv
<1>1. CASE PasteAttempt(e)
  BY <1>1, InsertKeeps DEF PasteAttempt, InsertAttempt, WriteAttempt, HasJob, runtimeVars
<1>2. CASE CallPaste(e)
  <2>1. pc[e] \in Holding
    BY <1>2 DEF CallPaste, Holding
  <2>2. CASE Accepted(Key(e)) /\ Conclude(e, "interrupted")
    BY <1>2, <2>2, AcceptKeeps DEF CallPaste, Conclude, taskVars
  <2>3. CASE rt' = rt /\ \E outcome \in Outcomes : Conclude(e, outcome)
    BY <1>0, <1>2, <2>1, <2>3, QuietLocal, QuietKeeps DEF CallPaste, taskVars
  <2> QED
    BY <1>2, <2>2, <2>3 DEF CallPaste, Outcomes
<1>3. CASE AttemptFailed(e) \/ Persist(e) \/ PersistFallback(e) \/ PersistLost(e)
  <2>1. rows' = rows /\ rt' = rt /\ Finish(e)
    BY <1>3 DEF AttemptFailed, Persist, PersistFallback, PersistLost, taskVars, runtimeVars
  <2> QED
    BY <1>0, <2>1, QuietLocal, QuietKeeps
<1> QED
  BY <1>1, <1>2, <1>3 DEF RunStep

LEMMA KeyedWorker ==
  ASSUME AInv, Lasts, NEW w \in Workers, WorkerStep(w)
  PROVE  Keyed'
<1>0. /\ Typed /\ w \in Executors /\ pc \in [Executors -> WorkerPc \cup CallerPc]
      /\ no \in [Executors -> 0 .. MaxAttempts] /\ job \in [Executors -> Tasks \cup {None}]
  BY DEF AInv, Executors, Typed, TypeOK
<1>1. CASE SendAttempt(w)
  BY <1>0, <1>1, InsertKeeps DEF SendAttempt, InsertAttempt, WriteAttempt, HasJob, runtimeVars
<1>2. CASE CallSend(w)
  <2>1. pc[w] \in Holding
    BY <1>2 DEF CallSend, Holding
  <2>2. CASE Accepted(Key(w)) /\ (LocalStep(w, "polling") \/ Conclude(w, "interrupted"))
    BY <1>0, <1>2, <2>2, AcceptKeeps DEF CallSend, LocalStep, Conclude, taskVars
  <2>3. CASE rt' = rt /\ \E outcome \in Outcomes : Conclude(w, outcome)
    BY <1>0, <1>2, <2>1, <2>3, QuietLocal, QuietKeeps DEF CallSend, taskVars
  <2> QED
    BY <1>2, <2>2, <2>3 DEF CallSend, Outcomes
<1>3. CASE \/ Start(w) \/ Recovered(w) \/ ReconcileAbort(w)
           \/ \E t \in Tasks : Reconcile(w, t) \/ ReconcileFallback(w, t)
           \/ Claim(w) \/ ClaimNothing(w) \/ Release(w)
           \/ ReadTask(w) \/ CancelClaimed(w) \/ SendStarted(w)
           \/ PollTerminal(w) \/ PollTimeout(w) \/ CancelPollGiveUp(w)
  <2>1. rows' = rows /\ rt' = rt
    BY <1>3
       DEF Start, Recovered, ReconcileAbort, Reconcile, ReconcileFallback, RecoverTask, Claim,
           ClaimNothing, Release, ReadTask, CancelClaimed, SendStarted, PollTerminal,
           PollTimeout, CancelPollGiveUp, taskVars, runtimeVars
  <2>2. CASE Start(w) \/ Recovered(w) \/ ReconcileAbort(w)
    <3>1. \E step \in WorkerPc \ Holding : Goto(w, step) /\ UNCHANGED <<job, no>>
      BY <2>2 DEF Start, Recovered, ReconcileAbort, WorkerPc, Holding
    <3> QED
      BY <1>0, <2>1, <3>1, QuietLocal, QuietKeeps
  <2>3. CASE ClaimNothing(w) \/ \E t \in Tasks : Reconcile(w, t) \/ ReconcileFallback(w, t)
    <3>1. pc' = pc /\ job' = job /\ no' = no
      BY <2>3 DEF ClaimNothing, Reconcile, ReconcileFallback, RecoverTask, localVars
    <3> QED
      BY <2>1, <3>1, QuietKeeps DEF Quiet
  <2>4. CASE Claim(w) \/ ReadTask(w)
    <3>1. PICK step \in WorkerPc \ Holding : pc' = [pc EXCEPT ![w] = step]
      BY <2>4 DEF Claim, ReadTask, Goto, WorkerPc, Holding
    <3>2. \A f \in Executors \ {w} : job'[f] = job[f] /\ no'[f] = no[f]
      BY <1>0, <2>4 DEF Claim, ReadTask
    <3>3. job'[w] = job[w] \/ status[job'[w]] \notin Gone
      BY <1>0, <2>4 DEF Claim, ReadTask, Claimable, Gone
    <3> QED
      BY <1>0, <2>1, <3>1, <3>2, <3>3, QuietKeeps DEF Quiet
  <2>5. CASE Release(w)
    BY <2>1, <2>5, QuietKeeps DEF Release, Forget, Quiet, Holding
  <2>6. CASE CancelClaimed(w) \/ SendStarted(w)
    <3>1. \E step \in WorkerPc \ Holding : LocalStep(w, step)
      BY <2>6 DEF CancelClaimed, SendStarted, WorkerPc, Holding
    <3> QED
      BY <1>0, <2>1, <3>1, QuietLocal, QuietKeeps
  <2>7. CASE PollTerminal(w) \/ PollTimeout(w) \/ CancelPollGiveUp(w)
    <3>1. /\ pc[w] \in Holding
          /\ \/ \E step \in Holding \ {"attempted"} : LocalStep(w, step)
             \/ \E outcome \in Outcomes : Conclude(w, outcome)
      BY <2>7, OutcomeType DEF PollTerminal, PollTimeout, CancelPollGiveUp, Holding, Outcomes
    <3> QED
      BY <1>0, <2>1, <3>1, QuietLocal, QuietKeeps
  <2> QED
    BY <1>3, <2>2, <2>3, <2>4, <2>5, <2>6, <2>7
<1> QED
  BY <1>1, <1>2, <1>3 DEF WorkerStep

LEMMA KeyedRest ==
  ASSUME AInv, Lasts, Environment \/ (\E k \in Keys : RuntimeStep(k)) \/ UNCHANGED vars
  PROVE  Keyed'
<1>0. Typed /\ rt \in [Keys -> Runtime!States]
  BY DEF AInv, Typed, TypeOK
<1>1. CASE Environment
  <2>1. CASE RuntimeRestart
    BY <2>1, QuietKeeps DEF RuntimeRestart, Runtime!Restart, RtStep, taskVars, localVars, Quiet
  <2>2. CASE LeaseExpire \/ \E w \in Workers : RenewStop(w)
    BY <2>2, QuietKeeps
       DEF LeaseExpire, RenewStop, taskVars, localVars, runtimeVars, Quiet
  <2>3. CASE \E w \in Workers : Stop(w) \/ Crash(w)
    BY <2>3, QuietKeeps DEF Stop, Crash, Forget, runtimeVars, Quiet, Holding
  <2>4. ASSUME NEW e \in Executors, TransactionFailed(e) PROVE Keyed'
    BY <1>0, <2>4, QuietLocal, QuietKeeps DEF TransactionFailed, taskVars, runtimeVars
  <2> QED
    BY <1>1, <2>1, <2>2, <2>3, <2>4 DEF Environment
<1>2. ASSUME NEW k \in Keys, RuntimeStep(k) PROVE Keyed'
  <2>1. rt[k] # "none" /\ \E s : rt' = [rt EXCEPT ![k] = s]
    BY <1>2
       DEF RuntimeStep, PressEnter, EndRuntimeTask, Runtime!Enter, Runtime!End, Runtime!Ends,
           Runtime!InProgress
  <2>2. rows' = rows /\ pc' = pc /\ job' = job /\ no' = no
    BY <1>2 DEF RuntimeStep, PressEnter, EndRuntimeTask, RtStep, taskVars, localVars
  <2> QED
    BY <1>0, <2>1, <2>2, QuietKeeps DEF Quiet
<1>3. CASE UNCHANGED vars
  BY <1>3, QuietKeeps DEF vars, taskVars, localVars, runtimeVars, Quiet
<1> QED
  BY <1>1, <1>2, <1>3

LEMMA AttemptsNext == Lasting /\ AInv /\ [Next]_vars /\ Typed' => AInv' /\ Lasts
<1> SUFFICES ASSUME Lasting, AInv, [Next]_vars, Typed' PROVE AInv' /\ Lasts
  OBVIOUS
<1>1. Lasts /\ DeletedPaired'
  BY GoneLasts DEF AInv
<1>2. ASSUME ApiStep PROVE Keyed'
  BY <1>1, <1>2, QuietApi, QuietKeeps DEF AInv
<1>3. Keyed'
  BY <1>1, <1>2, QuietKeeps, KeyedRun, KeyedWorker, KeyedRest DEF AInv, Next
<1>4. "clear" \notin Ops => \A t \in Tasks : Alive(t)'
  BY <1>1 DEF AInv, Lasts
<1> QED
  BY <1>1, <1>3, <1>4 DEF AInv

LEMMA AttemptsInit == Init => DeletedPaired /\ Keyed /\ \A t \in Tasks : Alive(t)
BY NoneAssumption
   DEF Init, Runtime!Init, DeletedPaired, Keyed, Tried, Known, Distinct, Unseen, Started, Holds,
       Holding, Alive, Executors, Keys

LEMMA AttemptsInvariant ==
  ASSUME Lasting
  PROVE  Spec => []AInv
BY AttemptsInit, AttemptsNext, Typing, PTL DEF Spec, AInv

\* Batches may be cleared, as long as the database gives no id twice: the key of
\* a new attempt is one the runtime has never seen, unless its task was deleted
\* meanwhile, and nobody else works under the key of a task that is there
\* (clear_terminal_execution_batches, broadcast:{task}:{attempt}).
THEOREM KeysLast ==
  ASSUME Lasting
  PROVE  Spec => [](Unseen /\ Distinct)
<1>1. AInv => Unseen /\ Distinct
  BY DEF AInv, Keyed
<1> QED
  BY <1>1, AttemptsInvariant, PTL

\* However many workers and requests race for a task, no attempt of it is made
\* twice: the insert of the attempt's row decides (create_execution_attempt).
THEOREM AttemptsUnique ==
  ASSUME "clear" \notin Ops
  PROVE  Spec => []AttemptUnique
<1>1. AInv => AttemptUnique
  BY HeldInHand DEF AInv, Keyed, Distinct, AttemptUnique, Holds, Holding
<1>2. Spec => []AInv
  BY AttemptsInvariant DEF Lasting
<1> QED
  BY <1>1, <1>2, PTL

\* The runtime has never seen the key of a new attempt, so that it neither
\* answers it with an older result nor refuses it (broadcast:{task}:{attempt}).
\* With batches cleared, ids and hence keys may come back.
THEOREM KeysFresh ==
  ASSUME "clear" \notin Ops
  PROVE  Spec => []FreshKey
<1>1. AInv => FreshKey
  BY HeldInHand DEF AInv, Keyed, Unseen, FreshKey, Holds, Holding
<1>2. Spec => []AInv
  BY AttemptsInvariant DEF Lasting
<1> QED
  BY <1>1, <1>2, PTL

-----------------------------------------------------------------------------
(* A message is sent once *)

\* What the theorems of this section assume: one worker process, and no request
\* that cancels a single task (v_cancel_task_race shows what that would do).
\* Batches may be cleared, and their ids and hence their keys come back.
Solo ==
  /\ \A v, w \in Workers : v = w
  /\ "cancel_task" \notin Ops

\* Steps of a send before the runtime has been called, and after.
Pre  == {"claimed", "cancel_found", "send_ready", "send_started", "attempted"}
Post == {"polling", "cancel_polling", "result"}
Open == {"running", "cancelling"}

\* A draft is hot while a send of it may still press Enter, or Enter was
\* pressed since it was last marked pending.
Hot(d)  == enters[d] # 0 \/ Live(d) # {}

\* Only the worker works on a send, which stays open meanwhile; from its
\* attempt on, no proof that Enter was not pressed is on record.
AtWork(e) == pc[e] \in Pre \cup Post /\ IsSend(job[e])
Working ==
  \A e \in Executors : AtWork(e) =>
    /\ e \in Workers /\ status[job[e]] \in Open
    /\ pc[e] \in Post \cup {"attempted"} => evid[job[e]] \notin Denied

\* The sends a recovery has still to settle are open.
Recovering ==
  \A w \in Workers : \A t \in todo[w] : IsSend(t) => pc[w] = "recovering" /\ status[t] \in Open

\* A hot draft is guarded: it is reserved by a task that is past its call and
\* whose record proves nothing, or it is not pending.
GuardOf(d) ==
  IF reserved[d] = None
  THEN sendStatus[d] \in {"unknown", "sent"}
  ELSE /\ status[reserved[d]] \in Open /\ evid[reserved[d]] \notin Denied
       /\ \A w \in Workers : ~(pc[w] \in Pre /\ job[w] = reserved[d])
Guard == \A d \in Drafts : Hot(d) => GuardOf(d)

\* A worker past its call has not been told, and will not be told, that Enter
\* was not pressed when it was.
ToldOf(w) ==
  LET d == DraftOf[job[w]] IN
  /\ pc[w] = "result" /\ Hot(d) => res[w] \in {"succeeded", "interrupted"}
  /\ pc[w] # "result" /\ enters[d] # 0 => rt[Key(w)] \notin {"running", "failed", "cancelled"}
  /\ pc[w] # "result" => Live(d) \subseteq {Key(w)}
Told == \A w \in Workers : pc[w] \in Post /\ IsSend(job[w]) => ToldOf(w)

\* A draft has one live send at most, none after Enter was pressed, and that
\* send has the reservation if anyone has.
AloneOf(d) ==
  /\ enters[d] \in {0, 1}
  /\ enters[d] # 0 => Live(d) = {}
  /\ \A k, l \in Live(d) : k = l
  /\ \A k \in Live(d) : reserved[d] # None => reserved[d] = k[1]
Alone == \A d \in Drafts : AloneOf(d)

\* A message that was sent stays so (SentStaysSent).
SentKept ==
  \A t \in Tasks : IsSend(t) /\ status[t] = "succeeded" /\ sendStatus[DraftOf[t]] # "pending"
    => status'[t] \in {"succeeded"} \cup Gone

Discipline == SendReserved /\ Working /\ Recovering
Safe == Discipline /\ Guard /\ Told /\ Alone

LEMMA StepNames ==
  /\ Pre \cup Post \subseteq HasJob /\ Pre \cap Post = {}
  /\ "ready" \notin Pre \cup Post /\ "idle" \notin Pre \cup Post /\ "down" \notin Pre \cup Post
  /\ "release" \notin Pre \cup Post /\ "recovering" \notin Pre \cup Post
  /\ Open \subseteq ActiveTask /\ Open \cap (Gone \cup SettledTask) = {} /\ "pending" \notin Open
BY DEF Pre, Post, HasJob, Open, ActiveTask, SettledTask, Gone

\* The task a worker works on holds the reservation of its draft, which is
\* not hot before the runtime is called.
LEMMA WorkFacts ==
  ASSUME RInv, Safe, NEW w \in Executors, AtWork(w)
  PROVE  /\ w \in Workers /\ job[w] \in Tasks /\ DraftOf[job[w]] \in Drafts
         /\ reserved[DraftOf[job[w]]] = job[w] /\ job[w] # None
         /\ pc[w] \in Pre => ~Hot(DraftOf[job[w]])
<1>1. job[w] \in Tasks /\ DraftOf[job[w]] \in Drafts /\ job[w] # None /\ w \in Workers
  BY StepNames, IdAssumption, NoneAssumption
     DEF RInv, Typed, InHand, AtWork, Safe, Discipline, Working
<1>2. reserved[DraftOf[job[w]]] = job[w]
  BY <1>1, StepNames DEF AtWork, Safe, Discipline, Working, SendReserved
<1>3. pc[w] \in Pre => ~Hot(DraftOf[job[w]])
  BY <1>1, <1>2 DEF Safe, Guard, GuardOf
<1> QED
  BY <1>1, <1>2, <1>3

\* The task of a hot draft is open, hence not one that a request could touch.
LEMMA HotFacts ==
  ASSUME RInv, Safe, NEW d \in Drafts, Hot(d)
  PROVE  /\ ~CanReserve(d)
         /\ reserved[d] # None => /\ reserved[d] \in Tasks /\ DraftOf[reserved[d]] = d
                                  /\ IsSend(reserved[d]) /\ status[reserved[d]] \in Open
                                  /\ evid[reserved[d]] \notin Denied
<1>1. GuardOf(d)
  BY DEF Safe, Guard
<1>2. reserved[d] # None => reserved[d] \in Tasks /\ evid[reserved[d]] \in Evidence
  BY DEF RInv, Typed, TypeOK
<1> QED
  BY <1>1, <1>2 DEF GuardOf, CanReserve, RInv, ReservedActive

\* How a step leaves an executor, the worker's list, and the runtime's sends.
Stays(e) == pc'[e] = pc[e] /\ job'[e] = job[e] /\ no'[e] = no[e] /\ res'[e] = res[e]
TodoKept ==
  \A w \in Workers : \A t \in todo'[w] : IsSend(t) => t \in todo[w] /\ pc'[w] = pc[w]
RtKept == (\A k \in SendKeys : rt'[k] = rt[k]) /\ enters' = enters /\ stale' = stale

LEMMA HotKept ==
  ASSUME RtKept, NEW d
  PROVE  Live(d)' = Live(d) /\ (Hot(d)' <=> Hot(d))
<1>1. Live(d)' = Live(d)
  BY DEF RtKept, Live, SendKeys, Keys, IsSend
<1> QED
  BY <1>1 DEF RtKept, Hot

\* What a step that neither calls the runtime nor is one of the runtime's
\* must respect: a worker comes to a step before its call only for a draft
\* that is not hot, proof is recorded only of settled tasks, and the draft
\* that is hot stays reserved, or is marked when it is given back.
LEMMA CalmKeeps ==
  ASSUME RInv, Typed', Safe, Working', RtKept,
         \A w \in Workers : AtWork(w)' =>
           \/ Stays(w)
           \/ pc'[w] \in Pre /\ ~Hot(DraftOf[job'[w]])
           \/ pc'[w] \in Post /\ ToldOf(w)',
         \A t \in Tasks : IsSend(t) /\ evid'[t] \in Denied => evid[t] \in Denied \/ status'[t] \notin Open,
         \A d \in Drafts : Hot(d) =>
           \/ reserved'[d] = None /\ sendStatus'[d] \in {"unknown", "sent"}
           \/ reserved[d] # None /\ reserved'[d] = reserved[d] /\ status'[reserved[d]] \in Open
  PROVE  Guard' /\ Told' /\ Alone'
<1>1. Guard'
  <2> SUFFICES ASSUME NEW d \in Drafts, Hot(d) PROVE GuardOf(d)'
    BY HotKept DEF Guard
  <2>1. CASE reserved'[d] = None
    BY <2>1 DEF GuardOf
  <2>2. CASE reserved'[d] # None
    <3> DEFINE t == reserved[d]
    <3>1. t # None /\ reserved'[d] = t /\ status'[t] \in Open
      BY <2>2
    <3>2. t \in Tasks /\ DraftOf[t] = d /\ IsSend(t) /\ evid[t] \notin Denied
      BY <3>1, HotFacts
    <3>3. evid'[t] \notin Denied
      <4>1. evid'[t] \in Evidence
        BY <3>2 DEF Typed, TypeOK
      <4> QED
        BY <3>1, <3>2, <4>1
    <3>4. \A w \in Workers : ~(pc'[w] \in Pre /\ job'[w] = t)
      <4> SUFFICES ASSUME NEW w \in Workers, pc'[w] \in Pre, job'[w] = t PROVE FALSE
        OBVIOUS
      <4>1. AtWork(w)' /\ pc'[w] \notin Post
        BY <3>2, StepNames DEF AtWork, IsSend
      <4>2. CASE Stays(w)
        <5>1. pc[w] \in Pre /\ job[w] = t
          BY <4>2 DEF Stays
        <5> QED
          BY <3>1, <5>1 DEF Safe, Guard, GuardOf
      <4>3. CASE ~Hot(DraftOf[job'[w]])
        BY <3>2, <4>3
      <4> QED
        BY <4>1, <4>2, <4>3
    <3> QED
      BY <3>1, <3>3, <3>4 DEF GuardOf
  <2> QED
    BY <2>1, <2>2
<1>2. Told'
  <2> SUFFICES ASSUME NEW w \in Workers, pc'[w] \in Post, IsSend(job'[w]) PROVE ToldOf(w)'
    BY DEF Told, IsSend
  <2>1. AtWork(w)' /\ pc'[w] \notin Pre
    BY StepNames DEF AtWork, IsSend
  <2>2. CASE Stays(w)
    <3>1. pc[w] \in Post /\ IsSend(job[w]) /\ AtWork(w) /\ w \in Executors
      BY <2>2 DEF Stays, AtWork, Executors
    <3>2. ToldOf(w) /\ DraftOf[job[w]] \in Drafts
      BY <3>1, WorkFacts DEF Safe, Told
    <3>3. pc[w] # "result" => Key(w) \in SendKeys
      BY <3>1 DEF Post, RInv, Typed, InHand, HasAttempt, HasJob, Key, SendKeys, Keys
    <3>4. Key(w)' = Key(w) /\ DraftOf[job'[w]] = DraftOf[job[w]]
      BY <2>2 DEF Stays, Key
    <3> QED
      BY <2>2, <3>2, <3>3, <3>4, HotKept DEF ToldOf, Stays, RtKept
  <2> QED
    BY <2>1, <2>2
<1>3. Alone'
  <2> SUFFICES ASSUME NEW d \in Drafts PROVE AloneOf(d)'
    BY DEF Alone
  <2>1. AloneOf(d)
    BY DEF Safe, Alone
  <2>2. Live(d)' = Live(d) /\ enters'[d] = enters[d]
    BY HotKept DEF RtKept
  <2>3. ASSUME NEW k \in Live(d), reserved'[d] # None PROVE reserved'[d] = k[1]
    <3>1. Hot(d)
      BY <2>3 DEF Hot
    <3>2. reserved[d] # None /\ reserved'[d] = reserved[d]
      BY <2>3, <3>1
    <3> QED
      BY <2>1, <3>2 DEF AloneOf
  <2> QED
    BY <2>1, <2>2, <2>3 DEF AloneOf
<1> QED
  BY <1>1, <1>2, <1>3

\* A step that has nothing to do with sends: whoever works on one stays where
\* it is, or leaves it.
SendsKept ==
  /\ \A t \in Tasks : IsSend(t) => status'[t] = status[t] /\ (evid'[t] \in Denied => evid[t] \in Denied)
  /\ reserved' = reserved /\ sendStatus' = sendStatus
Idle ==
  /\ SendsKept /\ RtKept /\ TodoKept
  /\ \A e \in Executors : AtWork(e)' => Stays(e)

LEMMA IdleKeeps ==
  ASSUME RInv, Typed', Safe, Idle
  PROVE  Safe' /\ SentKept
<1>1. SendReserved'
  BY DEF Idle, SendsKept, Safe, Discipline, SendReserved, IsSend
<1>2. Working'
  <2> SUFFICES ASSUME NEW e \in Executors, AtWork(e)'
               PROVE  /\ e \in Workers /\ status'[job'[e]] \in Open
                      /\ pc'[e] \in Post \cup {"attempted"} => evid'[job'[e]] \notin Denied
    BY DEF Working
  <2>1. Stays(e) /\ AtWork(e)
    BY DEF Idle, Stays, AtWork, IsSend
  <2>2. job[e] \in Tasks /\ IsSend(job[e])
    BY <2>1, WorkFacts DEF AtWork
  <2> QED
    BY <2>1, <2>2 DEF Safe, Discipline, Working, Stays, Idle, SendsKept
<1>3. Recovering'
  <2>1. \A w \in Workers : todo'[w] \subseteq Tasks
    BY DEF Typed, TypeOK
  <2> QED
    BY <2>1 DEF Safe, Discipline, Recovering, Idle, TodoKept, SendsKept, IsSend
<1>4. \A d \in Drafts : Hot(d) =>
        \/ reserved'[d] = None /\ sendStatus'[d] \in {"unknown", "sent"}
        \/ reserved[d] # None /\ reserved'[d] = reserved[d] /\ status'[reserved[d]] \in Open
  BY HotFacts DEF Idle, SendsKept, Safe, Guard, GuardOf
<1>5. \A w \in Workers : AtWork(w)' => Stays(w)
  BY DEF Idle, Executors
<1>6. \A t \in Tasks : IsSend(t) /\ evid'[t] \in Denied => evid[t] \in Denied
  BY DEF Idle, SendsKept
<1>7. RtKept
  BY DEF Idle
<1>8. SentKept
  BY DEF Idle, SendsKept, SentKept
<1> QED
  BY <1>1, <1>2, <1>3, <1>4, <1>5, <1>6, <1>7, <1>8, CalmKeeps DEF Safe, Discipline

\* A send is settled, and its draft given back with a mark: when the draft is
\* hot, not as pending (_persist_execution_result, reconcile).
LEMMA SettleKeeps ==
  ASSUME RInv, Typed', Safe, NEW t \in Tasks, IsSend(t), status[t] \in Open,
         NEW s \in SettledTask, status' = WithStatus(t, s), reserved' = Released(t),
         \A u \in Tasks \ {t} : evid'[u] = evid[u],
         \A d \in Drafts \ {DraftOf[t]} : sendStatus'[d] = sendStatus[d],
         Hot(DraftOf[t]) => sendStatus'[DraftOf[t]] \in {"unknown", "sent"},
         RtKept,
         \A e \in Executors : AtWork(e)' => Stays(e) /\ job[e] # t,
         \A w \in Workers : \A u \in todo'[w] :
           IsSend(u) => u # t /\ u \in todo[w] /\ pc'[w] = pc[w]
  PROVE  Safe' /\ SentKept
<1>0. /\ DraftOf[t] \in Drafts /\ reserved \in [Drafts -> Tasks \cup {None}]
      /\ status \in [Tasks -> TaskStatus \cup Gone] /\ t # None
  BY IdAssumption, NoneAssumption DEF RInv, Typed, TypeOK
<1>1. /\ status'[t] = s /\ \A u \in Tasks \ {t} : status'[u] = status[u]
      /\ \A d \in Drafts \ {DraftOf[t]} : reserved'[d] = reserved[d]
      /\ reserved[DraftOf[t]] = t /\ reserved'[DraftOf[t]] = None
  <2>1. reserved[DraftOf[t]] = t
    BY StepNames DEF Safe, Discipline, SendReserved
  <2> QED
    BY <1>0, <2>1, StepNames DEF WithStatus, Released
<1>2. SendReserved'
  <2> SUFFICES ASSUME NEW u \in Tasks, IsSend(u), status'[u] \in ActiveTask
               PROVE  reserved'[DraftOf[u]] = u
    BY DEF SendReserved, IsSend
  <2>1. u # t
    BY <1>1, Disjoint
  <2>2. reserved[DraftOf[u]] = u /\ DraftOf[u] \in Drafts
    BY <1>1, <2>1, IdAssumption DEF Safe, Discipline, SendReserved
  <2>3. DraftOf[u] # DraftOf[t]
    BY <1>1, <2>1, <2>2
  <2> QED
    BY <1>1, <2>2, <2>3
<1>3. Working'
  <2> SUFFICES ASSUME NEW e \in Executors, AtWork(e)'
               PROVE  /\ e \in Workers /\ status'[job'[e]] \in Open
                      /\ pc'[e] \in Post \cup {"attempted"} => evid'[job'[e]] \notin Denied
    BY DEF Working
  <2>1. Stays(e) /\ AtWork(e) /\ job[e] # t
    BY DEF Stays, AtWork, IsSend
  <2>2. job[e] \in Tasks
    BY <2>1, WorkFacts
  <2> QED
    BY <1>1, <2>1, <2>2 DEF Safe, Discipline, Working, Stays
<1>4. Recovering'
  <2>1. \A w \in Workers : todo'[w] \subseteq Tasks
    BY DEF Typed, TypeOK
  <2> QED
    BY <1>1, <2>1 DEF Safe, Discipline, Recovering, IsSend
<1>5. \A d \in Drafts : Hot(d) =>
        \/ reserved'[d] = None /\ sendStatus'[d] \in {"unknown", "sent"}
        \/ reserved[d] # None /\ reserved'[d] = reserved[d] /\ status'[reserved[d]] \in Open
  <2> SUFFICES ASSUME NEW d \in Drafts \ {DraftOf[t]}, Hot(d)
               PROVE  \/ reserved'[d] = None /\ sendStatus'[d] \in {"unknown", "sent"}
                      \/ /\ reserved[d] # None /\ reserved'[d] = reserved[d]
                         /\ status'[reserved[d]] \in Open
    BY <1>1
  <2>1. CASE reserved[d] = None
    BY <1>1, <2>1 DEF Safe, Guard, GuardOf
  <2>2. CASE reserved[d] # None
    BY <1>1, <2>2, HotFacts
  <2> QED
    BY <2>1, <2>2
<1>6. \A w \in Workers : AtWork(w)' => Stays(w)
  BY DEF Executors
<1>7. \A u \in Tasks : IsSend(u) /\ evid'[u] \in Denied => evid[u] \in Denied \/ status'[u] \notin Open
  BY <1>1, StepNames
<1>8. SentKept
  BY <1>1 DEF SentKept, Open
<1> QED
  BY <1>2, <1>3, <1>4, <1>5, <1>6, <1>7, <1>8, CalmKeeps DEF Safe, Discipline

\* The worker gets on with a send it has not called the runtime for, or takes
\* one up; nobody had the draft's Enter pressed.
LEMMA PrepareKeeps ==
  ASSUME RInv, Typed', Safe, NEW w \in Workers, NEW t \in Tasks, IsSend(t),
         status[t] \in ActiveTask, ~Hot(DraftOf[t]),
         status'[t] \in Open, \A u \in Tasks \ {t} : status'[u] = status[u],
         \A u \in Tasks : evid'[u] \in Denied => evid[u] \in Denied,
         reserved' = reserved, sendStatus' = sendStatus, RtKept, TodoKept,
         job'[w] = t, pc'[w] \in Pre, pc'[w] = "attempted" => evid'[t] \notin Denied,
         \A f \in Executors \ {w} : Stays(f)
  PROVE  Safe' /\ SentKept
<1>1. SendReserved'
  BY DEF Safe, Discipline, SendReserved, IsSend
<1>2. Working'
  <2> SUFFICES ASSUME NEW e \in Executors, AtWork(e)'
               PROVE  /\ e \in Workers /\ status'[job'[e]] \in Open
                      /\ pc'[e] \in Post \cup {"attempted"} => evid'[job'[e]] \notin Denied
    BY DEF Working
  <2>1. CASE e = w
    BY <2>1, StepNames
  <2>2. CASE e # w
    <3>1. Stays(e) /\ AtWork(e)
      BY <2>2 DEF Stays, AtWork, IsSend
    <3>2. job[e] \in Tasks
      BY <3>1, WorkFacts
    <3> QED
      BY <3>1, <3>2 DEF Safe, Discipline, Working, Stays
  <2> QED
    BY <2>1, <2>2
<1>3. Recovering'
  <2>1. \A v \in Workers : todo'[v] \subseteq Tasks
    BY DEF Typed, TypeOK
  <2> QED
    BY <2>1 DEF Safe, Discipline, Recovering, TodoKept, IsSend
<1>4. \A d \in Drafts : Hot(d) =>
        \/ reserved'[d] = None /\ sendStatus'[d] \in {"unknown", "sent"}
        \/ reserved[d] # None /\ reserved'[d] = reserved[d] /\ status'[reserved[d]] \in Open
  BY HotFacts DEF Safe, Guard, GuardOf
<1>5. \A v \in Workers : AtWork(v)' =>
        Stays(v) \/ (pc'[v] \in Pre /\ ~Hot(DraftOf[job'[v]]))
  BY DEF Executors
<1>6. \A u \in Tasks : IsSend(u) /\ evid'[u] \in Denied => evid[u] \in Denied
  OBVIOUS
<1>7. SentKept
  BY DEF SentKept, ActiveTask
<1> QED
  BY <1>1, <1>2, <1>3, <1>4, <1>5, <1>6, <1>7, CalmKeeps DEF Safe, Discipline

\* The worker is past its attempt: its task stays open.
LEMMA CalledDiscipline ==
  ASSUME RInv, Typed', Safe, NEW w \in Workers, IsSend(job[w]),
         pc[w] \in Post \cup {"attempted"}, pc'[w] \in Post, job'[w] = job[w],
         SendsKept, TodoKept, \A f \in Executors \ {w} : Stays(f)
  PROVE  Discipline'
<1>0. w \in Executors /\ AtWork(w) /\ job[w] \in Tasks
  <2>1. w \in Executors /\ AtWork(w)
    BY DEF Executors, AtWork, Pre
  <2> QED
    BY <2>1, WorkFacts
<1>1. SendReserved'
  BY DEF SendsKept, Safe, Discipline, SendReserved, IsSend
<1>2. Working'
  <2> SUFFICES ASSUME NEW e \in Executors, AtWork(e)'
               PROVE  /\ e \in Workers /\ status'[job'[e]] \in Open
                      /\ pc'[e] \in Post \cup {"attempted"} => evid'[job'[e]] \notin Denied
    BY DEF Working
  <2>1. AtWork(e) /\ job'[e] = job[e]
        /\ (pc'[e] \in Post \cup {"attempted"} => pc[e] \in Post \cup {"attempted"})
    BY <1>0 DEF Stays, AtWork, IsSend
  <2>2. job[e] \in Tasks /\ IsSend(job[e])
    BY <2>1, WorkFacts DEF AtWork
  <2> QED
    BY <2>1, <2>2 DEF Safe, Discipline, Working, SendsKept
<1>3. Recovering'
  <2>1. \A v \in Workers : todo'[v] \subseteq Tasks
    BY DEF Typed, TypeOK
  <2> QED
    BY <2>1 DEF Safe, Discipline, Recovering, TodoKept, SendsKept, IsSend
<1> QED
  BY <1>1, <1>2, <1>3 DEF Discipline

\* It goes on with what it has been told.
LEMMA PollKeeps ==
  ASSUME RInv, Typed', Safe, NEW w \in Workers, IsSend(job[w]),
         pc[w] \in Post \cup {"attempted"}, pc'[w] \in Post, job'[w] = job[w], ToldOf(w)',
         SendsKept, RtKept, TodoKept, \A f \in Executors \ {w} : Stays(f)
  PROVE  Safe' /\ SentKept
<1>1. Discipline'
  BY CalledDiscipline
<1>2. \A d \in Drafts : Hot(d) =>
        \/ reserved'[d] = None /\ sendStatus'[d] \in {"unknown", "sent"}
        \/ reserved[d] # None /\ reserved'[d] = reserved[d] /\ status'[reserved[d]] \in Open
  BY HotFacts DEF SendsKept, Safe, Guard, GuardOf
<1>3. \A v \in Workers : AtWork(v)' => Stays(v) \/ (pc'[v] \in Post /\ ToldOf(v)')
  BY DEF Executors
<1>4. \A t \in Tasks : IsSend(t) /\ evid'[t] \in Denied => evid[t] \in Denied
  BY DEF SendsKept
<1>5. SentKept
  BY DEF SendsKept, SentKept
<1> QED
  BY <1>1, <1>2, <1>3, <1>4, <1>5, CalmKeeps DEF Safe, Discipline

\* The runtime accepts the send: the draft becomes hot, reserved by this task.
LEMMA CallKeeps ==
  ASSUME Solo, RInv, Typed', Safe, NEW w \in Workers, IsSend(job[w]), pc[w] = "attempted",
         pc'[w] \in {"polling", "result"}, job'[w] = job[w], no'[w] = no[w],
         pc'[w] = "result" => res'[w] = "interrupted",
         rt' = [rt EXCEPT ![Key(w)] = "running"], enters' = enters, stale' = stale,
         SendsKept, TodoKept, \A f \in Executors \ {w} : Stays(f)
  PROVE  Safe' /\ SentKept
<1>a. w \in Executors /\ AtWork(w) /\ pc[w] \in Pre
  BY DEF Executors, AtWork, Pre
<1>b. PICK t \in Tasks, d \in Drafts, k \in Keys : t = job[w] /\ d = DraftOf[t] /\ k = Key(w)
  BY <1>a, WorkFacts, AttemptInHand DEF RInv
<1>0. /\ w \in Executors /\ AtWork(w) /\ reserved[d] = t /\ t # None
      /\ ~Hot(d) /\ k[1] = t /\ rt \in [Keys -> Runtime!States]
      /\ job'[w] = t /\ Key(w)' = k /\ IsSend(t) /\ rt' = [rt EXCEPT ![k] = "running"]
  BY <1>a, <1>b, WorkFacts DEF Key, RInv, Typed, TypeOK
<1>1. Discipline'
  BY CalledDiscipline DEF Post
<1>2. /\ \A e \in Drafts \ {d} : Live(e)' = Live(e) /\ (Hot(e)' <=> Hot(e))
      /\ Live(d)' \subseteq {k} /\ enters'[d] = 0
  <2>1. \A l \in Keys \ {k} : rt'[l] = rt[l]
    BY <1>0
  <2>2. \A e \in Drafts \ {d} : Live(e)' = Live(e)
    BY <1>0, <1>b, <2>1 DEF Live, SendKeys, IsSend
  <2>3. Live(d)' \subseteq {k}
    BY <1>0, <2>1 DEF Hot, Live, SendKeys, IsSend
  <2> QED
    BY <1>0, <2>2, <2>3 DEF Hot
<1>3. Guard'
  <2> SUFFICES ASSUME NEW e \in Drafts, Hot(e)' PROVE GuardOf(e)'
    BY DEF Guard
  <2>1. CASE e = d
    <3>1. status[t] \in Open /\ evid[t] \notin Denied /\ IsSend(t)
      BY <1>0, <1>b DEF Safe, Discipline, Working
    <3>2. \A v \in Workers : pc'[v] \notin Pre
      BY StepNames DEF Solo, Post, Pre
    <3> QED
      BY <1>0, <2>1, <3>1, <3>2 DEF GuardOf, SendsKept
  <2>2. CASE e # d
    <3>1. Hot(e) /\ GuardOf(e)
      BY <1>2, <2>2 DEF Safe, Guard
    <3>2. \A v \in Workers : pc'[v] \notin Pre
      BY StepNames DEF Solo, Post, Pre
    <3>3. CASE reserved[e] = None
      BY <3>1, <3>3 DEF GuardOf, SendsKept
    <3>4. CASE reserved[e] # None
      BY <3>1, <3>2, <3>4, HotFacts DEF GuardOf, SendsKept
    <3> QED
      BY <3>3, <3>4
  <2> QED
    BY <2>1, <2>2
<1>4. Told'
  <2> SUFFICES ASSUME NEW v \in Workers, v = w PROVE ToldOf(v)'
    BY DEF Told, Solo
  <2>1. ToldOf(w)' <=>
          /\ pc'[w] = "result" /\ Hot(d)' => res'[w] \in {"succeeded", "interrupted"}
          /\ pc'[w] # "result" /\ enters'[d] # 0 => rt'[k] \notin {"running", "failed", "cancelled"}
          /\ pc'[w] # "result" => Live(d)' \subseteq {k}
    BY <1>0, <1>b DEF ToldOf
  <2> QED
    BY <1>2, <2>1
<1>5. Alone'
  <2> SUFFICES ASSUME NEW e \in Drafts PROVE AloneOf(e)'
    BY DEF Alone
  <2>1. CASE e = d
    <3>1. reserved'[d] = t /\ k[1] = t
      BY <1>0 DEF SendsKept
    <3> QED
      BY <1>2, <2>1, <3>1 DEF AloneOf
  <2>2. CASE e # d
    BY <1>2, <2>2 DEF AloneOf, SendsKept, Safe, Alone
  <2> QED
    BY <2>1, <2>2
<1>6. SentKept
  BY DEF SendsKept, SentKept
<1> QED
  BY <1>1, <1>3, <1>4, <1>5, <1>6 DEF Safe

\* The steps of the runtime and of the operator leave executors and tasks alone.
HandsOff == UNCHANGED <<status, evid, reserved, pc, job, no, res, todo>>

LEMMA HandsOffDiscipline ==
  ASSUME Safe, HandsOff
  PROVE  Discipline' /\ SentKept
BY DEF Safe, HandsOff, Discipline, SendReserved, Working, Recovering, AtWork, IsSend, SentKept

\* A step after which drafts are not hotter than before.
LEMMA CoolKeeps ==
  ASSUME RInv, Typed', Safe, HandsOff,
         \A d \in Drafts :
           /\ Live(d)' \subseteq Live(d) /\ enters'[d] \in {0, enters[d]}
           /\ Hot(d)' => sendStatus'[d] \in {"unknown", "sent", sendStatus[d]},
         \A k \in SendKeys :
           enters[DraftOf[k[1]]] # 0 /\ rt[k] \notin {"running", "failed", "cancelled"}
             => rt'[k] \notin {"running", "failed", "cancelled"}
  PROVE  Safe' /\ SentKept
<1>1. \A d \in Drafts : Hot(d)' => Hot(d)
  BY DEF Hot
<1>2. Guard'
  BY <1>1 DEF Safe, Guard, GuardOf, HandsOff
<1>3. Told'
  <2> SUFFICES ASSUME NEW w \in Workers, pc[w] \in Post, IsSend(job[w]) PROVE ToldOf(w)'
    BY DEF Told, IsSend, HandsOff
  <2>1. w \in Executors /\ AtWork(w)
    BY DEF Executors, AtWork
  <2>2. ToldOf(w) /\ DraftOf[job[w]] \in Drafts
    BY <2>1, WorkFacts DEF Safe, Told
  <2>3. pc[w] # "result" => Key(w) \in SendKeys /\ Key(w)[1] = job[w]
    BY <2>1 DEF Post, RInv, Typed, InHand, HasAttempt, HasJob, Key, SendKeys, Keys
  <2>4. Key(w)' = Key(w)
    BY DEF Key, HandsOff
  <2> QED
    BY <1>1, <2>2, <2>3, <2>4 DEF ToldOf, HandsOff
<1>4. Alone'
  BY DEF Safe, Alone, AloneOf, HandsOff
<1> QED
  BY <1>2, <1>3, <1>4, HandsOffDiscipline DEF Safe

\* Enter is pressed: by the only live send of the draft, and its worker has
\* not been told anything yet; or by a send that was in progress when the
\* operator marked the draft pending.
LEMMA EnterKeeps ==
  ASSUME RInv, Typed', Safe, NEW k \in Keys, PressEnter(k)
  PROVE  Safe' /\ SentKept
<1> DEFINE d == DraftOf[k[1]]
<1>0. /\ k \in SendKeys /\ rt[k] = "running" /\ rt' = [rt EXCEPT ![k] = "entered"]
      /\ stale' = stale /\ sendStatus' = sendStatus /\ HandsOff /\ d \in Drafts
      /\ rt \in [Keys -> Runtime!States] /\ enters \in [Drafts -> 0 .. 2]
      /\ enters' = [enters EXCEPT ![d] = IF k \in stale \/ @ = 2 THEN @ ELSE @ + 1]
  BY IdAssumption
     DEF PressEnter, Runtime!Enter, RtStep, taskVars, draftVars, localVars, HandsOff, Keys,
         RInv, Typed, TypeOK
<1>1. \A e \in Drafts : Live(e)' = Live(e) \ {k}
  BY <1>0 DEF Live, SendKeys, IsSend
<1>2. k \notin stale => k \in Live(d) /\ Live(d) = {k} /\ enters[d] = 0 /\ enters'[d] = 1
  BY <1>0 DEF Live, Safe, Alone, AloneOf
<1>3. \A e \in Drafts : e # d \/ k \in stale => Live(e)' = Live(e) /\ enters'[e] = enters[e]
  BY <1>0, <1>1 DEF Live
<1> HIDE DEF d
<1>4. \A e \in Drafts : Hot(e)' => Hot(e)
  BY <1>2, <1>3 DEF Hot
<1>5. Guard'
  BY <1>0, <1>4 DEF Safe, Guard, GuardOf, HandsOff
<1>6. Told'
  <2> SUFFICES ASSUME NEW w \in Workers, pc[w] \in Post, IsSend(job[w]) PROVE ToldOf(w)'
    BY <1>0 DEF Told, IsSend, HandsOff
  <2> DEFINE e == DraftOf[job[w]]
  <2>1. w \in Executors /\ AtWork(w)
    BY DEF Executors, AtWork
  <2>2. ToldOf(w) /\ e \in Drafts
    BY <2>1, WorkFacts DEF Safe, Told
  <2>3. pc[w] # "result" => Key(w) \in Keys
    BY <2>1 DEF Post, RInv, Typed, InHand, HasAttempt, HasJob, Key, Keys
  <2>4. Key(w)' = Key(w)
    BY <1>0 DEF Key, HandsOff
  <2>5. pc[w] # "result" /\ enters'[e] # 0 => rt'[Key(w)] \notin {"running", "failed", "cancelled"}
    <3>1. CASE e = d /\ k \notin stale
      <4>1. pc[w] # "result" => k = Key(w)
        BY <1>2, <2>2, <3>1 DEF ToldOf
      <4> QED
        BY <1>0, <4>1
    <3>2. CASE e # d \/ k \in stale
      BY <1>0, <1>3, <2>2, <2>3, <3>2 DEF ToldOf
    <3> QED
      BY <3>1, <3>2
  <2> QED
    BY <1>0, <1>1, <1>4, <2>2, <2>4, <2>5 DEF ToldOf, HandsOff
<1>7. Alone'
  <2> SUFFICES ASSUME NEW e \in Drafts PROVE AloneOf(e)'
    BY DEF Alone
  <2>1. CASE e = d /\ k \notin stale
    BY <1>1, <1>2, <2>1 DEF AloneOf
  <2>2. CASE e # d \/ k \in stale
    BY <1>0, <1>3, <2>2 DEF AloneOf, Safe, Alone, HandsOff
  <2> QED
    BY <2>1, <2>2
<1> QED
  BY <1>0, <1>5, <1>6, <1>7, HandsOffDiscipline DEF Safe

LEMMA EndKeeps ==
  ASSUME RInv, Typed', Safe, NEW k \in Keys, EndRuntimeTask(k)
  PROVE  Safe' /\ SentKept
<1>0. /\ enters' = enters /\ stale' = stale /\ sendStatus' = sendStatus /\ HandsOff
      /\ rt \in [Keys -> Runtime!States] /\ enters \in [Drafts -> 0 .. 2]
  BY DEF EndRuntimeTask, RtStep, taskVars, draftVars, localVars, HandsOff, RInv, Typed, TypeOK
<1>1. PICK s \in Runtime!Ends(k) : rt' = [rt EXCEPT ![k] = s]
  BY DEF EndRuntimeTask, Runtime!End
<1>2. s # "running" /\ (rt[k] # "running" => s \notin {"failed", "cancelled"})
  BY <1>1 DEF Runtime!Ends, Runtime!Entered, Runtime!NotEntered
<1>3. \A d \in Drafts : Live(d)' \subseteq Live(d)
  BY <1>0, <1>1, <1>2 DEF Live, SendKeys, IsSend
<1>4. \A l \in SendKeys : rt[l] \notin {"running", "failed", "cancelled"}
                          => rt'[l] \notin {"running", "failed", "cancelled"}
  BY <1>0, <1>1, <1>2 DEF SendKeys
<1> QED
  BY <1>0, <1>3, <1>4, CoolKeeps

LEMMA RestartKeeps ==
  ASSUME RInv, Typed', Safe, RuntimeRestart
  PROVE  Safe' /\ SentKept
<1>1. enters' = enters /\ sendStatus' = sendStatus /\ HandsOff /\ rt' = [k \in Keys |-> "none"]
  BY DEF RuntimeRestart, Runtime!Restart, RtStep, taskVars, draftVars, localVars, HandsOff
<1>2. \A k \in SendKeys : rt'[k] = "none"
  BY <1>1 DEF SendKeys
<1>3. \A d \in Drafts : Live(d)' = {}
  BY <1>2 DEF Live, SendKeys, IsSend
<1> QED
  BY <1>1, <1>2, <1>3, CoolKeeps

\* A draft marked pending cools off: what is still in progress for it is
\* counted as the operator's own doing.
LEMMA MarkKeeps ==
  ASSUME RInv, Typed', Safe, NEW d \in Drafts, NEW s \in {"sent", "pending"}, MarkDraft(d, s)
  PROVE  Safe' /\ SentKept
<1>0. /\ rt' = rt /\ HandsOff /\ sendStatus' = [sendStatus EXCEPT ![d] = s]
      /\ enters \in [Drafts -> 0 .. 2] /\ sendStatus \in [Drafts -> {"pending", "sent", "unknown"}]
  BY DEF MarkDraft, taskVars, localVars, HandsOff, RInv, Typed, TypeOK
<1>1. CASE s = "sent"
  <2>1. enters' = enters /\ stale' = stale
    BY <1>1 DEF MarkDraft
  <2>2. \A e \in Drafts : Live(e)' = Live(e)
    BY <1>0, <2>1 DEF Live, SendKeys, IsSend
  <2> QED
    BY <1>0, <1>1, <2>1, <2>2, CoolKeeps
<1>2. CASE s = "pending"
  <2>1. /\ enters' = [enters EXCEPT ![d] = 0]
        /\ stale' = stale \cup {k \in Keys : DraftOf[k[1]] = d /\ rt[k] = "running"}
    BY <1>2 DEF MarkDraft
  <2>2. \A e \in Drafts : Live(e)' \subseteq Live(e)
    BY <1>0, <2>1 DEF Live, SendKeys, IsSend
  <2>3. Live(d)' = {}
    BY <1>0, <2>1 DEF Live, SendKeys, IsSend
  <2>4. ~Hot(d)'
    BY <1>0, <2>1, <2>3 DEF Hot
  <2>5. \A e \in Drafts : Hot(e)' => sendStatus'[e] \in {"unknown", "sent", sendStatus[e]}
    BY <1>0, <2>4
  <2>6. \A e \in Drafts : enters'[e] \in {0, enters[e]}
    BY <1>0, <2>1
  <2> QED
    BY <1>0, <2>2, <2>5, <2>6, CoolKeeps
<1> QED
  BY <1>1, <1>2


\* What is left of the handlers' steps: an executor gives up its step, or takes
\* one that is none of a send's.
Moves(e) == (\A f \in Executors \ {e} : Stays(f)) /\ todo' = todo

LEMMA MovesLocal ==
  ASSUME Typed, NEW e \in Executors
  PROVE  /\ \A step \in WorkerPc :
              Goto(e, step) /\ UNCHANGED <<job, no, res, todo>>
                => Moves(e) /\ pc'[e] = step /\ job'[e] = job[e]
         /\ \A step \in WorkerPc :
              LocalStep(e, step) => Moves(e) /\ pc'[e] = step /\ job'[e] = job[e]
         /\ \A outcome \in Outcomes :
              Conclude(e, outcome) =>
                /\ Moves(e) /\ pc'[e] = "result" /\ job'[e] = job[e] /\ no'[e] = no[e]
                /\ res'[e] = outcome
         /\ Answered(e) => Moves(e) /\ pc'[e] = "idle"
         /\ Finish(e) => Moves(e) /\ pc'[e] \in {"idle", "release"}
<1>1. /\ pc \in [Executors -> WorkerPc \cup CallerPc] /\ job \in [Executors -> Tasks \cup {None}]
      /\ no \in [Executors -> 0 .. MaxAttempts] /\ res \in [Executors -> Outcomes \cup {None}]
  BY DEF Typed, TypeOK
<1>2. Answered(e) => Moves(e) /\ pc'[e] = "idle"
  BY <1>1 DEF Answered, Moves, Stays
<1>3. \A step \in WorkerPc :
        Goto(e, step) /\ UNCHANGED <<job, no, res, todo>>
          => Moves(e) /\ pc'[e] = step /\ job'[e] = job[e]
  BY <1>1 DEF Goto, Moves, Stays
<1>4. \A step \in WorkerPc :
        LocalStep(e, step) => Moves(e) /\ pc'[e] = step /\ job'[e] = job[e]
  BY <1>3 DEF LocalStep
<1>5. \A outcome \in Outcomes :
        Conclude(e, outcome) =>
          /\ Moves(e) /\ pc'[e] = "result" /\ job'[e] = job[e] /\ no'[e] = no[e]
          /\ res'[e] = outcome
  BY <1>1 DEF Conclude, Goto, Moves, Stays
<1>6. Finish(e) => Moves(e) /\ pc'[e] \in {"idle", "release"}
  BY <1>2, <1>4 DEF Finish, WorkerPc
<1> QED
  BY <1>2, <1>3, <1>4, <1>5, <1>6

\* The worker that moves has no send left to recover.
LEMMA MovesTodo ==
  ASSUME Safe, NEW e \in Executors, Moves(e), pc[e] # "recovering" \/ todo[e] = {}
  PROVE  TodoKept
BY DEF Safe, Discipline, Recovering, Moves, Stays, TodoKept, Executors

\* A paste is written, or nothing.
LEMMA PasteKept ==
  ASSUME RInv, NEW t \in Tasks, ~IsSend(t), NEW s, NEW proof,
         status' = status \/ status' = WithStatus(t, s),
         evid' = evid \/ evid' = [evid EXCEPT ![t] = proof],
         reserved' = reserved \/ reserved' = Released(t), sendStatus' = sendStatus
  PROVE  SendsKept
<1>1. /\ status \in [Tasks -> TaskStatus \cup Gone] /\ evid \in [Tasks -> Evidence]
      /\ reserved \in [Drafts -> Tasks \cup {None}] /\ DraftOf[t] \in Drafts /\ t # None
  BY IdAssumption, NoneAssumption DEF RInv, Typed, TypeOK
<1>2. reserved[DraftOf[t]] # t
  BY <1>1 DEF RInv, ReservedActive
<1>3. Released(t) = reserved
  BY <1>1, <1>2 DEF Released
<1> QED
  BY <1>1, <1>3 DEF SendsKept, WithStatus, IsSend

LEMMA LeaveKeeps ==
  ASSUME RInv, Typed', Safe, NEW e \in Executors, Moves(e),
         pc[e] # "recovering" \/ todo[e] = {}, SendsKept, RtKept, ~AtWork(e)'
  PROVE  Safe' /\ SentKept
<1>1. \A f \in Executors : AtWork(f)' => Stays(f)
  BY DEF Moves
<1> QED
  BY <1>1, MovesTodo, IdleKeeps DEF Idle

\* Nothing a send is about changes.
LEMMA NothingKeeps ==
  ASSUME RInv, Typed', Safe, SendsKept, RtKept, todo' = todo, \A e \in Executors : Stays(e)
  PROVE  Safe' /\ SentKept
<1>1. TodoKept
  BY DEF Safe, Discipline, Recovering, Stays, TodoKept, Executors
<1> QED
  BY <1>1, IdleKeeps DEF Idle

LEMMA SafeRequest ==
  ASSUME RInv, Typed', Safe, NEW c \in Callers,
         \/ \E b \in Batches : StartCheck(c, b) \/ PauseCheck(c, b) \/ CancelBatchCheck(c, b)
         \/ \E t \in Tasks : CancelTaskCheck(c, t) \/ RetryCheck(c, t) \/ RunTaskCheck(c, t)
  PROVE  Safe' /\ SentKept
<1>1. PICK op \in CallerPc, t \in Tasks \cup {None}, b \in Batches \cup {None} :
        Accept(c, op, t, b) /\ op \notin Pre \cup Post
  BY DEF StartCheck, PauseCheck, CancelBatchCheck, CancelTaskCheck, RetryCheck, RunTaskCheck,
         CallerPc, Pre, Post
<1>2. c \in Executors /\ pc[c] = "idle"
  BY <1>1 DEF Accept, Executors
<1>3. Moves(c) /\ ~AtWork(c)'
  BY <1>1, <1>2 DEF Accept, Moves, Stays, AtWork, RInv, Typed, TypeOK
<1>4. SendsKept /\ RtKept
  BY <1>1 DEF Accept, SendsKept, RtKept, taskVars, draftVars, runtimeVars
<1> QED
  BY <1>2, <1>3, <1>4, LeaveKeeps

\* Drafts are reserved for new sends when none of them is hot.
LEMMA CreateKeeps ==
  ASSUME RInv, Typed', Safe, NEW b \in Batches, CreateBatch(b)
  PROVE  Safe' /\ SentKept
<1>0. /\ \A e \in Executors : Stays(e) /\ todo' = todo
      /\ evid' = evid /\ sendStatus' = sendStatus /\ RtKept
      /\ status' = [t \in Tasks |-> IF BatchOf[t] = b THEN "pending" ELSE status[t]]
      /\ \A t \in Tasks : BatchOf[t] = b => status[t] \in Gone
  <2>1. bstatus[b] \in Gone
    BY DEF CreateBatch, NextId, Gone
  <2> QED
    BY <2>1 DEF CreateBatch, localVars, runtimeVars, Stays, RtKept, RInv, Consistent
<1>1. CASE b \notin SendBatches
  <2>1. SendsKept
    BY <1>0, <1>1 DEF CreateBatch, SendsKept, IsSend
  <2>2. todo' = todo
    BY DEF CreateBatch, localVars
  <2> QED
    BY <1>0, <2>1, <2>2, NothingKeeps
<1>2. CASE b \in SendBatches
  <2>1. \A t \in Tasks : BatchOf[t] = b => CanReserve(DraftOf[t]) /\ reserved'[DraftOf[t]] = t
    <3> SUFFICES ASSUME NEW t \in Tasks, BatchOf[t] = b
                 PROVE  CanReserve(DraftOf[t]) /\ reserved'[DraftOf[t]] = t
      OBVIOUS
    <3>1. t \in TasksOf(b) /\ DraftOf[t] \in Drafts
      BY IdAssumption DEF TasksOf
    <3>2. \A u \in TasksOf(b) : DraftOf[u] = DraftOf[t] => u = t
      BY <3>1 DEF CreateBatch
    <3>3. (CHOOSE u \in TasksOf(b) : DraftOf[u] = DraftOf[t]) = t
      BY <3>1, <3>2
    <3> QED
      BY <1>2, <3>1, <3>3 DEF CreateBatch
  <2>2. ASSUME NEW d \in Drafts, \A t \in Tasks : BatchOf[t] = b => DraftOf[t] # d
        PROVE  reserved'[d] = reserved[d]
    BY <1>2, <2>2 DEF CreateBatch, TasksOf
  <2>3. ASSUME NEW t \in Tasks, BatchOf[t] # b, reserved[DraftOf[t]] = t
        PROVE  reserved'[DraftOf[t]] = t
    <3>1. DraftOf[t] \in Drafts /\ t # None
      BY IdAssumption, NoneAssumption
    <3>2. \A u \in Tasks : BatchOf[u] = b => DraftOf[u] # DraftOf[t]
      BY <2>1, <2>3, <3>1 DEF CanReserve
    <3> QED
      BY <2>2, <2>3, <3>1, <3>2
  <2>4. SendReserved'
    <3> SUFFICES ASSUME NEW t \in Tasks, IsSend(t), status'[t] \in ActiveTask
                 PROVE  reserved'[DraftOf[t]] = t
      BY DEF SendReserved, IsSend
    <3>1. CASE BatchOf[t] = b
      BY <2>1, <3>1
    <3>2. CASE BatchOf[t] # b
      BY <1>0, <2>3, <3>2 DEF Safe, Discipline, SendReserved
    <3> QED
      BY <3>1, <3>2
  <2>5. \A t \in Tasks : status[t] \in Open => status'[t] = status[t]
    BY <1>0, StepNames
  <2>6. Working'
    <3> SUFFICES ASSUME NEW e \in Executors, AtWork(e)'
                 PROVE  /\ e \in Workers /\ status'[job'[e]] \in Open
                        /\ pc'[e] \in Post \cup {"attempted"} => evid'[job'[e]] \notin Denied
      BY DEF Working
    <3>1. Stays(e) /\ AtWork(e)
      BY <1>0 DEF Stays, AtWork, IsSend
    <3>2. job[e] \in Tasks
      BY <3>1, WorkFacts
    <3> QED
      BY <1>0, <2>5, <3>1, <3>2 DEF Safe, Discipline, Working, Stays
  <2>7. Recovering'
    <3>1. todo' = todo /\ \A w \in Workers : todo[w] \subseteq Tasks /\ pc'[w] = pc[w]
      BY <1>0 DEF CreateBatch, localVars, RInv, Typed, TypeOK
    <3> QED
      BY <2>5, <3>1 DEF Safe, Discipline, Recovering, IsSend
  <2>8. \A d \in Drafts : Hot(d) =>
          \/ reserved'[d] = None /\ sendStatus'[d] \in {"unknown", "sent"}
          \/ reserved[d] # None /\ reserved'[d] = reserved[d] /\ status'[reserved[d]] \in Open
    <3> SUFFICES ASSUME NEW d \in Drafts, Hot(d)
                 PROVE  \/ reserved'[d] = None /\ sendStatus'[d] \in {"unknown", "sent"}
                        \/ /\ reserved[d] # None /\ reserved'[d] = reserved[d]
                           /\ status'[reserved[d]] \in Open
      OBVIOUS
    <3>0. ~CanReserve(d)
      BY HotFacts
    <3>1. \A t \in Tasks : BatchOf[t] = b => DraftOf[t] # d
      BY <2>1, <3>0
    <3>2. reserved'[d] = reserved[d]
      BY <2>2, <3>1
    <3>3. CASE reserved[d] = None
      BY <1>0, <3>2, <3>3 DEF Safe, Guard, GuardOf
    <3>4. CASE reserved[d] # None
      BY <2>5, <3>2, <3>4, HotFacts
    <3> QED
      BY <3>3, <3>4
  <2>9. \A w \in Workers : AtWork(w)' => Stays(w)
    BY <1>0 DEF Executors
  <2>10. SentKept
    BY <1>0 DEF SentKept, Gone
  <2> QED
    BY <1>0, <2>4, <2>6, <2>7, <2>8, <2>9, <2>10, CalmKeeps DEF Safe, Discipline
<1> QED
  BY <1>1, <1>2

\* The tasks a cancelled batch drops have not been claimed; running ones stay open.
LEMMA CancelKeeps ==
  ASSUME RInv, Typed', Safe, NEW c \in Callers, CancelBatchCommit(c)
  PROVE  Safe' /\ SentKept
<1> DEFINE b == target[c]
           dropped == {t \in TasksOf(b) : status[t] = "pending"}
<1>0. /\ status' = [t \in Tasks |->
                      CASE t \in dropped -> "cancelled"
                        [] t \in TasksOf(b) \ dropped /\ status[t] = "running" -> "cancelling"
                        [] OTHER -> status[t]]
      /\ reserved' = [d \in Drafts |->
                        IF b \in SendBatches /\ reserved[d] \in dropped /\ DraftOf[reserved[d]] = d
                        THEN None ELSE reserved[d]]
      /\ Answered(c) /\ evid' = evid /\ sendStatus' = sendStatus /\ RtKept
  BY DEF CancelBatchCommit, CancelTasks, RtKept, runtimeVars
<1>1. \A t \in dropped : t \in Tasks /\ status[t] = "pending"
  BY DEF TasksOf
<1> HIDE DEF b, dropped
<1>2. c \in Executors /\ pc[c] = "cancel_batch"
  BY DEF CancelBatchCommit, CancelTasks, Executors
<1>3. Moves(c) /\ pc'[c] = "idle"
  BY <1>0, <1>2, MovesLocal DEF RInv
<1>4. ~AtWork(c)' /\ \A e \in Executors : AtWork(e)' => Stays(e)
  BY <1>3, StepNames DEF Moves, AtWork
<1>5. /\ \A t \in Tasks : status[t] \in Open => status'[t] \in Open
      /\ \A t \in Tasks : status'[t] \in ActiveTask => status[t] \in ActiveTask /\ t \notin dropped
      /\ \A t \in Tasks : status[t] = "succeeded" => status'[t] = "succeeded"
  BY <1>0, <1>1 DEF Open, ActiveTask
<1>6. \A d \in Drafts : reserved'[d] = reserved[d] \/ (reserved[d] \in dropped /\ reserved'[d] = None)
  BY <1>0
<1>7. SendReserved'
  <2> SUFFICES ASSUME NEW t \in Tasks, IsSend(t), status'[t] \in ActiveTask
               PROVE  reserved'[DraftOf[t]] = t
    BY DEF SendReserved, IsSend
  <2>1. reserved[DraftOf[t]] = t /\ t \notin dropped /\ DraftOf[t] \in Drafts
    BY <1>5, IdAssumption DEF Safe, Discipline, SendReserved
  <2> QED
    BY <1>6, <2>1
<1>8. Working'
  <2> SUFFICES ASSUME NEW e \in Executors, AtWork(e)'
               PROVE  /\ e \in Workers /\ status'[job'[e]] \in Open
                      /\ pc'[e] \in Post \cup {"attempted"} => evid'[job'[e]] \notin Denied
    BY DEF Working
  <2>1. Stays(e) /\ AtWork(e)
    BY <1>4 DEF Stays, AtWork, IsSend
  <2>2. job[e] \in Tasks
    BY <2>1, WorkFacts
  <2> QED
    BY <1>0, <1>5, <2>1, <2>2 DEF Safe, Discipline, Working, Stays
<1>9. Recovering'
  <2>1. TodoKept /\ \A w \in Workers : todo'[w] \subseteq Tasks
    BY <1>2, <1>3, MovesTodo DEF Typed, TypeOK
  <2> QED
    BY <1>5, <2>1 DEF Safe, Discipline, Recovering, TodoKept, IsSend
<1>10. \A d \in Drafts : Hot(d) =>
         \/ reserved'[d] = None /\ sendStatus'[d] \in {"unknown", "sent"}
         \/ reserved[d] # None /\ reserved'[d] = reserved[d] /\ status'[reserved[d]] \in Open
  <2> SUFFICES ASSUME NEW d \in Drafts, Hot(d)
               PROVE  \/ reserved'[d] = None /\ sendStatus'[d] \in {"unknown", "sent"}
                      \/ /\ reserved[d] # None /\ reserved'[d] = reserved[d]
                         /\ status'[reserved[d]] \in Open
    OBVIOUS
  <2>1. CASE reserved[d] = None
    BY <1>0, <1>1, <1>6, <2>1, NoneAssumption DEF Safe, Guard, GuardOf
  <2>2. CASE reserved[d] # None
    <3>1. reserved[d] \in Tasks /\ status[reserved[d]] \in Open
      BY <2>2, HotFacts
    <3> QED
      BY <1>1, <1>5, <1>6, <2>2, <3>1, StepNames
  <2> QED
    BY <2>1, <2>2
<1>11. \A w \in Workers : AtWork(w)' => Stays(w)
  BY <1>4 DEF Executors
<1>12. SentKept
  BY <1>5 DEF SentKept
<1> QED
  BY <1>0, <1>7, <1>8, <1>9, <1>10, <1>11, <1>12, CalmKeeps DEF Safe, Discipline

\* A send is retried only when its draft can be reserved, so nobody has the
\* draft's Enter pressed, or its task in hand.
LEMMA RetryKeeps ==
  ASSUME RInv, Typed', Safe, NEW c \in Callers, RetryCommit(c)
  PROVE  Safe' /\ SentKept
<1>0. /\ Answered(c) /\ evid' = evid /\ sendStatus' = sendStatus /\ RtKept
      /\ c \in Executors /\ pc[c] = "retry" /\ job[c] \in Tasks
  BY DEF RetryCommit, RtKept, runtimeVars, Executors, RInv, Typed, InHand, HasJob
<1>1. Moves(c) /\ pc'[c] = "idle"
  BY <1>0, MovesLocal DEF RInv
<1>2. ~AtWork(c)' /\ \A e \in Executors : AtWork(e)' => Stays(e)
  BY <1>1, StepNames DEF Moves, AtWork
<1> DEFINE t == job[c]
           d == DraftOf[t]
<1>3. CASE UNCHANGED <<status, reserved>>
  BY <1>0, <1>1, <1>2, <1>3, LeaveKeeps DEF SendsKept
<1>4. CASE ~IsSend(t) /\ status' = WithStatus(t, "pending") /\ reserved' = reserved
  BY <1>0, <1>1, <1>2, <1>4, PasteKept, LeaveKeeps
<1>5. CASE /\ IsSend(t) /\ CanReserve(d) /\ status' = WithStatus(t, "pending")
           /\ reserved' = [reserved EXCEPT ![d] = t]
  <2>1. /\ d \in Drafts /\ ~Hot(d) /\ t # None
        /\ reserved[d] = None /\ status[t] \notin ActiveTask /\ sendStatus[d] = "pending"
    <3>1. d \in Drafts /\ t # None
      BY <1>0, IdAssumption, NoneAssumption
    <3>2. ~Hot(d)
      BY <1>5, <3>1, HotFacts
    <3> QED
      BY <1>0, <1>5, <3>1, <3>2 DEF CanReserve, Safe, Discipline, SendReserved
  <2>2. /\ status'[t] \in {"pending"} \cup Gone /\ \A u \in Tasks \ {t} : status'[u] = status[u]
        /\ reserved'[d] = t /\ \A x \in Drafts \ {d} : reserved'[x] = reserved[x]
    BY <1>0, <1>5, <2>1 DEF WithStatus, RInv, Typed, TypeOK
  <2>3. SendReserved'
    <3> SUFFICES ASSUME NEW u \in Tasks, IsSend(u), status'[u] \in ActiveTask
                 PROVE  reserved'[DraftOf[u]] = u
      BY DEF SendReserved, IsSend
    <3>1. CASE u = t
      BY <2>2, <3>1
    <3>2. CASE u # t
      <4>1. reserved[DraftOf[u]] = u /\ DraftOf[u] \in Drafts /\ u # None
        BY <2>2, <3>2, IdAssumption, NoneAssumption DEF Safe, Discipline, SendReserved
      <4> QED
        BY <2>1, <2>2, <4>1
    <3> QED
      BY <3>1, <3>2
  <2>4. \A u \in Tasks : status[u] \in Open => status'[u] = status[u]
    BY <2>1, <2>2, StepNames
  <2>5. Working'
    <3> SUFFICES ASSUME NEW e \in Executors, AtWork(e)'
                 PROVE  /\ e \in Workers /\ status'[job'[e]] \in Open
                        /\ pc'[e] \in Post \cup {"attempted"} => evid'[job'[e]] \notin Denied
      BY DEF Working
    <3>1. Stays(e) /\ AtWork(e)
      BY <1>2 DEF Stays, AtWork, IsSend
    <3>2. job[e] \in Tasks
      BY <3>1, WorkFacts
    <3> QED
      BY <1>0, <2>4, <3>1, <3>2 DEF Safe, Discipline, Working, Stays
  <2>6. Recovering'
    <3>1. TodoKept /\ \A w \in Workers : todo'[w] \subseteq Tasks
      BY <1>0, <1>1, MovesTodo DEF Typed, TypeOK
    <3> QED
      BY <2>4, <3>1 DEF Safe, Discipline, Recovering, TodoKept, IsSend
  <2>7. \A x \in Drafts : Hot(x) =>
          \/ reserved'[x] = None /\ sendStatus'[x] \in {"unknown", "sent"}
          \/ reserved[x] # None /\ reserved'[x] = reserved[x] /\ status'[reserved[x]] \in Open
    <3> SUFFICES ASSUME NEW x \in Drafts, Hot(x)
                 PROVE  \/ reserved'[x] = None /\ sendStatus'[x] \in {"unknown", "sent"}
                        \/ /\ reserved[x] # None /\ reserved'[x] = reserved[x]
                           /\ status'[reserved[x]] \in Open
      OBVIOUS
    <3>1. x # d
      BY <2>1
    <3>2. reserved'[x] = reserved[x]
      BY <2>2, <3>1
    <3>3. CASE reserved[x] = None
      BY <1>0, <3>2, <3>3 DEF Safe, Guard, GuardOf
    <3>4. CASE reserved[x] # None
      BY <2>4, <3>2, <3>4, HotFacts
    <3> QED
      BY <3>3, <3>4
  <2>8. \A w \in Workers : AtWork(w)' => Stays(w)
    BY <1>2 DEF Executors
  <2>9. SentKept
    BY <2>1, <2>2 DEF SentKept
  <2> QED
    BY <1>0, <2>3, <2>5, <2>6, <2>7, <2>8, <2>9, CalmKeeps DEF Safe, Discipline
<1> QED
  BY <1>3, <1>4, <1>5 DEF RetryCommit

LEMMA SafeCommit ==
  ASSUME Solo, RInv, Typed', Safe, NEW c \in Callers,
         \/ StartCommit(c) \/ PauseCommit(c) \/ CancelBatchCommit(c)
         \/ CancelTaskCommit(c) \/ RetryCommit(c) \/ RunTaskCommit(c)
  PROVE  Safe' /\ SentKept
<1>0. c \in Executors /\ Typed
  BY DEF Executors, RInv
<1>1. CASE StartCommit(c) \/ PauseCommit(c)
  <2>1. /\ Answered(c) /\ pc[c] # "recovering" /\ SendsKept /\ RtKept
    BY <1>1 DEF StartCommit, PauseCommit, SendsKept, RtKept, taskVars, draftVars, runtimeVars
  <2>2. Moves(c) /\ ~AtWork(c)'
    BY <1>0, <2>1, MovesLocal, StepNames DEF AtWork
  <2> QED
    BY <1>0, <2>1, <2>2, LeaveKeeps
<1>2. ~CancelTaskCommit(c)
  BY DEF CancelTaskCommit, RInv, Hands, Solo
<1>3. CASE RunTaskCommit(c)
  <2>1. /\ job[c] \in Tasks /\ ~IsSend(job[c]) /\ pc[c] = "run_task" /\ RtKept
        /\ status' = WithStatus(job[c], "running") /\ evid' = evid
        /\ reserved' = reserved /\ sendStatus' = sendStatus
    BY <1>0, <1>3
       DEF RunTaskCommit, RInv, Hands, Typed, InHand, HasJob, draftVars, runtimeVars, RtKept
  <2>2. SendsKept
    BY <2>1, PasteKept
  <2>3. Moves(c) /\ ~AtWork(c)'
    <3>1. CASE Answered(c)
      BY <1>0, <3>1, MovesLocal, StepNames DEF AtWork
    <3>2. CASE ~Answered(c)
      <4>1. /\ pc' = [pc EXCEPT ![c] = "ready"] /\ no' = [no EXCEPT ![c] = attempts[job[c]]]
            /\ job' = job /\ res' = res /\ todo' = todo
        BY <1>3, <3>2 DEF RunTaskCommit
      <4>2. Moves(c)
        BY <4>1, <1>0 DEF Moves, Stays, Typed, TypeOK
      <4> QED
        BY <4>1, <4>2, <1>0, StepNames DEF AtWork, Typed, TypeOK
    <3> QED
      BY <3>1, <3>2
  <2> QED
    BY <1>0, <2>1, <2>2, <2>3, LeaveKeeps
<1> QED
  BY <1>1, <1>2, <1>3, CancelKeeps, RetryKeeps

\* Only settled tasks are cleared: nobody works on them, or has them to recover.
LEMMA ClearKeeps ==
  ASSUME RInv, Typed', Safe, ClearBatches
  PROVE  Safe' /\ SentKept
<1>0. /\ \A e \in Executors : Stays(e)
      /\ todo' = todo /\ reserved' = reserved /\ sendStatus' = sendStatus /\ RtKept
      /\ \A t \in Tasks : evid'[t] \in Denied => evid[t] \in Denied
  BY EvidenceNames DEF ClearBatches, localVars, draftVars, runtimeVars, Stays, RtKept
<1>1. /\ \A t \in Tasks : status'[t] = status[t] \/ status'[t] \in Gone
      /\ \A t \in Tasks : status[t] \in ActiveTask => status'[t] = status[t]
  BY Disjoint DEF ClearBatches, RInv, Consistent, Gone
<1>2. SendReserved'
  BY <1>0, <1>1, Disjoint DEF Safe, Discipline, SendReserved, IsSend, ActiveTask, Gone
<1>3. Working'
  <2> SUFFICES ASSUME NEW e \in Executors, AtWork(e)'
               PROVE  /\ e \in Workers /\ status'[job'[e]] \in Open
                      /\ pc'[e] \in Post \cup {"attempted"} => evid'[job'[e]] \notin Denied
    BY DEF Working
  <2>1. Stays(e) /\ AtWork(e)
    BY <1>0 DEF Stays, AtWork, IsSend
  <2>2. job[e] \in Tasks
    BY <2>1, WorkFacts
  <2> QED
    BY <1>0, <1>1, <2>1, <2>2, StepNames DEF Safe, Discipline, Working, Stays
<1>4. Recovering'
  <2>1. \A w \in Workers : todo[w] \subseteq Tasks /\ pc'[w] = pc[w]
    BY DEF ClearBatches, localVars, RInv, Typed, TypeOK
  <2> QED
    BY <1>0, <1>1, <2>1, StepNames DEF Safe, Discipline, Recovering, IsSend
<1>5. \A d \in Drafts : Hot(d) =>
        \/ reserved'[d] = None /\ sendStatus'[d] \in {"unknown", "sent"}
        \/ reserved[d] # None /\ reserved'[d] = reserved[d] /\ status'[reserved[d]] \in Open
  <2> SUFFICES ASSUME NEW d \in Drafts, Hot(d), reserved[d] # None
               PROVE  status'[reserved[d]] \in Open
    BY <1>0 DEF Safe, Guard, GuardOf
  <2> QED
    BY <1>1, HotFacts, StepNames
<1>6. \A w \in Workers : AtWork(w)' => Stays(w)
  BY <1>0 DEF Executors
<1>7. SentKept
  BY <1>1 DEF SentKept
<1> QED
  BY <1>0, <1>2, <1>3, <1>4, <1>5, <1>6, <1>7, CalmKeeps DEF Safe, Discipline

LEMMA SafeApi ==
  ASSUME Solo, RInv, Typed', Safe, ApiStep
  PROVE  Safe' /\ SentKept
BY ClearKeeps, CreateKeeps, MarkKeeps, SafeRequest, SafeCommit DEF ApiStep

\* The result of a send that was done with is recorded: if its draft is hot,
\* with a mark that guards it.
LEMMA ResultKeeps ==
  ASSUME Solo, RInv, Typed', Safe, NEW e \in Executors, IsSend(job[e]), pc[e] = "result",
         NEW s \in SettledTask, NEW m, NEW proof, Record(job[e], no[e], s, m, proof), Finish(e),
         res[e] \in {"succeeded", "interrupted"} => m \in {"unknown", "sent"}, RtKept
  PROVE  Safe' /\ SentKept
<1>1. AtWork(e)
  BY DEF AtWork, Post
<1>2. PICK t \in Tasks, d \in Drafts : t = job[e] /\ d = DraftOf[t]
  BY <1>1, WorkFacts
<1>3. /\ e \in Workers /\ status[t] \in Open /\ IsSend(t) /\ Typed
  BY <1>1, <1>2 DEF Safe, Discipline, Working, RInv
<1>4. /\ Moves(e) /\ pc'[e] \in {"idle", "release"} /\ pc[e] # "recovering"
  BY <1>3, MovesLocal
<1>5. /\ status' = WithStatus(t, s) /\ reserved' = Released(t)
      /\ \E p : evid' = [evid EXCEPT ![t] = p]
      /\ sendStatus' = [sendStatus EXCEPT ![d] = m]
  BY <1>2, <1>3 DEF Record
<1>6. /\ \A u \in Tasks \ {t} : evid'[u] = evid[u]
      /\ \A x \in Drafts \ {d} : sendStatus'[x] = sendStatus[x]
      /\ sendStatus'[d] = m
  BY <1>3, <1>5 DEF Typed, TypeOK
<1>7. Hot(d) => sendStatus'[d] \in {"unknown", "sent"}
  <2>1. Hot(d) => res[e] \in {"succeeded", "interrupted"}
    BY <1>2, <1>3 DEF Safe, Told, ToldOf, Post
  <2> QED
    BY <1>6, <2>1
<1>8. \A f \in Executors : ~AtWork(f)'
  <2>1. ~AtWork(e)'
    BY <1>4, StepNames DEF AtWork
  <2>2. \A f \in Executors \ {e} : ~AtWork(f)
    BY <1>3 DEF Safe, Discipline, Working, Solo
  <2> QED
    BY <1>4, <2>1, <2>2 DEF Moves, Stays, AtWork, IsSend
<1>9. \A w \in Workers : \A u \in todo'[w] : ~IsSend(u)
  BY <1>3, <1>4 DEF Safe, Discipline, Recovering, Moves, Solo
<1> QED
  BY <1>2, <1>3, <1>5, <1>6, <1>7, <1>8, <1>9, SettleKeeps

LEMMA SafeRun ==
  ASSUME Solo, RInv, Typed', Safe, NEW e \in Executors, RunStep(e)
  PROVE  Safe' /\ SentKept
<1>0. Typed
  BY DEF RInv
<1>1. CASE PasteAttempt(e)
  <2>1. /\ job[e] \in Tasks /\ ~IsSend(job[e]) /\ pc[e] = "ready" /\ RtKept
        /\ pc' = [pc EXCEPT ![e] = "attempted"] /\ no' = [no EXCEPT ![e] = no[e] + 1]
        /\ job' = job /\ res' = res /\ todo' = todo
        /\ status' = status /\ evid' = [evid EXCEPT ![job[e]] = "nothing"]
        /\ reserved' = reserved /\ sendStatus' = sendStatus
    BY <1>0, <1>1
       DEF PasteAttempt, InsertAttempt, WriteAttempt, Goto, RInv, Hands, Typed, InHand,
           HasJob, draftVars, runtimeVars, RtKept
  <2>2. SendsKept
    BY <2>1, PasteKept
  <2>3. Moves(e) /\ ~AtWork(e)'
    BY <1>0, <2>1 DEF Moves, Stays, AtWork, IsSend, Typed, TypeOK
  <2> QED
    BY <2>1, <2>2, <2>3, LeaveKeeps
<1>2. CASE AttemptFailed(e)
  <2>1. /\ job[e] \in Tasks /\ pc[e] \in {"ready", "send_started"} /\ Finish(e) /\ RtKept
        /\ evid' = evid /\ reserved' = reserved /\ sendStatus' = sendStatus
    BY <1>0, <1>2 DEF AttemptFailed, Typed, InHand, HasJob, draftVars, runtimeVars, RtKept
  <2>2. SendsKept
    <3>1. CASE status' = status
      BY <2>1, <3>1 DEF SendsKept
    <3>2. CASE pc[e] = "ready" /\ status' = WithStatus(job[e], "interrupted")
      <4>1. ~IsSend(job[e])
        BY <3>2 DEF RInv, Hands
      <4> QED
        BY <2>1, <3>2, <4>1, PasteKept
    <3> QED
      BY <1>2, <3>1, <3>2 DEF AttemptFailed
  <2>3. Moves(e) /\ ~AtWork(e)'
    BY <1>0, <2>1, MovesLocal, StepNames DEF AtWork
  <2> QED
    BY <2>1, <2>2, <2>3, LeaveKeeps
<1>3. CASE CallPaste(e)
  <2>1. /\ ~IsSend(job[e]) /\ pc[e] = "attempted" /\ Key(e) \notin SendKeys
        /\ status' = status /\ evid' = evid /\ reserved' = reserved /\ sendStatus' = sendStatus
        /\ enters' = enters /\ stale' = stale
    BY <1>3 DEF CallPaste, Key, SendKeys, taskVars, draftVars
  <2>2. \E outcome \in Outcomes : Conclude(e, outcome)
    BY <1>3 DEF CallPaste, Outcomes
  <2>3. Moves(e) /\ ~AtWork(e)'
    BY <1>0, <2>1, <2>2, MovesLocal DEF AtWork, IsSend
  <2>4. \A k \in SendKeys : rt'[k] = rt[k]
    BY <1>0, <1>3, <2>1 DEF CallPaste, Accepted, Runtime!Accept, Typed, TypeOK, SendKeys
  <2> QED
    BY <2>1, <2>3, <2>4, LeaveKeeps DEF SendsKept, RtKept
<1>4. CASE Persist(e) \/ PersistFallback(e)
  <2>1. /\ job[e] \in Tasks /\ pc[e] = "result" /\ res[e] \in Outcomes /\ Finish(e) /\ RtKept
    BY <1>0, <1>4 DEF Persist, PersistFallback, Typed, InHand, HasJob, runtimeVars, RtKept
  <2>2. Moves(e) /\ ~AtWork(e)'
    BY <1>0, <2>1, MovesLocal, StepNames DEF AtWork
  <2>3. CASE UNCHANGED <<status, evid, reserved, sendStatus>>
    BY <2>1, <2>2, <2>3, LeaveKeeps DEF SendsKept
  <2>4. CASE ~IsSend(job[e]) /\ \E s \in TaskStatus : \E m, proof : Record(job[e], no[e], s, m, proof)
    <3>1. SendsKept
      BY <2>1, <2>4, PasteKept DEF Record
    <3> QED
      BY <2>1, <2>2, <3>1, LeaveKeeps
  <2>5. CASE IsSend(job[e]) /\ Persist(e) /\ ~Fenced(e)
    <3> DEFINE s == TaskStatusFor(res[e])
    <3>1. /\ s \in SettledTask
          /\ res[e] \in {"succeeded", "interrupted"} => DraftAfter(s) \in {"unknown", "sent"}
      BY <2>1 DEF TaskStatusFor, Outcomes, SettledTask, DraftAfter
    <3>2. Record(job[e], no[e], s, DraftAfter(s), ProofOf(res[e]))
      BY <2>5 DEF Persist
    <3> HIDE DEF s
    <3> QED
      BY <2>1, <2>5, <3>1, <3>2, ResultKeeps
  <2>6. CASE IsSend(job[e]) /\ PersistFallback(e) /\ ~Fenced(e)
    <3> DEFINE m == FallbackMark(ProofOf(res[e]))
    <3>1. /\ "interrupted" \in SettledTask
          /\ res[e] \in {"succeeded", "interrupted"} => m \in {"unknown", "sent"}
      BY FallbackMarkType, ProofOfDenies DEF SettledTask
    <3>2. Record(job[e], no[e], "interrupted", m, ProofOf(res[e]))
      BY <2>6 DEF PersistFallback
    <3> HIDE DEF m
    <3> QED
      BY <2>1, <2>6, <3>1, <3>2, ResultKeeps
  <2>7. TaskStatusFor(res[e]) \in TaskStatus /\ "interrupted" \in TaskStatus
    BY <2>1, TaskStatusForType, StatusNames
  <2>8. Fenced(e) => UNCHANGED <<status, evid, reserved, sendStatus>>
    BY <1>4 DEF Persist, PersistFallback, draftVars
  <2>9. ~Fenced(e) => \E s \in TaskStatus : \E m, proof : Record(job[e], no[e], s, m, proof)
    BY <1>4, <2>7 DEF Persist, PersistFallback
  <2> QED
    BY <1>4, <2>3, <2>4, <2>5, <2>6, <2>8, <2>9
<1>5. CASE PersistLost(e)
  <2>1. pc[e] = "result" /\ Finish(e) /\ SendsKept /\ RtKept
    BY <1>5 DEF PersistLost, SendsKept, RtKept, taskVars, draftVars, runtimeVars
  <2>2. Moves(e) /\ ~AtWork(e)'
    BY <1>0, <2>1, MovesLocal, StepNames DEF AtWork
  <2> QED
    BY <2>1, <2>2, LeaveKeeps
<1> QED
  BY <1>1, <1>2, <1>3, <1>4, <1>5 DEF RunStep

\* Recovery looks at every task that did not end.
LEMMA StartKeeps ==
  ASSUME RInv, Typed', Safe, NEW w \in Workers, Start(w)
  PROVE  Safe' /\ SentKept
<1>0. w \in Executors /\ Typed
  BY DEF Executors, RInv
<1>1. /\ pc' = [pc EXCEPT ![w] = "recovering"] /\ job' = job /\ no' = no /\ res' = res
      /\ todo' = [todo EXCEPT ![w] = Unfinished] /\ pc[w] = "down"
      /\ status' = status /\ evid' = evid /\ reserved' = reserved /\ sendStatus' = sendStatus
      /\ RtKept
  BY DEF Start, Goto, taskVars, draftVars, runtimeVars, RtKept
<1>2. \A e \in Executors : AtWork(e)' => Stays(e) /\ AtWork(e)
  BY <1>0, <1>1, StepNames DEF Stays, AtWork, IsSend, Typed, TypeOK
<1>3. SendReserved'
  BY <1>1 DEF Safe, Discipline, SendReserved, IsSend
<1>4. Working'
  BY <1>1, <1>2 DEF Working, Stays, Safe, Discipline
<1>5. Recovering'
  <2> SUFFICES ASSUME NEW v \in Workers, NEW t \in todo'[v], IsSend(t)
               PROVE  pc'[v] = "recovering" /\ status'[t] \in Open
    BY DEF Recovering, IsSend
  <2>1. CASE v = w
    BY <1>0, <1>1, <2>1 DEF Unfinished, Open, Typed, TypeOK
  <2>2. CASE v # w
    BY <1>0, <1>1, <2>2 DEF Safe, Discipline, Recovering, Typed, TypeOK
  <2> QED
    BY <2>1, <2>2
<1>6. \A d \in Drafts : Hot(d) =>
        \/ reserved'[d] = None /\ sendStatus'[d] \in {"unknown", "sent"}
        \/ reserved[d] # None /\ reserved'[d] = reserved[d] /\ status'[reserved[d]] \in Open
  BY <1>1, HotFacts DEF Safe, Guard, GuardOf
<1>7. \A v \in Workers : AtWork(v)' => Stays(v)
  BY <1>2 DEF Executors
<1>8. SentKept
  BY <1>1 DEF SentKept
<1> QED
  BY <1>1, <1>3, <1>4, <1>5, <1>6, <1>7, <1>8, CalmKeeps DEF Safe, Discipline

\* Recovery settles a send: proof that Enter was not pressed is believed only
\* when the draft is not hot.
LEMMA RecoverKeeps ==
  ASSUME Solo, RInv, Typed', Safe, NEW w \in Workers, NEW t \in Tasks,
         Reconcile(w, t) \/ ReconcileFallback(w, t)
  PROVE  Safe' /\ SentKept
<1>0. w \in Executors /\ Typed
  BY DEF Executors, RInv
<1>1. PICK s \in SettledTask, m \in {"sent", "pending", "unknown"} :
        RecoverTask(w, t, s, m) /\ (m \in {"unknown", "sent"} \/ evid[t] \in Denied)
  <2>1. CASE Reconcile(w, t)
    BY <2>1, RecoveredAsType, DraftAfterType DEF Reconcile
  <2>2. CASE ReconcileFallback(w, t)
    BY <2>2, FallbackMarkType DEF ReconcileFallback, SettledTask
  <2> QED
    BY <2>1, <2>2
<1>2. /\ status' = WithStatus(t, s) /\ evid' = evid /\ RtKept
      /\ sendStatus' = IF IsSend(t) THEN [sendStatus EXCEPT ![DraftOf[t]] = m] ELSE sendStatus
      /\ reserved' = IF IsSend(t) THEN Released(t) ELSE reserved
      /\ todo' = [todo EXCEPT ![w] = @ \ {t}]
      /\ t \in todo[w] /\ pc[w] = "recovering"
      /\ pc' = pc /\ job' = job /\ no' = no /\ res' = res
  BY <1>1 DEF RecoverTask, runtimeVars, RtKept
<1>3. todo'[w] = todo[w] \ {t} /\ \A v \in Workers \ {w} : todo'[v] = todo[v]
  BY <1>0, <1>2 DEF Typed, TypeOK
<1>4. \A e \in Executors : Stays(e)
  BY <1>2 DEF Stays
<1>5. CASE ~IsSend(t)
  <2>1. SendsKept
    BY <1>2, <1>5, PasteKept
  <2>2. TodoKept
    BY <1>2, <1>3 DEF TodoKept
  <2> QED
    BY <1>2, <1>4, <2>1, <2>2, IdleKeeps DEF Idle
<1>6. CASE IsSend(t)
  <2>1. /\ status[t] \in Open /\ DraftOf[t] \in Drafts /\ reserved[DraftOf[t]] = t /\ t # None
    BY <1>2, <1>6, IdAssumption, NoneAssumption, StepNames
       DEF Safe, Discipline, Recovering, SendReserved
  <2>2. Hot(DraftOf[t]) => sendStatus'[DraftOf[t]] \in {"unknown", "sent"}
    <3>1. Hot(DraftOf[t]) => evid[t] \notin Denied
      BY <2>1, HotFacts
    <3> QED
      BY <1>0, <1>1, <1>2, <1>6, <2>1, <3>1 DEF Typed, TypeOK
  <2>3. \A e \in Executors : ~AtWork(e)'
    <3>1. \A e \in Executors : ~AtWork(e)
      BY <1>2, StepNames DEF Safe, Discipline, Working, Solo, AtWork
    <3> QED
      BY <1>2, <3>1 DEF AtWork, IsSend
  <2>4. \A v \in Workers : \A u \in todo'[v] : IsSend(u) => u # t /\ u \in todo[v] /\ pc'[v] = pc[v]
    BY <1>2, <1>3 DEF Solo
  <2>5. \A d \in Drafts \ {DraftOf[t]} : sendStatus'[d] = sendStatus[d]
    BY <1>0, <1>2, <1>6 DEF Typed, TypeOK
  <2> QED
    BY <1>2, <1>6, <2>1, <2>2, <2>3, <2>4, <2>5, SettleKeeps
<1> QED
  BY <1>5, <1>6

\* The steps of the worker up to its call.
LEMMA BeforeKeeps ==
  ASSUME Solo, RInv, Typed', Safe, NEW w \in Workers,
         Claim(w) \/ ReadTask(w) \/ CancelClaimed(w) \/ SendStarted(w) \/ SendAttempt(w)
  PROVE  Safe' /\ SentKept
<1>0. /\ w \in Executors /\ Typed
      /\ pc \in [Executors -> WorkerPc \cup CallerPc] /\ job \in [Executors -> Tasks \cup {None}]
      /\ no \in [Executors -> 0 .. MaxAttempts] /\ status \in [Tasks -> TaskStatus \cup Gone]
      /\ evid \in [Tasks -> Evidence]
  BY DEF Executors, RInv, Typed, TypeOK
<1>1. CASE Claim(w)
  <2>1. PICK t \in Claimable : /\ status' = [status EXCEPT ![t] = "running"]
                               /\ job' = [job EXCEPT ![w] = t]
    BY <1>1 DEF Claim
  <2>2. /\ t \in Tasks /\ status[t] = "pending" /\ pc[w] = "idle"
        /\ pc' = [pc EXCEPT ![w] = "claimed"] /\ no' = no /\ res' = res /\ todo' = todo
        /\ evid' = evid /\ reserved' = reserved /\ sendStatus' = sendStatus /\ RtKept
    BY <1>1 DEF Claim, Goto, Claimable, draftVars, runtimeVars, RtKept
  <2>3. Moves(w) /\ pc'[w] = "claimed" /\ job'[w] = t
    BY <1>0, <2>1, <2>2 DEF Moves, Stays
  <2>4. TodoKept
    BY <1>0, <2>2, <2>3, MovesTodo
  <2>5. status'[t] = "running" /\ \A u \in Tasks \ {t} : status'[u] = status[u]
    BY <1>0, <2>1, <2>2
  <2>6. CASE ~IsSend(t)
    <3>1. status' = WithStatus(t, "running")
      BY <2>1, <2>2 DEF WithStatus, Gone
    <3>2. SendsKept
      BY <2>2, <2>6, <3>1, PasteKept
    <3>3. ~AtWork(w)'
      BY <2>3, <2>6 DEF AtWork, IsSend
    <3> QED
      BY <1>0, <2>2, <2>3, <3>2, <3>3, LeaveKeeps
  <2>7. CASE IsSend(t)
    <3>1. reserved[DraftOf[t]] = t /\ DraftOf[t] \in Drafts /\ t # None
      BY <2>2, <2>7, IdAssumption, NoneAssumption DEF Safe, Discipline, SendReserved, ActiveTask
    <3>2. ~Hot(DraftOf[t])
      <4> SUFFICES ASSUME Hot(DraftOf[t]) PROVE FALSE
        OBVIOUS
      <4>1. status[reserved[DraftOf[t]]] \in Open
        BY <3>1, HotFacts
      <4> QED
        BY <2>2, <3>1, <4>1, StepNames
    <3>3. pc'[w] \in Pre /\ pc'[w] # "attempted" /\ status'[t] \in Open /\ status[t] \in ActiveTask
      BY <2>2, <2>3, <2>5 DEF Pre, Open, ActiveTask
    <3> QED
      BY <2>2, <2>3, <2>4, <2>5, <2>7, <3>2, <3>3, PrepareKeeps DEF Moves
  <2> QED
    BY <2>6, <2>7
<1>2. CASE ReadTask(w) \/ CancelClaimed(w) \/ SendStarted(w) \/ SendAttempt(w)
  <2>1. PICK t \in Tasks : t = job[w]
    BY <1>0, <1>2
       DEF ReadTask, CancelClaimed, SendStarted, SendAttempt, Typed, InHand, HasJob
  <2>2. /\ pc[w] \in Pre /\ job' = job /\ sendStatus' = sendStatus /\ RtKept
        /\ Moves(w) /\ job'[w] = t /\ TodoKept
    <3>1. pc[w] \in Pre /\ job' = job /\ sendStatus' = sendStatus /\ RtKept
      BY <1>2
         DEF ReadTask, CancelClaimed, SendStarted, SendAttempt, InsertAttempt, WriteAttempt,
             LocalStep, Pre, draftVars, runtimeVars, RtKept
    <3>2. Moves(w)
      <4>1. CASE ReadTask(w)
        BY <1>0, <4>1 DEF ReadTask, Goto, Moves, Stays
      <4>2. CASE CancelClaimed(w) \/ SendStarted(w)
        BY <1>0, <4>2, MovesLocal DEF CancelClaimed, SendStarted, WorkerPc
      <4>3. CASE SendAttempt(w)
        BY <1>0, <4>3 DEF SendAttempt, InsertAttempt, WriteAttempt, Goto, Moves, Stays
      <4> QED
        BY <1>2, <4>1, <4>2, <4>3
    <3> QED
      BY <1>0, <2>1, <3>1, <3>2, MovesTodo, StepNames
  <2>3. CASE ~IsSend(t)
    <3>1. ~AtWork(w)'
      BY <2>2, <2>3 DEF AtWork, IsSend
    <3>2. SendsKept
      <4>1. CASE ReadTask(w)
        BY <4>1 DEF ReadTask, SendsKept, taskVars, draftVars
      <4>2. CASE CancelClaimed(w)
        <5>1. status' = WithStatus(t, "cancelled") /\ evid' = evid /\ reserved' = Released(t)
          BY <2>1, <4>2 DEF CancelClaimed
        <5> QED
          BY <2>2, <2>3, <5>1, PasteKept
      <4>3. CASE SendStarted(w)
        <5>1. status' = WithStatus(t, "running") /\ evid' = evid /\ reserved' = reserved
          BY <2>1, <4>3 DEF SendStarted, draftVars
        <5> QED
          BY <2>2, <2>3, <5>1, PasteKept
      <4>4. CASE SendAttempt(w)
        <5>1. status' = status /\ evid' = [evid EXCEPT ![t] = "nothing"] /\ reserved' = reserved
          BY <2>1, <4>4 DEF SendAttempt, InsertAttempt, WriteAttempt, draftVars
        <5> QED
          BY <2>2, <2>3, <5>1, PasteKept
      <4> QED
        BY <1>2, <4>1, <4>2, <4>3, <4>4
    <3> QED
      BY <1>0, <2>2, <3>1, <3>2, LeaveKeeps, StepNames
  <2>4. CASE IsSend(t)
    <3>1. /\ AtWork(w) /\ status[t] \in Open /\ ~Hot(DraftOf[t]) /\ status[t] \in ActiveTask
      BY <1>0, <2>1, <2>2, <2>4, WorkFacts, StepNames DEF AtWork, Safe, Discipline, Working
    <3>2. CASE CancelClaimed(w)
      <4>1. /\ status' = WithStatus(t, "cancelled") /\ evid' = evid /\ reserved' = Released(t)
            /\ pc'[w] = "release" /\ "cancelled" \in SettledTask
        BY <1>0, <2>1, <3>2, MovesLocal DEF CancelClaimed, WorkerPc, SettledTask
      <4>2. \A e \in Executors : ~AtWork(e)'
        <5>1. ~AtWork(w)'
          BY <4>1, StepNames DEF AtWork
        <5>2. \A e \in Executors \ {w} : ~AtWork(e)
          BY DEF Safe, Discipline, Working, Solo
        <5> QED
          BY <2>2, <5>1, <5>2 DEF Moves, Stays, AtWork, IsSend
      <4>3. \A v \in Workers : \A u \in todo'[v] : ~IsSend(u)
        BY <2>2, StepNames DEF Safe, Discipline, Recovering, Moves, Solo
      <4> QED
        BY <2>2, <2>4, <3>1, <4>1, <4>2, <4>3, SettleKeeps
    <3>3. CASE SendStarted(w)
      <4>1. /\ status' = WithStatus(t, "running") /\ evid' = evid /\ reserved' = reserved
            /\ pc'[w] = "send_started"
        BY <1>0, <2>1, <3>3, MovesLocal DEF SendStarted, WorkerPc, draftVars
      <4>2. status'[t] = "running" /\ \A u \in Tasks \ {t} : status'[u] = status[u]
        BY <1>0, <3>1, <4>1, StepNames DEF WithStatus
      <4>3. pc'[w] \in Pre /\ pc'[w] # "attempted" /\ status'[t] \in Open
        BY <4>1, <4>2 DEF Pre, Open
      <4> QED
        BY <2>2, <2>4, <3>1, <4>1, <4>2, <4>3, PrepareKeeps DEF Moves
    <3>4. CASE SendAttempt(w)
      <4>1. /\ status' = status /\ evid' = [evid EXCEPT ![t] = "nothing"] /\ reserved' = reserved
            /\ pc'[w] = "attempted"
        BY <1>0, <2>1, <3>4 DEF SendAttempt, InsertAttempt, WriteAttempt, Goto, draftVars
      <4>2. evid'[t] \notin Denied /\ \A u \in Tasks : evid'[u] \in Denied => evid[u] \in Denied
        BY <1>0, <4>1, EvidenceNames
      <4>3. pc'[w] \in Pre
        BY <4>1 DEF Pre
      <4> QED
        BY <2>2, <2>4, <3>1, <4>1, <4>2, <4>3, PrepareKeeps DEF Moves
    <3>5. CASE ReadTask(w)
      <4>1. /\ status' = status /\ evid' = evid /\ reserved' = reserved
            /\ pc'[w] \in {"send_ready", "cancel_found", "release"}
        BY <1>0, <2>1, <2>4, <3>5 DEF ReadTask, Goto, taskVars, draftVars
      <4>2. CASE pc'[w] = "release"
        <5>1. ~AtWork(w)' /\ SendsKept
          BY <2>2, <4>1, <4>2, StepNames DEF AtWork, SendsKept
        <5> QED
          BY <1>0, <2>2, <5>1, LeaveKeeps, StepNames
      <4>3. CASE pc'[w] # "release"
        <5>1. pc'[w] \in Pre /\ pc'[w] # "attempted"
          BY <4>1, <4>3 DEF Pre
        <5> QED
          BY <2>2, <2>4, <3>1, <4>1, <5>1, PrepareKeeps DEF Moves
      <4> QED
        BY <4>2, <4>3
    <3> QED
      BY <1>2, <3>2, <3>3, <3>4, <3>5
  <2> QED
    BY <2>3, <2>4
<1> QED
  BY <1>1, <1>2

\* What the worker has been told while it polls is true, and stays so.
LEMMA AfterKeeps ==
  ASSUME Solo, RInv, Typed', Safe, NEW w \in Workers,
         CallSend(w) \/ PollTerminal(w) \/ PollTimeout(w) \/ CancelPollGiveUp(w)
  PROVE  Safe' /\ SentKept
<1>0. w \in Executors /\ Typed /\ rt \in [Keys -> Runtime!States]
  BY DEF Executors, RInv, Typed, TypeOK
<1>1. /\ SendsKept /\ enters' = enters /\ stale' = stale /\ pc[w] # "recovering"
  BY DEF CallSend, PollTerminal, PollTimeout, CancelPollGiveUp, SendsKept, taskVars, draftVars,
         runtimeVars
<1>2. \/ LocalStep(w, "polling") \/ LocalStep(w, "cancel_polling")
      \/ \E outcome \in Outcomes : Conclude(w, outcome)
  BY OutcomeType DEF CallSend, PollTerminal, PollTimeout, CancelPollGiveUp, Outcomes
<1>3. Moves(w) /\ pc'[w] \in Post /\ job'[w] = job[w] /\ no'[w] = no[w] /\ TodoKept
  <2>1. Moves(w) /\ pc'[w] \in Post /\ job'[w] = job[w]
    BY <1>0, <1>2, MovesLocal DEF WorkerPc, Post
  <2>2. no'[w] = no[w]
    BY <1>2 DEF LocalStep, Conclude
  <2> QED
    BY <1>0, <1>1, <2>1, <2>2, MovesTodo
<1>4. CASE CallSend(w)
  <2>1. IsSend(job[w]) /\ pc[w] = "attempted"
    BY <1>4 DEF CallSend
  <2>2. CASE /\ rt' = [rt EXCEPT ![Key(w)] = "running"]
             /\ LocalStep(w, "polling") \/ Conclude(w, "interrupted")
    <3>1. rt' = [rt EXCEPT ![Key(w)] = "running"]
      BY <2>2
    <3>2. /\ pc'[w] \in {"polling", "result"} /\ (pc'[w] = "result" => res'[w] = "interrupted")
      BY <1>0, <2>2, MovesLocal DEF WorkerPc, Outcomes
    <3> QED
      BY <1>1, <1>3, <2>1, <3>1, <3>2, CallKeeps DEF Moves
  <2>3. CASE rt' = rt /\ Conclude(w, "interrupted")
    <3>1. RtKept
      BY <1>1, <2>3 DEF RtKept
    <3>2. ToldOf(w)'
      BY <1>0, <2>3, MovesLocal DEF ToldOf, Outcomes
    <3> QED
      BY <1>1, <1>3, <2>1, <3>1, <3>2, PollKeeps DEF Moves
  <2>4. CASE rt' = rt /\ (Conclude(w, "failed") \/ LocalStep(w, "polling"))
    <3>1. RtKept
      BY <1>1, <2>4 DEF RtKept
    <3>2. ~Hot(DraftOf[job[w]])
      BY <1>0, <2>1, WorkFacts DEF AtWork, Pre
    <3>3. ~Hot(DraftOf[job[w]])'
      BY <1>3, <3>1, <3>2 DEF RtKept, Hot, Live, SendKeys, Keys, IsSend
    <3>4. ToldOf(w)'
      BY <1>3, <3>3 DEF ToldOf, Hot
    <3> QED
      BY <1>1, <1>3, <2>1, <3>1, <3>4, PollKeeps DEF Moves
  <2>5. Accepted(Key(w)) => rt' = rt \/ rt' = [rt EXCEPT ![Key(w)] = "running"]
    BY DEF Accepted, Runtime!Accept
  <2> QED
    BY <1>4, <2>1, <2>2, <2>3, <2>4, <2>5 DEF CallSend
<1>5. CASE PollTerminal(w) \/ PollTimeout(w) \/ CancelPollGiveUp(w)
  <2>1. RtKept /\ pc[w] \in Post /\ pc[w] # "result"
    BY <1>5 DEF PollTerminal, PollTimeout, CancelPollGiveUp, runtimeVars, RtKept, Post
  <2>2. CASE ~IsSend(job[w])
    <3>1. ~AtWork(w)'
      BY <1>3, <2>2 DEF AtWork, IsSend
    <3> QED
      BY <1>0, <1>1, <1>3, <2>1, <3>1, LeaveKeeps
  <2>3. CASE IsSend(job[w])
    <3>1. AtWork(w) /\ ToldOf(w)
      BY <2>1, <2>3 DEF AtWork, Safe, Told
    <3>2. PICK d \in Drafts, k \in SendKeys : d = DraftOf[job[w]] /\ k = Key(w)
      <4>1. Key(w) \in SendKeys
        BY <1>0, <2>1, <2>3 DEF Post, Typed, InHand, HasAttempt, HasJob, Key, SendKeys, Keys
      <4> QED
        BY <1>0, <3>1, <4>1, WorkFacts
    <3>3. DraftOf[job'[w]] = d /\ Key(w)' = k /\ rt'[k] = rt[k]
          /\ Live(d)' = Live(d) /\ (Hot(d)' <=> Hot(d))
      BY <1>3, <2>1, <3>2, HotKept DEF Key, RtKept
    <3>4. ToldOf(w)'
      <4>1. ToldOf(w)' <=>
              /\ pc'[w] = "result" /\ Hot(d)' => res'[w] \in {"succeeded", "interrupted"}
              /\ pc'[w] # "result" /\ enters'[d] # 0 => rt'[k] \notin {"running", "failed", "cancelled"}
              /\ pc'[w] # "result" => Live(d)' \subseteq {k}
        BY <3>3 DEF ToldOf
      <4>2. /\ enters[d] # 0 => rt[k] \notin {"running", "failed", "cancelled"}
            /\ Live(d) \subseteq {k}
        BY <2>1, <3>1, <3>2 DEF ToldOf
      <4>3. CASE PollTerminal(w)
        <5>1. /\ pc'[w] = "result" /\ res'[w] = OutcomeOf(rt[k]) /\ rt[k] \notin Runtime!InProgress
          BY <1>0, <3>2, <4>3, OutcomeType, MovesLocal DEF PollTerminal
        <5>2. Live(d) = {}
          BY <4>2, <5>1 DEF Live, Runtime!InProgress
        <5>3. Hot(d) => rt[k] \notin {"failed", "cancelled"}
          BY <4>2, <5>2 DEF Hot
        <5> QED
          BY <3>3, <4>1, <5>1, <5>3 DEF OutcomeOf
      <4>4. CASE LocalStep(w, "cancel_polling")
        <5>1. pc'[w] # "result"
          BY <1>0, <4>4, MovesLocal DEF WorkerPc
        <5> QED
          BY <1>1, <3>3, <4>1, <4>2, <5>1
      <4>5. CASE Conclude(w, "interrupted")
        <5>1. res'[w] = "interrupted" /\ pc'[w] = "result"
          BY <1>0, <4>5, MovesLocal DEF Outcomes
        <5> QED
          BY <4>1, <5>1
      <4> QED
        BY <1>5, <4>3, <4>4, <4>5 DEF PollTimeout, CancelPollGiveUp
    <3> QED
      BY <1>1, <1>3, <2>1, <2>3, <3>4, PollKeeps DEF Moves
  <2> QED
    BY <2>2, <2>3
<1> QED
  BY <1>4, <1>5

LEMMA SafeWorker ==
  ASSUME Solo, RInv, Typed', Safe, NEW w \in Workers, WorkerStep(w)
  PROVE  Safe' /\ SentKept
<1>0. w \in Executors /\ Typed
  BY DEF Executors, RInv
<1>1. CASE Recovered(w) \/ ReconcileAbort(w)
  <2>1. /\ SendsKept /\ RtKept /\ pc'[w] \in {"idle", "down"} /\ todo'[w] = {}
        /\ \A f \in Executors \ {w} : Stays(f)
        /\ \A v \in Workers \ {w} : todo'[v] = todo[v]
    BY <1>0, <1>1
       DEF Recovered, ReconcileAbort, Goto, SendsKept, RtKept, taskVars, draftVars, runtimeVars,
           Stays, Typed, TypeOK
  <2>2. TodoKept
    BY <1>0, <2>1 DEF TodoKept, Stays, Executors
  <2>3. \A f \in Executors : AtWork(f)' => Stays(f)
    BY <2>1, StepNames DEF AtWork
  <2> QED
    BY <2>1, <2>2, <2>3, IdleKeeps DEF Idle
<1>2. CASE ClaimNothing(w)
  <2>1. SendsKept /\ RtKept /\ todo' = todo /\ \A f \in Executors : Stays(f)
    BY <1>2 DEF ClaimNothing, SendsKept, RtKept, Stays, taskVars, draftVars, localVars, runtimeVars
  <2> QED
    BY <2>1, NothingKeeps
<1>3. CASE Release(w)
  <2>1. /\ SendsKept /\ RtKept /\ Forget(w, "idle", FALSE)
    BY <1>3 DEF Release, SendsKept, RtKept, draftVars, runtimeVars
  <2>2. /\ pc'[w] = "idle" /\ todo'[w] = {} /\ \A v \in Workers \ {w} : todo'[v] = todo[v]
        /\ \A f \in Executors \ {w} : Stays(f)
    BY <1>0, <2>1 DEF Forget, Stays, Typed, TypeOK
  <2>3. TodoKept
    BY <1>0, <2>2 DEF TodoKept, Stays, Executors
  <2>4. \A f \in Executors : AtWork(f)' => Stays(f)
    BY <2>2, StepNames DEF AtWork
  <2> QED
    BY <2>1, <2>3, <2>4, IdleKeeps DEF Idle
<1> QED
  BY <1>1, <1>2, <1>3, StartKeeps, RecoverKeeps, BeforeKeeps, AfterKeeps DEF WorkerStep

LEMMA SafeRest ==
  ASSUME RInv, Typed', Safe, Environment \/ (\E k \in Keys : RuntimeStep(k)) \/ UNCHANGED vars
  PROVE  Safe' /\ SentKept
<1>0. Typed
  BY DEF RInv
<1>1. CASE LeaseExpire \/ (\E w \in Workers : RenewStop(w)) \/ UNCHANGED vars
  <2>1. SendsKept /\ RtKept /\ todo' = todo /\ \A f \in Executors : Stays(f)
    BY <1>1
       DEF LeaseExpire, RenewStop, vars, SendsKept, RtKept, Stays, taskVars, draftVars, localVars,
           runtimeVars
  <2> QED
    BY <2>1, NothingKeeps
<1>2. ASSUME NEW w \in Workers, Stop(w) \/ Crash(w)
      PROVE  Safe' /\ SentKept
  <2>1. SendsKept /\ RtKept /\ Forget(w, "down", TRUE)
    BY <1>2 DEF Stop, Crash, SendsKept, RtKept, draftVars, runtimeVars
  <2>2. /\ todo'[w] = {} /\ \A v \in Workers \ {w} : todo'[v] = todo[v]
        /\ \A f \in Executors : Stays(f) \/ pc'[f] \in {"down", "idle"}
        /\ \A v \in Workers \ {w} : pc'[v] = pc[v]
    <3>1. \A v \in Workers : v \in Executors /\ v \notin Callers
      BY NoneAssumption DEF Executors
    <3> QED
      BY <1>0, <2>1, <3>1 DEF Forget, Stays, Typed, TypeOK
  <2>3. TodoKept
    BY <2>2 DEF TodoKept
  <2>4. \A f \in Executors : AtWork(f)' => Stays(f)
    BY <2>2, StepNames DEF AtWork
  <2> QED
    BY <2>1, <2>3, <2>4, IdleKeeps DEF Idle
<1>3. ASSUME NEW e \in Executors, TransactionFailed(e)
      PROVE  Safe' /\ SentKept
  <2>1. SendsKept /\ RtKept /\ Finish(e) /\ pc[e] # "recovering"
    BY <1>3 DEF TransactionFailed, SendsKept, RtKept, taskVars, draftVars, runtimeVars
  <2>2. Moves(e) /\ ~AtWork(e)'
    BY <1>0, <2>1, MovesLocal, StepNames DEF AtWork
  <2> QED
    BY <2>1, <2>2, LeaveKeeps
<1> QED
  BY <1>1, <1>2, <1>3, EnterKeeps, EndKeeps, RestartKeeps DEF Environment, RuntimeStep

LEMMA SafeNext ==
  ASSUME Solo, RInv, Typed', Safe, [Next]_vars
  PROVE  Safe' /\ SentKept
BY SafeApi, SafeRun, SafeWorker, SafeRest DEF Next

LEMMA SafeInit == Init => Safe
<1> SUFFICES ASSUME Init PROVE Safe
  OBVIOUS
<1>1. \A k \in Keys : rt[k] = "none"
  BY DEF Init, Runtime!Init
<1>2. \A d \in Drafts : Live(d) = {} /\ enters[d] = 0
  BY <1>1 DEF Init, Live, SendKeys
<1>3. \A e \in Executors : pc[e] \in {"down", "idle"}
  BY DEF Init
<1>4. SendReserved
  BY DEF Init, SendReserved, ActiveTask
<1>5. Working /\ Told
  BY <1>3, StepNames DEF Working, Told, AtWork, Executors
<1>6. Recovering
  BY DEF Init, Recovering
<1>7. Guard /\ Alone
  BY <1>2 DEF Guard, Alone, AloneOf, Hot
<1> QED
  BY <1>4, <1>5, <1>6, <1>7 DEF Safe, Discipline

LEMMA SafeInvariant ==
  ASSUME Solo
  PROVE  Spec => [](RInv /\ Safe)
<1>1. RInv /\ Typed' /\ Safe /\ [Next]_vars => Safe'
  BY SafeNext
<1> QED
  BY <1>1, ReservationInvariant, SafeInit, Typing, PTL DEF Spec

\* Every active send holds the reservation of its draft, so that no second
\* batch sends the draft meanwhile (create_execution_batch).
THEOREM SendsReserved ==
  ASSUME Solo
  PROVE  Spec => []SendReserved
<1>1. Safe => SendReserved
  BY DEF Safe, Discipline
<1> QED
  BY <1>1, SafeInvariant, PTL

\* While the runtime may still press Enter for a draft, the draft is reserved
\* for that send or is not pending, whatever was lost, cancelled or restarted.
THEOREM InFlightSendsGuarded ==
  ASSUME Solo
  PROVE  Spec => []InFlightGuarded
<1>1. RInv /\ Safe => InFlightGuarded
  <2> SUFFICES ASSUME RInv, Safe, NEW k \in Keys, rt[k] = "running", IsSend(k[1]), k \notin stale
               PROVE  \/ reserved[DraftOf[k[1]]] = k[1]
                      \/ sendStatus[DraftOf[k[1]]] \in {"unknown", "sent"}
    BY DEF InFlightGuarded
  <2>1. PICK d \in Drafts : d = DraftOf[k[1]]
    BY IdAssumption DEF Keys
  <2>2. k \in Live(d) /\ Hot(d)
    BY <2>1 DEF Live, Hot, SendKeys
  <2> QED
    BY <2>1, <2>2 DEF Safe, Guard, GuardOf, Alone, AloneOf
<1> QED
  BY <1>1, SafeInvariant, PTL

\* Enter is pressed at most once for a draft between two times the operator
\* marks it pending.
THEOREM NeverEnteredTwice ==
  ASSUME Solo
  PROVE  Spec => []NoDoubleEnter
<1>1. Safe => NoDoubleEnter
  BY DEF Safe, Alone, AloneOf, NoDoubleEnter
<1> QED
  BY <1>1, SafeInvariant, PTL

\* A message that was sent is not queued or sent again.
THEOREM SentMessagesStaySent ==
  ASSUME Solo
  PROVE  Spec => SentStaysSent
<1>1. RInv /\ Safe /\ Typed' /\ [Next]_vars =>
        [\A t \in Tasks :
           IsSend(t) /\ status[t] = "succeeded" /\ sendStatus[DraftOf[t]] # "pending"
             => status'[t] \in {"succeeded"} \cup Gone]_vars
  BY SafeNext DEF SentKept
<1> QED
  BY <1>1, SafeInvariant, Typing, PTL DEF Spec, SentStaysSent

-----------------------------------------------------------------------------
(* Sending a draft: the refinement of DraftSending *)

ShownAs(d) == IF reserved[d] # None THEN "sending" ELSE sendStatus[d]

\* What DraftSending asks of a step, in terms of this specification.
SendsAs(d) ==
  LET still == (Live(d)' # {} <=> Live(d) # {}) /\ (enters'[d] # 0 <=> enters[d] # 0)
  IN
  \/ ShownAs(d)' = ShownAs(d) /\ still
  \/ ShownAs(d) = "pending" /\ ~Hot(d) /\ ShownAs(d)' = "sending" /\ still
  \/ /\ ShownAs(d) = "sending" /\ ~Hot(d)
     /\ Live(d)' # {} /\ enters'[d] = 0 /\ ShownAs(d)' = ShownAs(d)
  \/ /\ Live(d) # {} /\ enters[d] = 0
     /\ Live(d)' = {} /\ enters'[d] # 0 /\ ShownAs(d)' = ShownAs(d)
  \/ /\ Live(d) # {} /\ Live(d)' = {}
     /\ (enters'[d] # 0 <=> enters[d] # 0) /\ ShownAs(d)' = ShownAs(d)
  \/ /\ ShownAs(d) = "sending" /\ ShownAs(d)' \in {"pending", "sent", "unknown"}
     /\ (Hot(d) => ShownAs(d)' # "pending") /\ still
  \/ ShownAs(d) \in {"pending", "unknown"} /\ ShownAs(d)' = "sent" /\ still
  \/ /\ ShownAs(d)' = IF ShownAs(d) = "sending" THEN "sending" ELSE "pending"
     /\ Live(d)' = {} /\ enters'[d] = 0

LEMMA SendsAsStep ==
  ASSUME NEW d \in Drafts, SendsAs(d)
  PROVE  Sending!Step(d)
BY DEF SendsAs, ShownAs, Hot, Sending!Step, Sending!Still, Sending!Hot, Sending!Reserve,
       Sending!Call, Sending!Press, Sending!Lapse, Sending!Conclude, Sending!Confirm,
       Sending!Reopen, Sending!Shown

\* A draft nobody has reserved keeps its mark, or is reserved when it may be.
Booked(d) ==
  reserved[d] = None =>
    \/ reserved'[d] = None /\ sendStatus'[d] = sendStatus[d]
    \/ CanReserve(d) /\ reserved'[d] # None

LEMMA BookedSends ==
  ASSUME RInv, Typed', Safe, Safe', RtKept, NEW d \in Drafts, Booked(d)
  PROVE  SendsAs(d)
<1>1. Live(d)' = Live(d) /\ (Hot(d)' <=> Hot(d)) /\ enters'[d] = enters[d]
  BY HotKept DEF RtKept
<1>2. sendStatus'[d] \in {"pending", "sent", "unknown"}
  BY DEF Typed, TypeOK
<1>3. CASE reserved[d] = None /\ reserved'[d] = None
  BY <1>1, <1>3 DEF Booked, SendsAs, ShownAs
<1>4. CASE reserved[d] = None /\ reserved'[d] # None
  <2>1. CanReserve(d) /\ ~Hot(d)
    BY <1>4, HotFacts DEF Booked
  <2> QED
    BY <1>1, <1>4, <2>1 DEF CanReserve, SendsAs, ShownAs
<1>5. CASE reserved[d] # None /\ reserved'[d] # None
  BY <1>1, <1>5 DEF SendsAs, ShownAs
<1>6. CASE reserved[d] # None /\ reserved'[d] = None
  <2>1. Hot(d) => sendStatus'[d] # "pending"
    BY <1>1, <1>6 DEF Safe, Guard, GuardOf
  <2> QED
    BY <1>1, <1>2, <1>6, <2>1 DEF SendsAs, ShownAs
<1> QED
  BY <1>3, <1>4, <1>5, <1>6

\* A mark is written with the reservation of its task in hand.
LEMMA BookedWritten ==
  ASSUME RInv, NEW t \in Tasks, IsSend(t) => reserved[DraftOf[t]] = t, NEW m,
         sendStatus' = IF IsSend(t) THEN [sendStatus EXCEPT ![DraftOf[t]] = m] ELSE sendStatus,
         reserved' = IF IsSend(t) THEN Released(t) ELSE reserved
  PROVE  \A d \in Drafts : Booked(d)
<1>1. /\ DraftOf[t] \in Drafts /\ t # None /\ reserved \in [Drafts -> Tasks \cup {None}]
      /\ sendStatus \in [Drafts -> {"pending", "sent", "unknown"}]
  BY IdAssumption, NoneAssumption DEF RInv, Typed, TypeOK
<1> QED
  BY <1>1 DEF Booked, Released

LEMMA BookedSame ==
  ASSUME UNCHANGED draftVars
  PROVE  \A d \in Drafts : Booked(d)
BY DEF draftVars, Booked

LEMMA BookedReleased ==
  ASSUME RInv, NEW t \in Tasks, reserved' = Released(t), sendStatus' = sendStatus
  PROVE  \A d \in Drafts : Booked(d)
BY DEF RInv, Typed, TypeOK, Released, Booked

LEMMA BookedApi ==
  ASSUME Solo, RInv, NEW c \in Callers,
         \/ StartCommit(c) \/ PauseCommit(c) \/ CancelBatchCommit(c)
         \/ CancelTaskCommit(c) \/ RetryCommit(c) \/ RunTaskCommit(c)
  PROVE  RtKept /\ \A d \in Drafts : Booked(d)
<1>1. RtKept
  BY DEF StartCommit, PauseCommit, CancelBatchCommit, CancelTasks, CancelTaskCommit, RetryCommit,
         RunTaskCommit, runtimeVars, RtKept
<1>2. CASE StartCommit(c) \/ PauseCommit(c) \/ RunTaskCommit(c)
  BY <1>1, <1>2, BookedSame DEF StartCommit, PauseCommit, RunTaskCommit
<1>3. CASE CancelBatchCommit(c)
  <2> DEFINE dropped == {t \in TasksOf(target[c]) : status[t] = "pending"}
  <2>1. /\ sendStatus' = sendStatus
        /\ reserved' = [d \in Drafts |->
                          IF /\ target[c] \in SendBatches /\ reserved[d] \in dropped
                             /\ DraftOf[reserved[d]] = d
                          THEN None ELSE reserved[d]]
    BY <1>3 DEF CancelBatchCommit, CancelTasks
  <2> HIDE DEF dropped
  <2> QED
    BY <1>1, <2>1 DEF Booked
<1>4. ~CancelTaskCommit(c)
  BY DEF CancelTaskCommit, RInv, Hands, Solo, Executors
<1>5. CASE RetryCommit(c)
  <2>1. job[c] \in Tasks /\ DraftOf[job[c]] \in Drafts /\ job[c] # None
    BY <1>5, IdAssumption, NoneAssumption
       DEF RetryCommit, RInv, Typed, InHand, HasJob, Executors
  <2>2. sendStatus' = sendStatus /\ reserved \in [Drafts -> Tasks \cup {None}]
    BY <1>5 DEF RetryCommit, RInv, Typed, TypeOK
  <2>3. CASE reserved' = reserved
    BY <1>1, <2>2, <2>3 DEF Booked
  <2>4. CASE /\ CanReserve(DraftOf[job[c]])
             /\ reserved' = [reserved EXCEPT ![DraftOf[job[c]]] = job[c]]
    BY <1>1, <2>1, <2>2, <2>4 DEF Booked
  <2> QED
    BY <1>5, <2>3, <2>4 DEF RetryCommit
<1> QED
  BY <1>1, <1>2, <1>3, <1>4, <1>5

LEMMA BookedCreate ==
  ASSUME RInv, NEW b \in Batches, CreateBatch(b)
  PROVE  RtKept /\ \A d \in Drafts : Booked(d)
<1>1. RtKept /\ sendStatus' = sendStatus
  BY DEF CreateBatch, runtimeVars, RtKept
<1>2. CASE b \notin SendBatches
  BY <1>1, <1>2 DEF CreateBatch, Booked
<1>3. CASE b \in SendBatches
  <2> DEFINE ds == {DraftOf[t] : t \in TasksOf(b)}
  <2>1. /\ \A d \in ds : CanReserve(d)
        /\ reserved' = [d \in Drafts |-> IF d \in ds
                                         THEN CHOOSE t \in TasksOf(b) : DraftOf[t] = d
                                         ELSE reserved[d]]
    BY <1>3 DEF CreateBatch
  <2>2. \A d \in ds : (CHOOSE t \in TasksOf(b) : DraftOf[t] = d) \in Tasks
    BY DEF TasksOf
  <2> HIDE DEF ds
  <2> QED
    BY <1>1, <2>1, <2>2, NoneAssumption DEF Booked
<1> QED
  BY <1>2, <1>3, <1>1

LEMMA BookedRun ==
  ASSUME RInv, Safe, NEW e \in Executors, RunStep(e)
  PROVE  RtKept /\ \A d \in Drafts : Booked(d)
<1>1. RtKept
  <2>1. CASE CallPaste(e)
    <3>1. Key(e) \notin SendKeys /\ enters' = enters /\ stale' = stale
      BY <2>1 DEF CallPaste, Key, SendKeys, IsSend
    <3>2. \A k \in SendKeys : rt'[k] = rt[k]
      BY <2>1, <3>1 DEF CallPaste, Accepted, Runtime!Accept, RInv, Typed, TypeOK, SendKeys
    <3> QED
      BY <3>1, <3>2 DEF RtKept
  <2> QED
    BY <2>1
       DEF RunStep, PasteAttempt, InsertAttempt, WriteAttempt, AttemptFailed, Persist,
           PersistFallback, PersistLost, runtimeVars, RtKept
<1>2. CASE PasteAttempt(e) \/ AttemptFailed(e) \/ CallPaste(e) \/ PersistLost(e)
  BY <1>1, <1>2, BookedSame
     DEF PasteAttempt, InsertAttempt, WriteAttempt, AttemptFailed, CallPaste, PersistLost
<1>3. CASE Persist(e) \/ PersistFallback(e)
  <2>1. job[e] \in Tasks /\ pc[e] = "result"
    BY <1>3 DEF Persist, PersistFallback, RInv, Typed, InHand, HasJob
  <2>2. IsSend(job[e]) => reserved[DraftOf[job[e]]] = job[e]
    BY <2>1, WorkFacts DEF AtWork, Post
  <2>3. CASE Fenced(e)
    BY <1>1, <1>3, <2>3, BookedSame DEF Persist, PersistFallback
  <2>4. CASE ~Fenced(e)
    <3>1. \E s, m, proof : Record(job[e], no[e], s, m, proof)
      BY <1>3, <2>4 DEF Persist, PersistFallback
    <3> QED
      BY <1>1, <2>1, <2>2, <3>1, BookedWritten DEF Record
  <2> QED
    BY <2>3, <2>4
<1> QED
  BY <1>1, <1>2, <1>3 DEF RunStep

LEMMA BookedWorker ==
  ASSUME RInv, Safe, NEW w \in Workers, WorkerStep(w), ~CallSend(w)
  PROVE  RtKept /\ \A d \in Drafts : Booked(d)
<1>1. CASE \E t \in Tasks : Reconcile(w, t) \/ ReconcileFallback(w, t)
  <2>1. PICK t \in Tasks : \E s, m : RecoverTask(w, t, s, m)
    BY <1>1 DEF Reconcile, ReconcileFallback
  <2>2. IsSend(t) => reserved[DraftOf[t]] = t
    BY <2>1, StepNames DEF RecoverTask, Safe, Discipline, Recovering, SendReserved
  <2>3. \A d \in Drafts : Booked(d)
    BY <2>1, <2>2, BookedWritten DEF RecoverTask
  <2> QED
    BY <2>1, <2>3 DEF RecoverTask, runtimeVars, RtKept
<1>2. CASE CancelClaimed(w)
  <2>1. job[w] \in Tasks
    BY <1>2 DEF CancelClaimed, RInv, Typed, InHand, HasJob, Executors
  <2> QED
    BY <1>2, <2>1, BookedReleased DEF CancelClaimed, runtimeVars, RtKept
<1>3. CASE \/ Start(w) \/ Recovered(w) \/ ReconcileAbort(w) \/ Claim(w) \/ ClaimNothing(w)
           \/ Release(w) \/ ReadTask(w) \/ SendStarted(w) \/ SendAttempt(w)
           \/ PollTerminal(w) \/ PollTimeout(w) \/ CancelPollGiveUp(w)
  BY <1>3, BookedSame
     DEF Start, Recovered, ReconcileAbort, Claim, ClaimNothing, Release, ReadTask, SendStarted,
         SendAttempt, InsertAttempt, WriteAttempt, PollTerminal, PollTimeout, CancelPollGiveUp,
         runtimeVars, RtKept
<1> QED
  BY <1>1, <1>2, <1>3 DEF WorkerStep

\* The call: the draft was not hot, and its task has it reserved.
LEMMA CallSends ==
  ASSUME RInv, Typed', Safe, NEW w \in Workers, CallSend(w), NEW d \in Drafts
  PROVE  SendsAs(d)
<1>1. /\ pc[w] = "attempted" /\ IsSend(job[w]) /\ w \in Executors /\ AtWork(w)
      /\ enters' = enters /\ stale' = stale /\ reserved' = reserved /\ sendStatus' = sendStatus
  BY DEF CallSend, Executors, AtWork, Pre, draftVars
<1>2. \A k \in Keys \ {Key(w)} : rt'[k] = rt[k]
  BY DEF CallSend, Accepted, Runtime!Accept, RInv, Typed, TypeOK
<1>3. ShownAs(d)' = ShownAs(d)
  BY <1>1 DEF ShownAs
<1>4. CASE d # DraftOf[job[w]]
  <2>1. Live(d)' = Live(d)
    BY <1>1, <1>2, <1>4 DEF Live, SendKeys, IsSend, Key
  <2> QED
    BY <1>1, <1>3, <2>1 DEF SendsAs
<1>5. CASE d = DraftOf[job[w]]
  <2>1. reserved[d] # None /\ ~Hot(d)
    BY <1>1, <1>5, WorkFacts DEF Pre
  <2>2. ShownAs(d) = "sending" /\ Live(d) = {} /\ enters[d] = 0
    BY <2>1 DEF ShownAs, Hot
  <2> QED
    BY <1>1, <1>3, <2>1, <2>2 DEF SendsAs
<1> QED
  BY <1>4, <1>5

\* A task of the runtime presses Enter, ends, or is forgotten.
LEMMA RuntimeSends ==
  ASSUME RInv, Safe, NEW d \in Drafts, RuntimeRestart \/ \E k \in Keys : RuntimeStep(k)
  PROVE  SendsAs(d)
<1>1. ShownAs(d)' = ShownAs(d)
  BY DEF RuntimeRestart, RuntimeStep, PressEnter, EndRuntimeTask, RtStep, draftVars, ShownAs
<1>2. CASE RuntimeRestart
  <2>1. enters' = enters /\ \A k \in Keys : rt'[k] = "none"
    BY <1>2 DEF RuntimeRestart, Runtime!Restart
  <2>2. Live(d)' = {}
    BY <2>1 DEF Live, SendKeys, IsSend
  <2> QED
    BY <1>1, <2>1, <2>2 DEF SendsAs
<1>3. ASSUME NEW k \in Keys, EndRuntimeTask(k)
      PROVE  SendsAs(d)
  <2>1. PICK s \in Runtime!Ends(k) : rt' = [rt EXCEPT ![k] = s]
    BY <1>3 DEF EndRuntimeTask, Runtime!End
  <2>2. s # "running" /\ enters' = enters /\ stale' = stale /\ rt \in [Keys -> Runtime!States]
    BY <1>3, <2>1
       DEF EndRuntimeTask, Runtime!Ends, Runtime!Entered, Runtime!NotEntered, RInv, Typed, TypeOK
  <2>3. Live(d)' \subseteq Live(d)
    BY <2>1, <2>2 DEF Live, SendKeys, IsSend
  <2> QED
    BY <1>1, <2>2, <2>3 DEF SendsAs
<1>4. ASSUME NEW k \in Keys, PressEnter(k)
      PROVE  SendsAs(d)
  <2>1. /\ k \in SendKeys /\ rt[k] = "running" /\ rt' = [rt EXCEPT ![k] = "entered"]
        /\ stale' = stale /\ rt \in [Keys -> Runtime!States] /\ enters \in [Drafts -> 0 .. 2]
        /\ enters' = [enters EXCEPT ![DraftOf[k[1]]] = IF k \in stale \/ @ = 2 THEN @ ELSE @ + 1]
    BY <1>4 DEF PressEnter, Runtime!Enter, RInv, Typed, TypeOK
  <2>2. Live(d)' = Live(d) \ {k}
    BY <2>1 DEF Live, SendKeys, IsSend
  <2>3. CASE d = DraftOf[k[1]] /\ k \notin stale
    <3>1. k \in Live(d)
      BY <2>1, <2>3 DEF Live
    <3>2. Live(d) = {k} /\ enters[d] = 0
      BY <3>1 DEF Safe, Alone, AloneOf
    <3>3. Live(d)' = {} /\ enters'[d] = 1
      BY <2>1, <2>2, <2>3, <3>2
    <3> QED
      BY <1>1, <3>2, <3>3 DEF SendsAs
  <2>4. CASE d # DraftOf[k[1]] \/ k \in stale
    <3>1. k \notin Live(d) /\ enters'[d] = enters[d]
      BY <2>1, <2>4 DEF Live
    <3> QED
      BY <1>1, <2>2, <3>1 DEF SendsAs
  <2> QED
    BY <2>3, <2>4
<1> QED
  BY <1>2, <1>3, <1>4 DEF RuntimeStep

\* The operator's own marks.
LEMMA MarkSends ==
  ASSUME RInv, NEW d \in Drafts, NEW x \in Drafts, NEW s \in {"sent", "pending"}, MarkDraft(x, s)
  PROVE  SendsAs(d)
<1>1. /\ rt' = rt /\ reserved' = reserved /\ sendStatus' = [sendStatus EXCEPT ![x] = s]
      /\ sendStatus[x] \in IF s = "sent" THEN {"pending", "unknown"} ELSE {"sent", "unknown"}
      /\ enters \in [Drafts -> 0 .. 2] /\ sendStatus \in [Drafts -> {"pending", "sent", "unknown"}]
  BY DEF MarkDraft, RInv, Typed, TypeOK
<1>2. CASE s = "sent"
  <2>1. enters' = enters /\ stale' = stale
    BY <1>2 DEF MarkDraft
  <2>2. Live(d)' = Live(d)
    BY <1>1, <2>1 DEF Live, SendKeys, IsSend
  <2>3. ShownAs(d)' = ShownAs(d) \/ (ShownAs(d) \in {"pending", "unknown"} /\ ShownAs(d)' = "sent")
    BY <1>1, <1>2 DEF ShownAs
  <2> QED
    BY <2>1, <2>2, <2>3 DEF SendsAs
<1>3. CASE s = "pending"
  <2>1. /\ enters' = [enters EXCEPT ![x] = 0]
        /\ stale' = stale \cup {k \in Keys : DraftOf[k[1]] = x /\ rt[k] = "running"}
    BY <1>3 DEF MarkDraft
  <2>2. CASE d = x
    <3>1. Live(d)' = {} /\ enters'[d] = 0
      BY <1>1, <2>1, <2>2 DEF Live, SendKeys, IsSend
    <3>2. ShownAs(d)' = IF ShownAs(d) = "sending" THEN "sending" ELSE "pending"
      BY <1>1, <1>3, <2>2 DEF ShownAs
    <3> QED
      BY <3>1, <3>2 DEF SendsAs
  <2>3. CASE d # x
    <3>1. Live(d)' = Live(d) /\ enters'[d] = enters[d] /\ ShownAs(d)' = ShownAs(d)
      BY <1>1, <2>1, <2>3 DEF Live, SendKeys, IsSend, ShownAs
    <3> QED
      BY <3>1 DEF SendsAs
  <2> QED
    BY <2>2, <2>3
<1> QED
  BY <1>2, <1>3

LEMMA SendingNext ==
  ASSUME Solo, RInv, Typed', Safe, [Next]_vars
  PROVE  Sending!Next
<1>0. Safe'
  BY SafeNext
<1>1. \/ RtKept /\ \A d \in Drafts : Booked(d)
      \/ \A d \in Drafts : SendsAs(d)
  <2>1. CASE ApiStep
    <3>1. ASSUME NEW c \in Callers,
                 \/ \E b \in Batches : StartCheck(c, b) \/ PauseCheck(c, b) \/ CancelBatchCheck(c, b)
                 \/ \E t \in Tasks : CancelTaskCheck(c, t) \/ RetryCheck(c, t) \/ RunTaskCheck(c, t)
          PROVE  RtKept /\ UNCHANGED draftVars
      BY <3>1
         DEF StartCheck, PauseCheck, CancelBatchCheck, CancelTaskCheck, RetryCheck, RunTaskCheck,
             Accept, runtimeVars, RtKept
    <3>2. ClearBatches => RtKept /\ UNCHANGED draftVars
      BY DEF ClearBatches, runtimeVars, RtKept
    <3> QED
      BY <2>1, <3>1, <3>2, BookedApi, BookedCreate, BookedSame, MarkSends DEF ApiStep
  <2>2. CASE \E e \in Executors : RunStep(e)
    BY <2>2, BookedRun
  <2>3. CASE \E w \in Workers : WorkerStep(w)
    BY <2>3, BookedWorker, CallSends
  <2>4. CASE RuntimeRestart \/ \E k \in Keys : RuntimeStep(k)
    BY <2>4, RuntimeSends
  <2>5. CASE \/ LeaseExpire \/ \E w \in Workers : RenewStop(w) \/ Stop(w) \/ Crash(w)
             \/ \E e \in Executors : TransactionFailed(e)
             \/ UNCHANGED vars
    BY <2>5, BookedSame
       DEF LeaseExpire, RenewStop, Stop, Crash, TransactionFailed, vars, runtimeVars, RtKept
  <2> QED
    BY <2>1, <2>2, <2>3, <2>4, <2>5 DEF Next, Environment
<1>2. \A d \in Drafts : SendsAs(d)
  BY <1>0, <1>1, BookedSends
<1> QED
  BY <1>2, SendsAsStep DEF Sending!Next

\* Sending a draft is what DraftSending says of it, whatever is lost, cancelled,
\* retried, cleared or restarted: every step of the service, of its worker and
\* of the runtime is a step of the draft's own life, or none.
THEOREM SendingImplemented ==
  ASSUME Solo
  PROVE  Spec => SendingKept
<1>1. Init => Sending!Init
  <2> SUFFICES ASSUME Init PROVE Sending!Init
    OBVIOUS
  <2>1. \A d \in Drafts : Live(d) = {} /\ enters[d] = 0
    BY DEF Init, Runtime!Init, Live, SendKeys
  <2>2. \A d \in Drafts : reserved[d] = None /\ sendStatus[d] = "pending"
    BY DEF Init
  <2> QED
    BY <2>1, <2>2 DEF Sending!Init
<1>2. RInv /\ Typed' /\ Safe /\ [Next]_vars => [Sending!Next]_(Sending!vars)
  BY SendingNext
<1> QED
  BY <1>1, <1>2, SafeInvariant, Typing, PTL DEF Spec, SendingKept, Sending!Spec

-----------------------------------------------------------------------------
(* What is recorded of a send is true *)

\* The keys pressed belong to attempts of tasks that are still there; the state
\* of the runtime's task tells which they are, until the runtime forgets it.
PressedTried ==
  \A k \in pressed : k \in Keys /\ status[k[1]] \notin Gone /\ k[2] \in rows[k[1]]
RuntimeTells ==
  \A k \in Keys : Alive(k[1]) =>
    /\ rt[k] \in {"entered", "sent"} => k \in pressed
    /\ rt[k] \in {"running", "failed", "cancelled"} => k \notin pressed

\* The key of a new attempt was not pressed, and the result in hand tells
\* whether that of the attempt was.
NewKeys ==
  \A e \in Executors : pc[e] = "attempted" /\ Alive(job[e]) => Key(e) \notin pressed
BeforeEnter == {"cancelled", "failed_no_enter"}
Results ==
  \A e \in Executors : pc[e] = "result" /\ Alive(job[e]) =>
    /\ res[e] = "succeeded" => Key(e) \in pressed
    /\ res[e] \in BeforeEnter => Unpressed(Key(e))

\* The proof on record is that of the latest attempt: it pressed Enter, or is
\* over and did not.
Latest(t) == <<t, attempts[t]>>
Proofs ==
  \A t \in Tasks : Alive(t) =>
    /\ evid[t] = "sent" => Latest(t) \in pressed
    /\ evid[t] \in Denied =>
         /\ Latest(t) \in Keys /\ Unpressed(Latest(t))
         /\ \A e \in Executors : pc[e] = "attempted" => Key(e) # Latest(t)
Successes ==
  \A t \in Tasks : status[t] = "succeeded" => \E n \in 1 .. MaxAttempts : <<t, n>> \in pressed

Truth == PressedTried /\ RuntimeTells /\ NewKeys /\ Results /\ Proofs /\ Successes

\* How a step may change the runtime's task of a key, what an executor has in
\* hand, the proof on record of a task, and its status.
KeyMoves(k) ==
  \/ rt'[k] \in {rt[k], "none"}
  \/ /\ rt[k] = "none" /\ rt'[k] = "running"
     /\ \E e \in Executors : pc[e] = "attempted" /\ Key(e) = k
  \/ rt[k] = "running" /\ rt'[k] \in {"entered", "pasted"} \cup Runtime!NotEntered
  \/ rt[k] = "entered" /\ rt'[k] \in Runtime!Entered
HandMoves(f) ==
  /\ pc'[f] = "attempted" =>
       \/ pc[f] = "attempted" /\ job'[f] = job[f] /\ no'[f] = no[f]
       \/ /\ job'[f] = job[f] /\ job[f] \in Tasks
          /\ no'[f] \notin rows[job[f]] /\ evid'[job[f]] \notin Denied
  /\ pc'[f] = "result" =>
       /\ pc[f] \in Holding /\ job'[f] = job[f] /\ no'[f] = no[f]
       /\ \/ res'[f] \notin BeforeEnter \cup {"succeeded"}
          \/ pc[f] = "result" /\ res'[f] = res[f]
          \/ rt[Key(f)] \notin Runtime!InProgress /\ res'[f] = OutcomeOf(rt[Key(f)])
RowMoves(t) ==
  Alive(t)' =>
    /\ rows[t] \subseteq rows'[t]
    /\ evid'[t] # "nothing" =>
         /\ attempts'[t] = attempts[t]
         /\ \/ evid'[t] = evid[t]
            \/ \E e \in Executors :
                 pc[e] = "result" /\ Key(e) = Latest(t) /\ evid'[t] = ProofOf(res[e])
StatusMoves(t) ==
  status'[t] = "succeeded" =>
    \/ status[t] = "succeeded" \/ (Alive(t) /\ evid[t] = "sent")
    \/ \E e \in Executors : pc[e] = "result" /\ job[e] = t /\ res[e] = "succeeded"

Moving ==
  /\ \A k \in Keys : KeyMoves(k)
  /\ \A f \in Executors : HandMoves(f)
  /\ \A t \in Tasks : RowMoves(t) /\ StatusMoves(t)

LEMMA PressedKept ==
  ASSUME AInv, PressedTried, Lasts, Observe, NEW k \in Keys, Alive(k[1])'
  PROVE  /\ k \in pressed' <=> k \in pressed \/ Pressing(k)
         /\ Alive(k[1]) /\ k[1] \in Tasks
<1>1. k[1] \in Tasks /\ Alive(k[1])
  BY DEF Keys, Lasts
<1>2. k \in pressed \/ Pressing(k) => status[k[1]] \notin Gone
  <2>1. CASE k \in pressed
    BY <2>1 DEF PressedTried
  <2>2. CASE Pressing(k)
    <3>1. k[2] \in rows[k[1]]
      BY <1>1, <2>2 DEF Pressing, AInv, Keyed, Known
    <3> QED
      BY <1>1, <3>1 DEF AInv, Keyed, Started, Gone, Alive
  <2> QED
    BY <2>1, <2>2
<1>3. status[k[1]] \notin Gone => status'[k[1]] \notin Gone
  BY <1>1 DEF Lasts, Gone, Alive
<1> QED
  BY <1>1, <1>2, <1>3 DEF Observe

\* A task that is over stays over, unless an executor is about to call the
\* runtime with its key.
LEMMA OverStays ==
  ASSUME NEW k \in Keys, KeyMoves(k), Unpressed(k), \A e \in Executors : pc[e] = "attempted" => Key(e) # k
  PROVE  rt'[k] \notin Runtime!InProgress /\ ~Pressing(k)
BY DEF KeyMoves, Unpressed, Pressing, Runtime!InProgress

LEMMA PressedTriedKept ==
  ASSUME AInv, Truth, Lasts, Observe, Moving
  PROVE  PressedTried'
<1> SUFFICES ASSUME NEW k \in pressed' PROVE k \in Keys /\ status'[k[1]] \notin Gone /\ k[2] \in rows'[k[1]]
  BY DEF PressedTried
<1>1. k \in Keys /\ status'[k[1]] \notin Gone
  BY DEF Observe
<1>2. Alive(k[1])' /\ k[1] \in Tasks
  BY <1>1 DEF Alive, Gone, Keys
<1>3. Alive(k[1]) /\ (k \in pressed \/ Pressing(k))
  BY <1>1, <1>2, PressedKept DEF Truth
<1>4. k[2] \in rows[k[1]]
  BY <1>1, <1>3 DEF Truth, PressedTried, Pressing, AInv, Keyed, Known
<1> QED
  BY <1>1, <1>2, <1>4 DEF Moving, RowMoves

LEMMA RuntimeTellsKept ==
  ASSUME AInv, Truth, Lasts, Observe, Moving
  PROVE  RuntimeTells'
<1> SUFFICES ASSUME NEW k \in Keys, Alive(k[1])'
             PROVE  /\ rt'[k] \in {"entered", "sent"} => k \in pressed'
                    /\ rt'[k] \in {"running", "failed", "cancelled"} => k \notin pressed'
  BY DEF RuntimeTells
<1>1. /\ k \in pressed' <=> k \in pressed \/ Pressing(k)
      /\ Alive(k[1]) /\ k[1] \in Tasks
  BY PressedKept DEF Truth
<1>2. /\ rt[k] \in {"entered", "sent"} => k \in pressed
      /\ rt[k] \in {"running", "failed", "cancelled"} => k \notin pressed
  BY <1>1 DEF Truth, RuntimeTells
<1>3. rt[k] = "none" /\ rt'[k] = "running" => k \notin pressed
  BY <1>1 DEF Moving, KeyMoves, Truth, NewKeys, Key
<1>4. KeyMoves(k)
  BY DEF Moving
<1> QED
  BY <1>1, <1>2, <1>3, <1>4 DEF KeyMoves, Pressing, Runtime!NotEntered, Runtime!Entered

LEMMA NewKeysKept ==
  ASSUME AInv, Truth, Lasts, Observe, Moving, Typed', Keyed'
  PROVE  NewKeys'
<1> SUFFICES ASSUME NEW e \in Executors, pc'[e] = "attempted", Alive(job[e])'
             PROVE  Key(e)' \notin pressed'
  BY DEF NewKeys
<1>1. Key(e)' \in Keys /\ Key(e)'[1] = job'[e] /\ Key(e)'[2] = no'[e]
  BY AttemptInHand DEF Typed, InHand, HasJob, HasAttempt, Key, Keys
<1>2. /\ Key(e)' \in pressed' <=> Key(e)' \in pressed \/ Pressing(Key(e)')
      /\ Alive(job'[e]) /\ job'[e] \in Tasks
  BY <1>1, PressedKept DEF Truth, Alive
<1>3. CASE pc[e] = "attempted" /\ job'[e] = job[e] /\ no'[e] = no[e]
  <2>1. Key(e)' = Key(e)
    BY <1>3 DEF Key
  <2>2. Key(e) \notin pressed /\ rt[Key(e)] = "none"
    BY <1>2, <1>3 DEF Truth, NewKeys, AInv, Keyed, Unseen
  <2> QED
    BY <1>2, <2>1, <2>2 DEF Pressing
<1>4. CASE job'[e] = job[e] /\ no'[e] \notin rows[job[e]]
  <2>1. Key(e)' \notin pressed
    BY <1>1, <1>4 DEF Truth, PressedTried
  <2>2. rt[Key(e)'] = "none"
    BY <1>1, <1>2, <1>4 DEF AInv, Keyed, Known
  <2> QED
    BY <1>2, <2>1, <2>2 DEF Pressing
<1> QED
  BY <1>3, <1>4 DEF Moving, HandMoves

LEMMA ResultsKept ==
  ASSUME AInv, Truth, Lasts, Observe, Moving
  PROVE  Results'
<1> SUFFICES ASSUME NEW e \in Executors, pc'[e] = "result", Alive(job[e])'
             PROVE  /\ res'[e] = "succeeded" => Key(e)' \in pressed'
                    /\ res'[e] \in BeforeEnter => Unpressed(Key(e))'
  BY DEF Results
<1>1. /\ pc[e] \in Holding /\ job'[e] = job[e] /\ Key(e)' = Key(e)
      /\ \/ res'[e] \notin BeforeEnter \cup {"succeeded"}
         \/ pc[e] = "result" /\ res'[e] = res[e]
         \/ rt[Key(e)] \notin Runtime!InProgress /\ res'[e] = OutcomeOf(rt[Key(e)])
  BY DEF Moving, HandMoves, Key
<1>2. job[e] \in Tasks /\ Key(e)[1] = job[e] /\ Alive(job[e])
  BY <1>1, HeldInHand DEF AInv, Keyed, Lasts, Alive, Key
<1>3. Key(e) \in Keys /\ Holds(e)
  BY <1>1, <1>2, HeldInHand DEF AInv, Keyed, Holds
<1>4. Key(e) \in pressed' <=> Key(e) \in pressed \/ Pressing(Key(e))
  BY <1>1, <1>2, <1>3, PressedKept DEF Truth, Alive
<1>5. /\ res'[e] = "succeeded" => Key(e) \in pressed
      /\ res'[e] \in BeforeEnter => Unpressed(Key(e)) /\ pc[e] # "attempted"
  <2>1. CASE pc[e] = "result" /\ res'[e] = res[e]
    BY <1>2, <2>1 DEF Truth, Results
  <2>2. CASE rt[Key(e)] \notin Runtime!InProgress /\ res'[e] = OutcomeOf(rt[Key(e)])
    <3>1. /\ res'[e] = "succeeded" => rt[Key(e)] = "sent"
          /\ res'[e] \in BeforeEnter => rt[Key(e)] \in {"failed", "cancelled"}
      BY <2>2 DEF OutcomeOf, BeforeEnter
    <3>2. pc[e] = "attempted" => rt[Key(e)] = "none"
      BY <1>2 DEF AInv, Keyed, Unseen
    <3> QED
      BY <1>2, <1>3, <2>2, <3>1, <3>2 DEF Truth, RuntimeTells, Unpressed
  <2> QED
    BY <1>1, <2>1, <2>2
<1>6. \A f \in Executors : res'[e] \in BeforeEnter /\ pc[f] = "attempted" => Key(f) # Key(e)
  BY <1>2, <1>3, <1>5 DEF AInv, Keyed, Distinct, Holds, Holding, Key
<1>7. res'[e] \in BeforeEnter => rt'[Key(e)] \notin Runtime!InProgress /\ ~Pressing(Key(e))
  BY <1>3, <1>5, <1>6, OverStays DEF Moving
<1> QED
  BY <1>1, <1>4, <1>5, <1>7 DEF Unpressed

LEMMA ProofsKept ==
  ASSUME AInv, Truth, Lasts, Observe, Moving
  PROVE  Proofs'
<1>0. SUFFICES ASSUME NEW t \in Tasks, Alive(t)', evid'[t] # "nothing"
               PROVE  /\ evid'[t] = "sent" => Latest(t)' \in pressed'
                      /\ evid'[t] \in Denied =>
                           /\ Latest(t)' \in Keys /\ Unpressed(Latest(t))'
                           /\ \A f \in Executors : pc'[f] = "attempted" => Key(f)' # Latest(t)'
  BY EvidenceNames DEF Proofs
<1>1. Latest(t)' = Latest(t) /\ Latest(t)[1] = t /\ Alive(t)
  BY <1>0 DEF Moving, RowMoves, Latest, Lasts
<1>2. /\ evid'[t] = "sent" => Latest(t) \in pressed
      /\ evid'[t] \in Denied =>
           /\ Latest(t) \in Keys /\ Unpressed(Latest(t))
           /\ \A f \in Executors : pc[f] = "attempted" => Key(f) # Latest(t)
  <2>1. CASE evid'[t] = evid[t]
    BY <1>1, <2>1 DEF Truth, Proofs
  <2>2. CASE \E e \in Executors :
               pc[e] = "result" /\ Key(e) = Latest(t) /\ evid'[t] = ProofOf(res[e])
    <3>1. PICK e \in Executors :
            pc[e] = "result" /\ Key(e) = Latest(t) /\ evid'[t] = ProofOf(res[e])
      BY <2>2
    <3>2. job[e] = t /\ Holds(e)
      BY <1>1, <3>1 DEF Key, Latest, Holds, Holding
    <3>3. /\ evid'[t] = "sent" => res[e] = "succeeded"
          /\ evid'[t] \in Denied => res[e] \in BeforeEnter
      BY <3>1, ProofOfDenies DEF ProofOf, BeforeEnter
    <3>4. /\ Key(e) \in Keys /\ (res[e] \in BeforeEnter => Unpressed(Key(e)))
          /\ res[e] = "succeeded" => Key(e) \in pressed
      BY <1>1, <3>1, <3>2, HeldInHand DEF AInv, Keyed, Truth, Results, Holds
    <3>5. \A f \in Executors : pc[f] = "attempted" => Key(f) # Key(e)
      BY <1>1, <3>1, <3>2 DEF AInv, Keyed, Distinct, Holds, Holding, Key
    <3> QED
      BY <3>1, <3>3, <3>4, <3>5
  <2> QED
    BY <1>0, <2>1, <2>2 DEF Moving, RowMoves
<1>3. CASE evid'[t] = "sent"
  <2>1. Latest(t) \in pressed /\ Latest(t) \in Keys
    BY <1>2, <1>3 DEF Truth, PressedTried
  <2>2. Latest(t) \in pressed'
    BY <1>0, <1>1, <2>1, PressedKept DEF Truth, Alive
  <2> QED
    BY <1>1, <1>3, <2>2, EvidenceNames
<1>4. CASE evid'[t] \in Denied
  <2>1. rt'[Latest(t)] \notin Runtime!InProgress /\ ~Pressing(Latest(t))
    BY <1>2, <1>4, OverStays DEF Moving
  <2>2. Latest(t) \notin pressed'
    BY <1>0, <1>1, <1>2, <1>4, <2>1, PressedKept DEF Truth, Unpressed, Alive
  <2>3. ASSUME NEW f \in Executors, pc'[f] = "attempted" PROVE Key(f)' # Latest(t)
    <3>1. CASE pc[f] = "attempted" /\ job'[f] = job[f] /\ no'[f] = no[f]
      BY <1>2, <1>4, <3>1 DEF Key
    <3>2. CASE job'[f] = job[f] /\ evid'[job[f]] \notin Denied
      BY <1>1, <1>4, <3>2 DEF Key
    <3> QED
      BY <2>3, <3>1, <3>2 DEF Moving, HandMoves
  <2> QED
    BY <1>1, <1>2, <1>4, <2>1, <2>2, <2>3, EvidenceNames DEF Unpressed
<1> QED
  BY <1>3, <1>4

LEMMA SuccessesKept ==
  ASSUME AInv, Truth, Lasts, Observe, Moving
  PROVE  Successes'
<1> SUFFICES ASSUME NEW t \in Tasks, status'[t] = "succeeded"
             PROVE  \E n \in 1 .. MaxAttempts : <<t, n>> \in pressed'
  BY DEF Successes
<1>1. Alive(t)' /\ Alive(t)
  BY DEF Alive, Lasts
<1>2. ASSUME NEW n \in 1 .. MaxAttempts, <<t, n>> \in pressed PROVE <<t, n>> \in pressed'
  BY <1>1, <1>2, PressedKept DEF Truth, Keys
<1>3. CASE status[t] = "succeeded"
  BY <1>2, <1>3 DEF Truth, Successes
<1>4. ASSUME NEW e \in Executors, pc[e] = "result", job[e] = t, res[e] = "succeeded"
      PROVE  \E n \in 1 .. MaxAttempts : <<t, n>> \in pressed
  <2>1. Key(e) \in pressed
    BY <1>1, <1>4 DEF Truth, Results
  <2>2. Key(e) = <<t, no[e]>> /\ no[e] \in 1 .. MaxAttempts
    BY <1>4, <2>1 DEF Key, Truth, PressedTried, Keys
  <2> QED
    BY <2>1, <2>2
<1>5. CASE evid[t] = "sent"
  <2>1. Latest(t) \in pressed
    BY <1>1, <1>5 DEF Truth, Proofs
  <2>2. Latest(t) = <<t, attempts[t]>> /\ attempts[t] \in 1 .. MaxAttempts
    BY <2>1 DEF Latest, Truth, PressedTried, Keys
  <2> QED
    BY <1>2, <2>1, <2>2
<1> QED
  BY <1>2, <1>3, <1>4, <1>5 DEF Moving, StatusMoves

LEMMA TruthKept ==
  ASSUME AInv, Truth, Lasts, Observe, Moving, Typed', Keyed'
  PROVE  Truth'
BY PressedTriedKept, RuntimeTellsKept, NewKeysKept, ResultsKept, ProofsKept, SuccessesKept DEF Truth

\* The kinds of step: one that leaves the runtime alone, the tables of attempts
\* alone, records no success, or changes what one executor has in hand.
LEMMA HandsStill ==
  ASSUME Typed, NEW e \in Executors, Moves(e)
  PROVE  /\ pc'[e] \notin {"attempted", "result"} => \A f \in Executors : HandMoves(f)
         /\ HandMoves(e) => \A f \in Executors : HandMoves(f)
BY DEF Moves, Stays, HandMoves, Holding

LEMMA HandsUnchanged ==
  ASSUME UNCHANGED <<pc, job, no, res>>
  PROVE  \A f \in Executors : HandMoves(f)
BY DEF HandMoves, Holding

LEMMA HandsConclude ==
  ASSUME Typed, NEW e \in Executors, pc[e] \in Holding, NEW outcome \in Outcomes,
         Conclude(e, outcome),
         \/ outcome \notin BeforeEnter \cup {"succeeded"}
         \/ rt[Key(e)] \notin Runtime!InProgress /\ outcome = OutcomeOf(rt[Key(e)])
  PROVE  \A f \in Executors : HandMoves(f)
<1>1. /\ Moves(e) /\ pc'[e] = "result" /\ job'[e] = job[e] /\ no'[e] = no[e]
      /\ res'[e] = outcome
  BY MovesLocal
<1>2. HandMoves(e)
  BY <1>1 DEF HandMoves
<1> QED
  BY <1>1, <1>2, HandsStill

LEMMA HandsInsert ==
  ASSUME Typed, NEW e \in Executors, pc[e] \in HasJob, InsertAttempt(e)
  PROVE  /\ \A f \in Executors : HandMoves(f)
         /\ \A t \in Tasks : RowMoves(t)
<1>1. /\ no[e] + 1 \notin rows[job[e]] /\ job[e] \in Tasks
      /\ pc' = [pc EXCEPT ![e] = "attempted"] /\ no' = [no EXCEPT ![e] = no[e] + 1]
      /\ job' = job /\ res' = res
      /\ rows' = [rows EXCEPT ![job[e]] = @ \cup {no[e] + 1}]
      /\ evid' = [evid EXCEPT ![job[e]] = "nothing"]
      /\ \A t \in Tasks \ {job[e]} : attempts'[t] = attempts[t]
  BY DEF InsertAttempt, WriteAttempt, Goto, Typed, TypeOK, InHand
<1>2. evid'[job[e]] = "nothing" /\ evid'[job[e]] \notin Denied /\ no'[e] = no[e] + 1 /\ pc'[e] = "attempted"
      /\ \A f \in Executors \ {e} : pc'[f] = pc[f] /\ no'[f] = no[f]
  BY <1>1, EvidenceNames DEF Typed, TypeOK
<1>3. ASSUME NEW f \in Executors PROVE HandMoves(f)
  <2>1. CASE f = e
    BY <1>1, <1>2, <2>1 DEF HandMoves
  <2>2. CASE f # e
    BY <1>1, <1>2, <2>2 DEF HandMoves, Holding
  <2> QED
    BY <2>1, <2>2
<1>4. ASSUME NEW t \in Tasks PROVE RowMoves(t)
  BY <1>1, <1>2 DEF RowMoves, Typed, TypeOK
<1> QED
  BY <1>3, <1>4

LEMMA RowsUnchanged ==
  ASSUME UNCHANGED <<rows, evid, attempts>>
  PROVE  \A t \in Tasks : RowMoves(t)
BY DEF RowMoves

LEMMA NoSuccess ==
  ASSUME Typed, status' = status \/ \E t : \E s \in TaskStatus \ {"succeeded"} : status' = WithStatus(t, s)
  PROVE  \A t \in Tasks : StatusMoves(t)
BY DEF StatusMoves, WithStatus, Typed, TypeOK

LEMMA OtherStatuses ==
  {"pending", "running", "cancelled", "interrupted", "failed"} \subseteq TaskStatus \ {"succeeded"}
BY DEF TaskStatus, ActiveTask, SettledTask

LEMMA KeysUnchanged == ASSUME rt' = rt PROVE \A k \in Keys : KeyMoves(k)
BY DEF KeyMoves

LEMMA KeysAccepted ==
  ASSUME Typed, NEW e \in Executors, pc[e] = "attempted", Accepted(Key(e)) \/ UNCHANGED rt
  PROVE  \A k \in Keys : KeyMoves(k)
<1>1. rt' = rt \/ (rt[Key(e)] = "none" /\ rt' = [rt EXCEPT ![Key(e)] = "running"])
  BY DEF Accepted, Runtime!Accept
<1> QED
  BY <1>1 DEF KeyMoves, Typed, TypeOK

LEMMA MovingApi ==
  ASSUME Lasting, Typed, ApiStep
  PROVE  Moving
<1>0. /\ pc \in [Executors -> WorkerPc \cup CallerPc] /\ status \in [Tasks -> TaskStatus \cup Gone]
      /\ Callers \subseteq Executors
  BY DEF Typed, TypeOK, Executors
<1>1. rt' = rt
  BY DEF ApiStep, CreateBatch, MarkDraft, ClearBatches, StartCheck, PauseCheck,
         CancelBatchCheck, CancelTaskCheck, RetryCheck, RunTaskCheck, Accept, StartCommit,
         PauseCommit, CancelBatchCommit, CancelTasks, CancelTaskCommit, RetryCommit,
         RunTaskCommit, taskVars, runtimeVars
<1>2. ASSUME NEW t \in Tasks PROVE RowMoves(t)
  <2>1. CASE ClearBatches
    BY <2>1 DEF ClearBatches, Lasting, Alive, RowMoves
  <2>2. CASE UNCHANGED <<rows, evid, attempts>>
    BY <2>2, RowsUnchanged
  <2> QED
    BY <2>1, <2>2 DEF ApiStep, CreateBatch, MarkDraft, StartCheck, PauseCheck,
         CancelBatchCheck, CancelTaskCheck, RetryCheck, RunTaskCheck, Accept, StartCommit,
         PauseCommit, CancelBatchCommit, CancelTasks, CancelTaskCommit, RetryCommit,
         RunTaskCommit, taskVars
<1>3. ASSUME NEW t \in Tasks PROVE StatusMoves(t)
  <2>1. CASE ClearBatches \/ \E b \in Batches : CreateBatch(b)
    BY <2>1 DEF ClearBatches, CreateBatch, StatusMoves
  <2>2. ASSUME NEW c \in Callers, CancelBatchCommit(c) PROVE StatusMoves(t)
    BY <2>2 DEF CancelBatchCommit, CancelTasks, StatusMoves
  <2>3. ASSUME NEW c \in Callers, CancelTaskCommit(c) \/ RetryCommit(c) \/ RunTaskCommit(c)
        PROVE  StatusMoves(t)
    BY <2>3, NoSuccess, OtherStatuses DEF CancelTaskCommit, RetryCommit, RunTaskCommit
  <2>4. CASE status' = status
    BY <2>4, NoSuccess
  <2> QED
    BY <2>1, <2>2, <2>3, <2>4
       DEF ApiStep, MarkDraft, StartCheck, PauseCheck, CancelBatchCheck, CancelTaskCheck,
           RetryCheck, RunTaskCheck, Accept, StartCommit, PauseCommit, taskVars
<1>4. \A f \in Executors : HandMoves(f)
  <2>1. CASE \/ ClearBatches \/ \E b \in Batches : CreateBatch(b)
             \/ \E d \in Drafts : MarkDraft(d, "sent") \/ MarkDraft(d, "pending")
    BY <2>1, HandsUnchanged DEF CreateBatch, MarkDraft, ClearBatches, localVars
  <2>2. ASSUME NEW c \in Callers, NEW op \in CallerPc \ {"attempted", "result"}, NEW t, NEW b,
               Accept(c, op, t, b)
        PROVE  \A f \in Executors : HandMoves(f)
    <3>1. /\ pc' = [pc EXCEPT ![c] = op] /\ job' = [job EXCEPT ![c] = t]
          /\ UNCHANGED <<no, res>>
      BY <2>2 DEF Accept
    <3> QED
      BY <1>0, <2>2, <3>1 DEF HandMoves, Holding, Typed, TypeOK
  <2>3. ASSUME NEW c \in Callers,
               \/ \E b \in Batches : StartCheck(c, b) \/ PauseCheck(c, b) \/ CancelBatchCheck(c, b)
               \/ \E t \in Tasks : CancelTaskCheck(c, t) \/ RetryCheck(c, t) \/ RunTaskCheck(c, t)
        PROVE  \A f \in Executors : HandMoves(f)
    BY <2>2, <2>3 DEF StartCheck, PauseCheck, CancelBatchCheck, CancelTaskCheck, RetryCheck,
         RunTaskCheck, CallerPc
  <2>4. ASSUME NEW c \in Callers,
               \/ StartCommit(c) \/ PauseCommit(c) \/ CancelBatchCommit(c)
               \/ CancelTaskCommit(c) \/ RetryCommit(c) \/ RunTaskCommit(c)
        PROVE  \A f \in Executors : HandMoves(f)
    <3>1. CASE Answered(c)
      BY <1>0, <3>1, MovesLocal, HandsStill
    <3>2. CASE /\ pc' = [pc EXCEPT ![c] = "ready"] /\ UNCHANGED <<job, res>>
               /\ no' = [no EXCEPT ![c] = attempts[job[c]]]
      BY <1>0, <3>2 DEF HandMoves, Holding, Typed, TypeOK
    <3> QED
      BY <2>4, <3>1, <3>2
         DEF StartCommit, PauseCommit, CancelBatchCommit, CancelTasks, CancelTaskCommit,
             RetryCommit, RunTaskCommit
  <2> QED
    BY <2>1, <2>3, <2>4 DEF ApiStep
<1> QED
  BY <1>1, <1>2, <1>3, <1>4, KeysUnchanged DEF Moving

\* The result and the proof that are recorded are those of the attempt in hand.
LEMMA MovingRecord ==
  ASSUME Typed, NEW e \in Executors, pc[e] = "result", job[e] \in Tasks, Finish(e), rt' = rt,
         UNCHANGED <<rows, attempts>>, NEW s \in TaskStatus, NEW m,
         \/ UNCHANGED <<status, evid>> \/ Record(job[e], no[e], s, m, ProofOf(res[e])),
         s = "succeeded" => res[e] = "succeeded"
  PROVE  Moving
<1>1. \A f \in Executors : HandMoves(f)
  <2>1. Moves(e) /\ pc'[e] \in {"idle", "release"}
    BY MovesLocal
  <2> QED
    BY <2>1, HandsStill
<1>2. ASSUME NEW t \in Tasks PROVE RowMoves(t)
  <2>1. \/ evid'[t] = evid[t]
        \/ t = job[e] /\ no[e] = attempts[t] /\ evid'[t] = ProofOf(res[e])
    BY DEF Record, Typed, TypeOK
  <2> QED
    BY <2>1 DEF RowMoves, Key, Latest
<1>3. ASSUME NEW t \in Tasks PROVE StatusMoves(t)
  BY DEF StatusMoves, Record, WithStatus, Typed, TypeOK
<1> QED
  BY <1>1, <1>2, <1>3, KeysUnchanged DEF Moving

LEMMA MovingRun ==
  ASSUME Typed, NEW e \in Executors, RunStep(e)
  PROVE  Moving
<1>1. CASE PasteAttempt(e)
  <2>1. InsertAttempt(e) /\ pc[e] \in HasJob /\ rt' = rt /\ status' = status
    BY <1>1 DEF PasteAttempt, InsertAttempt, WriteAttempt, HasJob, runtimeVars
  <2> QED
    BY <2>1, HandsInsert, NoSuccess, KeysUnchanged DEF Moving
<1>2. CASE CallPaste(e)
  <2>1. /\ pc[e] = "attempted" /\ UNCHANGED <<status, rows, evid, attempts>>
        /\ Accepted(Key(e)) \/ UNCHANGED rt
        /\ \E outcome \in Outcomes \ (BeforeEnter \cup {"succeeded"}) : Conclude(e, outcome)
    BY <1>2 DEF CallPaste, taskVars, Outcomes, BeforeEnter
  <2> QED
    BY <2>1, HandsConclude, RowsUnchanged, NoSuccess, KeysAccepted DEF Moving, Holding
<1>3. CASE AttemptFailed(e)
  <2>1. /\ UNCHANGED <<rows, evid, attempts, rt>> /\ Finish(e)
        /\ status' = status \/ status' = WithStatus(job[e], "interrupted")
    BY <1>3 DEF AttemptFailed, runtimeVars
  <2>2. Moves(e) /\ pc'[e] \in {"idle", "release"}
    BY <2>1, MovesLocal
  <2> QED
    BY <2>1, <2>2, HandsStill, RowsUnchanged, NoSuccess, KeysUnchanged, OtherStatuses DEF Moving
<1>4. CASE Persist(e) \/ PersistFallback(e) \/ PersistLost(e)
  <2>1. /\ pc[e] = "result" /\ job[e] \in Tasks /\ res[e] \in Outcomes
        /\ Finish(e) /\ UNCHANGED <<rows, attempts, rt>>
    BY <1>4 DEF Persist, PersistFallback, PersistLost, Typed, InHand, HasJob, taskVars, runtimeVars
  <2>2. CASE UNCHANGED <<status, evid>>
    BY <2>1, <2>2, MovingRecord, StatusNames
  <2>3. CASE Record(job[e], no[e], TaskStatusFor(res[e]), DraftAfter(TaskStatusFor(res[e])),
                    ProofOf(res[e]))
    BY <2>1, <2>3, MovingRecord, TaskStatusForType DEF TaskStatusFor
  <2>4. CASE \E m : Record(job[e], no[e], "interrupted", m, ProofOf(res[e]))
    BY <2>1, <2>4, MovingRecord, StatusNames
  <2> QED
    BY <1>4, <2>2, <2>3, <2>4 DEF Persist, PersistFallback, PersistLost, taskVars
<1> QED
  BY <1>1, <1>2, <1>3, <1>4 DEF RunStep

LEMMA MovingWorker ==
  ASSUME Typed, NEW w \in Workers, WorkerStep(w)
  PROVE  Moving
<1>0. /\ w \in Executors /\ pc \in [Executors -> WorkerPc \cup CallerPc]
      /\ job \in [Executors -> Tasks \cup {None}]
  BY DEF Executors, Typed, TypeOK
<1>1. CASE SendAttempt(w)
  <2>1. InsertAttempt(w) /\ pc[w] \in HasJob /\ rt' = rt /\ status' = status
    BY <1>1 DEF SendAttempt, InsertAttempt, WriteAttempt, HasJob, runtimeVars
  <2> QED
    BY <1>0, <2>1, HandsInsert, NoSuccess, KeysUnchanged DEF Moving
<1>2. CASE CallSend(w)
  <2>1. /\ pc[w] = "attempted" /\ UNCHANGED <<status, rows, evid, attempts>>
        /\ Accepted(Key(w)) \/ UNCHANGED rt
        /\ \/ LocalStep(w, "polling")
           \/ \E outcome \in Outcomes \ (BeforeEnter \cup {"succeeded"}) : Conclude(w, outcome)
    BY <1>2 DEF CallSend, taskVars, Outcomes, BeforeEnter
  <2>2. \A f \in Executors : HandMoves(f)
    BY <1>0, <2>1, MovesLocal, HandsStill, HandsConclude DEF Holding, WorkerPc
  <2> QED
    BY <1>0, <2>1, <2>2, RowsUnchanged, NoSuccess, KeysAccepted DEF Moving
<1>3. ASSUME ~SendAttempt(w), ~CallSend(w) PROVE Moving
  <2>1. UNCHANGED <<rows, evid, attempts, rt>>
    BY <1>3
       DEF WorkerStep, Start, Recovered, ReconcileAbort, Reconcile, ReconcileFallback,
           RecoverTask, Claim, ClaimNothing, Release, ReadTask, CancelClaimed, SendStarted,
           PollTerminal, PollTimeout, CancelPollGiveUp, taskVars, runtimeVars
  <2>2. ASSUME NEW t \in Tasks PROVE StatusMoves(t)
    <3>1. CASE Claim(w)
      BY <3>1 DEF Claim, StatusMoves, Typed, TypeOK
    <3>2. CASE \/ status' = status
               \/ \E u : \E s \in TaskStatus \ {"succeeded"} : status' = WithStatus(u, s)
      BY <3>2, NoSuccess
    <3>3. ASSUME NEW u \in Tasks, Reconcile(w, u) PROVE StatusMoves(t)
      <4>1. status' = WithStatus(u, RecoveredAs(u)) /\ u \in todo[w]
        BY <3>3 DEF Reconcile, RecoverTask
      <4> QED
        BY <4>1, RecoveredAsType DEF StatusMoves, WithStatus, Alive, Gone, Typed, TypeOK
    <3> QED
      BY <1>3, <3>1, <3>2, <3>3, OtherStatuses
         DEF WorkerStep, Start, Recovered, ReconcileAbort, ReconcileFallback,
             RecoverTask, ClaimNothing, Release, ReadTask, CancelClaimed, SendStarted,
             PollTerminal, PollTimeout, CancelPollGiveUp, taskVars
  <2>3. ASSUME NEW f \in Executors PROVE HandMoves(f)
    <3>1. CASE Start(w) \/ Recovered(w) \/ ReconcileAbort(w)
      <4>1. /\ \E step \in WorkerPc \ {"attempted", "result"} : pc' = [pc EXCEPT ![w] = step]
            /\ UNCHANGED <<job, no, res>>
        BY <3>1 DEF Start, Recovered, ReconcileAbort, Goto, WorkerPc
      <4> QED
        BY <1>0, <4>1 DEF HandMoves, Holding
    <3>2. CASE ClaimNothing(w) \/ \E t \in Tasks : Reconcile(w, t) \/ ReconcileFallback(w, t)
      BY <3>2, HandsUnchanged DEF ClaimNothing, Reconcile, ReconcileFallback, RecoverTask, localVars
    <3>3. CASE Claim(w) \/ ReadTask(w)
      <4>1. /\ pc'[w] \notin {"attempted", "result"}
            /\ f # w => Stays(f)
        BY <1>0, <3>3 DEF Claim, ReadTask, Goto, Stays, Typed, TypeOK
      <4> QED
        BY <4>1 DEF HandMoves, Stays, Holding
    <3>4. CASE Release(w)
      BY <3>4 DEF Release, Forget, HandMoves, Holding
    <3>5. CASE CancelClaimed(w) \/ SendStarted(w)
      BY <1>0, <3>5, MovesLocal, HandsStill DEF CancelClaimed, SendStarted, WorkerPc
    <3>6. CASE PollTerminal(w)
      <4>1. /\ pc[w] \in Holding /\ rt[Key(w)] \notin Runtime!InProgress
            /\ Conclude(w, OutcomeOf(rt[Key(w)])) /\ OutcomeOf(rt[Key(w)]) \in Outcomes
        BY <3>6, OutcomeType DEF PollTerminal, Holding
      <4> QED
        BY <1>0, <4>1, HandsConclude
    <3>7. CASE PollTimeout(w) \/ CancelPollGiveUp(w)
      <4>1. /\ pc[w] \in Holding
            /\ LocalStep(w, "cancel_polling") \/ Conclude(w, "interrupted")
        BY <3>7 DEF PollTimeout, CancelPollGiveUp, Holding
      <4> QED
        BY <1>0, <4>1, MovesLocal, HandsStill, HandsConclude DEF Outcomes, BeforeEnter, WorkerPc
    <3> QED
      BY <1>3, <3>1, <3>2, <3>3, <3>4, <3>5, <3>6, <3>7 DEF WorkerStep
  <2> QED
    BY <2>1, <2>2, <2>3, KeysUnchanged, RowsUnchanged DEF Moving
<1> QED
  BY <1>1, <1>2, <1>3

LEMMA MovingRest ==
  ASSUME Typed, Environment \/ (\E k \in Keys : RuntimeStep(k)) \/ UNCHANGED vars
  PROVE  Moving
<1>0. pc \in [Executors -> WorkerPc \cup CallerPc] /\ rt \in [Keys -> Runtime!States]
  BY DEF Typed, TypeOK
<1>1. UNCHANGED <<status, rows, evid, attempts>>
  BY DEF Environment, RuntimeStep, PressEnter, EndRuntimeTask, RtStep, RuntimeRestart,
         LeaseExpire, RenewStop, Stop, Crash, TransactionFailed, taskVars, vars
<1>2. ASSUME NEW k \in Keys PROVE KeyMoves(k)
  <2>1. ASSUME NEW j \in Keys, RuntimeStep(j) PROVE KeyMoves(k)
    <3>1. PICK s : rt' = [rt EXCEPT ![j] = s] /\
            \/ rt[j] = "running" /\ s \in {"entered", "pasted"} \cup Runtime!NotEntered
            \/ rt[j] = "entered" /\ s \in Runtime!Entered
      BY <2>1
         DEF RuntimeStep, PressEnter, EndRuntimeTask, Runtime!Enter, Runtime!End, Runtime!Ends
    <3> QED
      BY <1>0, <3>1 DEF KeyMoves
  <2>2. CASE RuntimeRestart
    BY <2>2 DEF RuntimeRestart, Runtime!Restart, KeyMoves
  <2>3. CASE rt' = rt
    BY <2>3, KeysUnchanged
  <2> QED
    BY <2>1, <2>2, <2>3
       DEF Environment, LeaseExpire, RenewStop, Stop, Crash, TransactionFailed, runtimeVars, vars
<1>3. ASSUME NEW f \in Executors PROVE HandMoves(f)
  <2>1. CASE \E w \in Workers : Stop(w) \/ Crash(w)
    BY <2>1 DEF Stop, Crash, Forget, HandMoves, Holding
  <2>2. ASSUME NEW e \in Executors, TransactionFailed(e) PROVE HandMoves(f)
    <3>1. Moves(e) /\ pc'[e] \in {"idle", "release"}
      BY <2>2, MovesLocal DEF TransactionFailed
    <3> QED
      BY <3>1, HandsStill
  <2>3. CASE UNCHANGED <<pc, job, no, res>>
    BY <2>3, HandsUnchanged
  <2> QED
    BY <2>1, <2>2, <2>3
       DEF Environment, RuntimeRestart, LeaseExpire, RenewStop, RuntimeStep, PressEnter,
           EndRuntimeTask, RtStep, localVars, vars
<1> QED
  BY <1>1, <1>2, <1>3, RowsUnchanged, NoSuccess DEF Moving

LEMMA TruthNext ==
  ASSUME Lasting, AInv, Typed', Truth, [Next /\ Observe]_<<vars, pressed>>
  PROVE  Truth' /\ AInv' /\ [Next]_vars
<1>1. [Next]_vars
  BY DEF vars
<1>2. AInv' /\ Lasts
  BY <1>1, AttemptsNext
<1>3. CASE Next /\ Observe
  <2>1. Moving
    BY <1>3, MovingApi, MovingRun, MovingWorker, MovingRest DEF Next, AInv
  <2> QED
    BY <1>1, <1>2, <1>3, <2>1, TruthKept DEF AInv
<1>4. CASE UNCHANGED <<vars, pressed>>
  <2>1. UNCHANGED <<status, rows, evid, attempts, rt, pc, job, no, res, pressed>>
    BY <1>4 DEF vars, taskVars, localVars, runtimeVars
  <2> QED
    BY <1>1, <1>2, <2>1
       DEF Truth, PressedTried, RuntimeTells, NewKeys, Results, Proofs, Successes, Alive, Key,
           Latest, Unpressed
<1> QED
  BY <1>3, <1>4

LEMMA TruthInvariant ==
  ASSUME Lasting
  PROVE  HSpec => [](AInv /\ Truth)
<1>1. Init /\ pressed = {} => Truth
  BY EvidenceNames
     DEF Init, Runtime!Init, Truth, PressedTried, RuntimeTells, NewKeys, Results, Proofs,
         Successes, Executors, Keys
<1>2. [Next /\ Observe]_<<vars, pressed>> => [Next]_vars
  BY DEF vars
<1>3. HSpec => Spec
  BY <1>2, PTL DEF HSpec, Spec
<1>4. Spec => [](AInv /\ Typed)
  BY AttemptsInvariant, Typing, PTL
<1>5. AInv /\ Typed' /\ Truth /\ [Next /\ Observe]_<<vars, pressed>> => Truth'
  BY TruthNext
<1> QED
  BY <1>1, <1>3, <1>4, <1>5, PTL DEF HSpec

\* What the database says of an attempt is what happened: a send recorded as
\* succeeded had Enter pressed by an attempt of its own, and no Enter was or
\* will be pressed by a latest attempt said to have failed or been cancelled
\* before Enter, on which a retry and the recovery at startup rely
\* (_get_send_task_retry_state, reconcile_running_executions).  It holds for any
\* number of workers that race for a task or take it from one another, with
\* every request, crash and lost answer, where the ids of deleted tasks are not
\* given again.
THEOREM RecordsTrue ==
  ASSUME Lasting
  PROVE  HSpec => []TrueRecord
<1>1. Truth => TrueRecord
  BY DEF Truth, Successes, Proofs, Latest, TrueRecord, Alive, Gone
<1> QED
  BY <1>1, TruthInvariant, PTL
=============================================================================
