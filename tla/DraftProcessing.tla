--------------------------- MODULE DraftProcessing ---------------------------
(***************************************************************************)
(* Reply drafts of one customer message (database mode): the claim of the  *)
(* message for a generation, the generation, the recording of its result,  *)
(* recovery of runs that somebody left open, and what users do to the      *)
(* message and its drafts meanwhile.                                       *)
(*                                                                         *)
(* An action is one transaction, one read outside of the transaction that  *)
(* uses it, or what happens in memory between two of them.  The reads of a *)
(* claim are a step of their own: neither database locks the rows it       *)
(* reads, the unique index over open runs is what decides.                 *)
(*                                                                         *)
(* A generation inserts at most one run and one draft, so a request stands *)
(* for its own rows; runs and drafts of other messages are never touched.  *)
(***************************************************************************)
EXTENDS Naturals, FiniteSets

CONSTANTS
  Requests,   \* calls of generate_draft, manual or automatic
  Editors,    \* calls of update_draft
  Processes,  \* of the backend, on one database
  HostOf,     \* [Requests -> Processes]
  MaxLives,   \* messages that get this row id (SQLite gives ids again)
  MaxFaults,
  None

Makers == Requests \cup Editors   \* of drafts

ASSUME CallAssumption ==
  /\ Requests \cap Editors = {} /\ None \notin Makers
  /\ HostOf \in [Requests -> Processes]
ASSUME BoundAssumption == MaxLives \in Nat /\ MaxFaults \in Nat

VARIABLES
  message,  \* status of the message, "absent" without a row
  life,     \* how many messages have had the row id
  run,      \* request -> its run: open (processing), stale (processing for too long), ...
  latest,   \* the newest run
  draft,    \* maker -> its draft
  newest,   \* the newest draft
  up,       \* processes that run
  lock,     \* process -> request that holds the lock of the message
  pc,       \* request -> step
  found,    \* request -> newest run and its status, as its claim has read them
  edit,     \* editor -> step, and whether it has found an active draft
  faults

database == <<message, life, run, latest, draft, newest>>
vars == <<message, life, run, latest, draft, newest, up, lock, pc, found, edit, faults>>

Messages == {"absent", "pending", "processing", "draft_ready", "failed", "processed", "skipped"}
RunStates == {"none", "open", "stale", "succeeded", "failed"}
Open == {"open", "stale"}   \* status processing
DraftStates == {"none", "active", "superseded", "deleted"}
Steps == {"idle", "claiming", "running", "saved", "failing", "done"}
NoRun == [by |-> None, was |-> "none"]

TypeOK ==
  /\ message \in Messages /\ life \in 0 .. MaxLives
  /\ run \in [Requests -> RunStates] /\ latest \in Requests \cup {None}
  /\ draft \in [Makers -> DraftStates] /\ newest \in Makers \cup {None}
  /\ up \subseteq Processes /\ lock \in [Processes -> Requests \cup {None}]
  /\ pc \in [Requests -> Steps]
  /\ found \in [Requests -> [by : Requests \cup {None}, was : RunStates]]
  /\ edit \in [Editors -> {"idle", "update", "insert", "done"}]
  /\ faults \in 0 .. MaxFaults

Init ==
  /\ message = "absent" /\ life = 0
  /\ run = [r \in Requests |-> "none"] /\ latest = None
  /\ draft = [x \in Makers |-> "none"] /\ newest = None
  /\ up = Processes /\ lock = [p \in Processes |-> None]
  /\ pc = [r \in Requests |-> "idle"]
  /\ found = [r \in Requests |-> NoRun]
  /\ edit = [e \in Editors |-> "idle"]
  /\ faults = 0

-----------------------------------------------------------------------------
Present == message # "absent"

\* An update of the message's row, which may be gone.
SetMessage(status) == message' = IF Present THEN status ELSE "absent"

Live(r) == HostOf[r] \in up

\* Leaves the lock of the message (async with).
Leave(r) ==
  /\ pc' = [pc EXCEPT ![r] = "done"]
  /\ lock' = [lock EXCEPT ![HostOf[r]] = None]

Goto(r, step) == pc' = [pc EXCEPT ![r] = step] /\ UNCHANGED lock

Fault == faults < MaxFaults /\ faults' = faults + 1

ActiveDraft == \E x \in Makers : draft[x] = "active"

-----------------------------------------------------------------------------
(* Claim *)

LatestRun ==
  IF latest = None THEN NoRun ELSE [by |-> latest, was |-> run[latest]]

\* The message has a run in progress, or a draft already.
Claimed(last) ==
  \/ last.was = "open"
  \/ last.was = "succeeded" /\ ActiveDraft

\* The lock, the message's row, and the reads of _atomic_claim_processing.
Begin(r) ==
  /\ pc[r] = "idle" /\ Live(r) /\ lock[HostOf[r]] = None /\ Present
  /\ IF Claimed(LatestRun)
       THEN pc' = [pc EXCEPT ![r] = "done"] /\ UNCHANGED <<lock, found>>
       ELSE /\ pc' = [pc EXCEPT ![r] = "claiming"]
            /\ lock' = [lock EXCEPT ![HostOf[r]] = r]
            /\ found' = [found EXCEPT ![r] = LatestRun]
  /\ UNCHANGED <<database, up, edit, faults>>

\* The run that the claim found is given up: it is stale, or its draft is gone.
GivenUp(r) ==
  IF found[r].was \in {"stale", "succeeded"} THEN {found[r].by} ELSE {}

RunsAfterClaim(r) ==
  [x \in Requests |-> IF x = r THEN "open" ELSE IF x \in GivenUp(r) THEN "failed" ELSE run[x]]

\* The unique index over open runs.
OpenElsewhere(r) == \E x \in Requests \ GivenUp(r) : run[x] \in Open

Claim(r) ==
  /\ ~OpenElsewhere(r)
  /\ run' = RunsAfterClaim(r)
  /\ latest' = r
  /\ SetMessage("processing")

\* The insert violates the index: the transaction is rolled back.
ClaimConflict(r) ==
  /\ pc[r] = "claiming" /\ OpenElsewhere(r)
  /\ Leave(r)
  /\ UNCHANGED <<database, up, found, edit, faults>>

ClaimCommit(r) ==
  /\ pc[r] = "claiming" /\ Claim(r)
  /\ Goto(r, "running")
  /\ UNCHANGED <<life, draft, newest, up, found, edit, faults>>

\* Cancelled while the transaction commits: run_id is not assigned yet, and
\* nobody finalizes the run.
ClaimCancelled(r) ==
  /\ Fault /\ pc[r] = "claiming" /\ Claim(r)
  /\ Leave(r)
  /\ UNCHANGED <<life, draft, newest, up, found, edit>>

-----------------------------------------------------------------------------
(* Generation *)

\* Mutant: the active draft stays active.
Beside(x) == [draft EXCEPT ![x] = "active"]

\* _save_draft.
Superseding(x) ==
  [y \in Makers |-> IF y = x THEN "active"
                    ELSE IF draft[y] = "active" THEN "superseded" ELSE draft[y]]

\* The pipeline has answered; draft, run and message are written together.
Save(r) ==
  /\ pc[r] = "running"
  /\ draft' = Superseding(r) /\ newest' = r
  /\ run' = [run EXCEPT ![r] = "succeeded"]
  /\ SetMessage("draft_ready")
  /\ Goto(r, "saved")
  /\ UNCHANGED <<life, latest, up, found, edit, faults>>

\* The draft is read again and returned.
Return(r) ==
  /\ pc[r] = "saved" /\ draft[r] # "deleted"
  /\ Leave(r)
  /\ UNCHANGED <<database, up, found, edit, faults>>

\* The pipeline fails, takes too long, or its result cannot be written; or the
\* draft is gone when it is read again.
Fail(r) ==
  /\ \/ pc[r] = "running"
     \/ pc[r] = "saved" /\ draft[r] = "deleted"
  /\ Goto(r, "failing")
  /\ UNCHANGED <<database, up, found, edit, faults>>

\* The task is cancelled, also after its result has been committed.
Cancel(r) ==
  /\ Fault /\ pc[r] \in {"running", "saved"}
  /\ Goto(r, "failing")
  /\ UNCHANGED <<database, up, found, edit>>

\* Mutant: the message is left as it is.
Unfinished == message' = message

FailMessage == SetMessage("failed")

\* _finalize_failed_processing.
Finalize(r) ==
  /\ pc[r] = "failing"
  /\ run' = [run EXCEPT ![r] = "failed"]
  /\ FailMessage
  /\ Leave(r)
  /\ UNCHANGED <<life, latest, draft, newest, up, found, edit, faults>>

\* The failure cannot be written either, which is only logged.
FinalizeLost(r) ==
  /\ Fault /\ pc[r] = "failing"
  /\ Leave(r)
  /\ UNCHANGED <<database, up, found, edit>>

-----------------------------------------------------------------------------
(* Crash and recovery *)

Crash(p) ==
  /\ Fault /\ p \in up
  /\ up' = up \ {p}
  /\ lock' = [lock EXCEPT ![p] = None]
  /\ pc' = [r \in Requests |-> IF HostOf[r] = p /\ pc[r] # "idle" THEN "done" ELSE pc[r]]
  /\ UNCHANGED <<database, found, edit>>

\* reconcile_stale_processing_runs, at startup.
Restart(p) ==
  /\ p \notin up
  /\ up' = up \cup {p}
  /\ run' = [r \in Requests |-> IF run[r] = "stale" THEN "failed" ELSE run[r]]
  /\ message' = IF message = "processing" /\ \E r \in Requests : run[r] = "stale"
                  THEN "failed" ELSE message
  /\ UNCHANGED <<life, latest, draft, newest, lock, pc, found, edit, faults>>

\* Mutant: a run counts as stale while it is worked on.
AgesAnyway(r) == run[r] = "open"

\* A run is stale after five minutes, and a generation is over, one way or the
\* other, after two (the defaults).
Ages(r) == run[r] = "open" /\ pc[r] = "done"

Age(r) ==
  /\ Ages(r)
  /\ run' = [run EXCEPT ![r] = "stale"]
  /\ UNCHANGED <<message, life, latest, draft, newest, up, lock, pc, found, edit, faults>>

-----------------------------------------------------------------------------
(* Users *)

\* A message is ingested (a redelivered one is a duplicate and changes nothing).
Ingest ==
  /\ ~Present /\ life < MaxLives
  /\ message' = "pending" /\ life' = life + 1
  /\ UNCHANGED <<run, latest, draft, newest, up, lock, pc, found, edit, faults>>

\* process_message, skip_message, delete_draft without an id; update_draft of a
\* draft named by its id.  None looks at the status.
Mark(status) ==
  /\ Present
  /\ status = "draft_ready" => \E x \in Makers : draft[x] \in {"active", "superseded"}
  /\ message' = status
  /\ UNCHANGED <<life, run, latest, draft, newest, up, lock, pc, found, edit, faults>>

DeleteDraft(x) ==
  /\ Present /\ draft[x] \in {"active", "superseded"}
  /\ draft' = [draft EXCEPT ![x] = "deleted"]
  /\ message' = "pending"
  /\ UNCHANGED <<life, run, latest, newest, up, lock, pc, found, edit, faults>>

\* Runs and drafts of the message stay.
DeleteMessage ==
  /\ Present
  /\ message' = "absent"
  /\ UNCHANGED <<life, run, latest, draft, newest, up, lock, pc, found, edit, faults>>

\* update_draft without a draft_id: looks for the active draft ...
EditRead(e) ==
  /\ edit[e] = "idle" /\ Present
  /\ edit' = [edit EXCEPT ![e] = IF ActiveDraft THEN "update" ELSE "insert"]
  /\ UNCHANGED <<database, up, lock, pc, found, faults>>

\* ... and writes into it, which changes no status of a draft,
EditUpdate(e) ==
  /\ edit[e] = "update"
  /\ SetMessage("draft_ready")
  /\ edit' = [edit EXCEPT ![e] = "done"]
  /\ UNCHANGED <<life, run, latest, draft, newest, up, lock, pc, found, faults>>

\* The unique index over active drafts.
NoActiveDraft == ~ActiveDraft

\* or inserts one, unless there is an active one by now.
EditInsert(e) ==
  /\ edit[e] = "insert"
  /\ edit' = [edit EXCEPT ![e] = "done"]
  /\ IF NoActiveDraft
       THEN /\ draft' = [draft EXCEPT ![e] = "active"] /\ newest' = e
            /\ SetMessage("draft_ready")
       ELSE UNCHANGED <<draft, newest, message>>
  /\ UNCHANGED <<life, run, latest, up, lock, pc, found, faults>>

-----------------------------------------------------------------------------
Generate(r) ==
  \/ Begin(r) \/ ClaimConflict(r) \/ ClaimCommit(r) \/ ClaimCancelled(r)
  \/ Save(r) \/ Return(r) \/ Fail(r) \/ Cancel(r) \/ Finalize(r) \/ FinalizeLost(r)

Recover ==
  \/ \E p \in Processes : Crash(p) \/ Restart(p)
  \/ \E r \in Requests : Age(r)

User ==
  \/ Ingest \/ DeleteMessage
  \/ \E status \in {"processed", "skipped", "pending", "draft_ready"} : Mark(status)
  \/ \E x \in Makers : DeleteDraft(x)
  \/ \E e \in Editors : EditRead(e) \/ EditUpdate(e) \/ EditInsert(e)

Next == Recover \/ User \/ \E r \in Requests : Generate(r)

Spec == Init /\ [][Next]_vars

-----------------------------------------------------------------------------
(* Properties *)

\* The pipeline runs for a message once at a time, in whatever process: the
\* lock is of one process only, the rest is up to the claim.
SingleGenerator ==
  \A r, s \in Requests : pc[r] = "running" /\ pc[s] = "running" => r = s

\* A message that is shown as being processed has a run in progress, which the
\* next claim or start can find and recover.
ProcessingOwned == message = "processing" => \E r \in Requests : run[r] \in Open

\* There is one active draft at most, and it is the newest: a draft typed by
\* hand and one generated meanwhile do not both stay.
ActiveIsNewest == \A x \in Makers : draft[x] = "active" => x = newest

\* A run that was given up or has failed does not succeed after all.
FailedStaysFailed ==
  [][\A r \in Requests : run[r] = "failed" => run'[r] = "failed"]_vars
=============================================================================
