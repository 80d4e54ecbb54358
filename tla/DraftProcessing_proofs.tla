----------------------- MODULE DraftProcessing_proofs -----------------------
(***************************************************************************)
(* Proofs about the generation of drafts, for any number of requests,      *)
(* editors and processes.                                                  *)
(*                                                                         *)
(* SingleGenerator does not follow from the index over open runs alone: it *)
(* must be known that a request that generates still owns an open run, so  *)
(* that no claim has given its run up.  Claims decide from what they have  *)
(* read before, hence the invariant speaks of what they have found as well *)
(* (FoundOver).                                                            *)
(***************************************************************************)
EXTENDS DraftProcessing, TLAPS

Over == {"saved", "failing", "done"}

\* The run of a request at each step of the request.
RunOfStep ==
  \A r \in Requests :
    /\ pc[r] \in {"idle", "claiming"} => run[r] = "none"
    /\ pc[r] = "running" => run[r] = "open"
    /\ run[r] = "stale" => pc[r] = "done"
    /\ run[r] = "succeeded" => pc[r] \in Over

\* The unique index.
OneOpen == \A r, s \in Requests : run[r] \in Open /\ run[s] \in Open => r = s

\* What a claim may give up is a run that nobody works on.
FoundOver ==
  \A r \in Requests :
    found[r].was \in {"stale", "succeeded"} =>
      found[r].by \in Requests /\ pc[found[r].by] \in Over

RunInv == RunOfStep /\ OneOpen /\ FoundOver

-----------------------------------------------------------------------------
(* Types *)

LEMMA InitType == Init => TypeOK
BY BoundAssumption, CallAssumption DEF Init, TypeOK, Messages, RunStates, DraftStates, Steps, NoRun, Makers

\* The row of the message keeps a status when one is written to it.
LEMMA SetMessageType ==
  ASSUME NEW status \in Messages, SetMessage(status)
  PROVE  message' \in Messages
BY DEF SetMessage, Messages

LEMMA HostType == \A r \in Requests : HostOf[r] \in Processes
BY CallAssumption

LEMMA NextType == TypeOK /\ [Next]_vars => TypeOK'
<1> SUFFICES ASSUME TypeOK, [Next]_vars PROVE TypeOK'
  OBVIOUS
<1> USE BoundAssumption DEF TypeOK, database
<1>1. ASSUME NEW r \in Requests, Begin(r) PROVE TypeOK'
  <2>1. LatestRun \in [by : Requests \cup {None}, was : RunStates]
    BY DEF LatestRun, NoRun, RunStates
  <2>2. pc' \in [Requests -> Steps]
    BY <1>1 DEF Begin, Steps
  <2>3. lock' \in [Processes -> Requests \cup {None}]
    BY <1>1 DEF Begin
  <2>4. found' \in [Requests -> [by : Requests \cup {None}, was : RunStates]]
    BY <1>1, <2>1 DEF Begin
  <2>. QED
    BY <1>1, <2>2, <2>3, <2>4 DEF Begin
<1>2. ASSUME NEW r \in Requests, Claim(r), UNCHANGED <<life, draft, newest, up, found, edit>>,
             faults' \in 0 .. MaxFaults,
             \/ Goto(r, "running")
             \/ Leave(r)
      PROVE  TypeOK'
  <2>1. run' \in [Requests -> RunStates]
    BY <1>2 DEF Claim, RunsAfterClaim, RunStates
  <2>2. message' \in Messages
    BY <1>2, SetMessageType DEF Claim, Messages
  <2>3. pc' \in [Requests -> Steps] /\ lock' \in [Processes -> Requests \cup {None}]
    BY <1>2 DEF Goto, Leave, Steps
  <2>. QED
    BY <1>2, <2>1, <2>2, <2>3 DEF Claim
<1>3. ASSUME NEW r \in Requests, ClaimConflict(r) \/ Return(r) \/ FinalizeLost(r) PROVE TypeOK'
  BY <1>3 DEF ClaimConflict, Return, FinalizeLost, Leave, Steps, Fault
<1>4. ASSUME NEW r \in Requests, Save(r) PROVE TypeOK'
  <2>1. draft' \in [Makers -> DraftStates]
    BY <1>4 DEF Save, Superseding, DraftStates
  <2>2. message' \in Messages
    BY <1>4, SetMessageType DEF Save, Messages
  <2>3. newest' \in Makers \cup {None} /\ run' \in [Requests -> RunStates]
    BY <1>4 DEF Save, Makers, RunStates
  <2>4. pc' \in [Requests -> Steps] /\ UNCHANGED lock
    BY <1>4 DEF Save, Goto, Steps
  <2>. QED
    BY <1>4, <2>1, <2>2, <2>3, <2>4 DEF Save
<1>5. ASSUME NEW r \in Requests, Fail(r) \/ Cancel(r) PROVE TypeOK'
  BY <1>5 DEF Fail, Cancel, Goto, Steps, Fault
<1>6. ASSUME NEW r \in Requests, Finalize(r) PROVE TypeOK'
  <2>1. message' \in Messages
    BY <1>6, SetMessageType DEF Finalize, FailMessage, Messages
  <2>. QED
    BY <1>6, <2>1 DEF Finalize, Leave, Steps, RunStates
<1>7. ASSUME NEW p \in Processes, Crash(p) PROVE TypeOK'
  BY <1>7 DEF Crash, Steps, Fault
<1>8. ASSUME NEW p \in Processes, Restart(p) PROVE TypeOK'
  BY <1>8 DEF Restart, Messages, RunStates
<1>9. ASSUME NEW r \in Requests, Age(r) PROVE TypeOK'
  BY <1>9 DEF Age, RunStates
<1>10. CASE Ingest
  BY <1>10 DEF Ingest, Messages
<1>11. CASE DeleteMessage
  BY <1>11 DEF DeleteMessage, Messages
<1>12. ASSUME NEW status \in {"processed", "skipped", "pending", "draft_ready"}, Mark(status)
       PROVE  TypeOK'
  BY <1>12 DEF Mark, Messages
<1>13. ASSUME NEW x \in Makers, DeleteDraft(x) PROVE TypeOK'
  BY <1>13 DEF DeleteDraft, Messages, DraftStates
<1>14. ASSUME NEW e \in Editors, EditRead(e) PROVE TypeOK'
  BY <1>14 DEF EditRead
<1>15. ASSUME NEW e \in Editors, EditUpdate(e) PROVE TypeOK'
  <2>1. message' \in Messages
    BY <1>15, SetMessageType DEF EditUpdate, Messages
  <2>. QED
    BY <1>15, <2>1 DEF EditUpdate
<1>16. ASSUME NEW e \in Editors, EditInsert(e) PROVE TypeOK'
  <2>1. message' \in Messages
    BY <1>16, SetMessageType DEF EditInsert, Messages
  <2>2. draft' \in [Makers -> DraftStates] /\ newest' \in Makers \cup {None}
    BY <1>16 DEF EditInsert, DraftStates, Makers
  <2>. QED
    BY <1>16, <2>1, <2>2 DEF EditInsert
<1>17. CASE UNCHANGED vars
  BY <1>17 DEF vars
<1>18. ASSUME NEW r \in Requests, ClaimCommit(r) PROVE TypeOK'
  BY <1>18, <1>2 DEF ClaimCommit
<1>19. ASSUME NEW r \in Requests, ClaimCancelled(r) PROVE TypeOK'
  <2>1. faults' \in 0 .. MaxFaults
    BY <1>19 DEF ClaimCancelled, Fault
  <2>. QED
    BY <1>19, <1>2, <2>1 DEF ClaimCancelled
<1>. QED
  BY <1>1, <1>3, <1>4, <1>5, <1>6, <1>7, <1>8, <1>9, <1>10, <1>11, <1>12, <1>13, <1>14,
     <1>15, <1>16, <1>17, <1>18, <1>19
     DEF Next, Recover, User, Generate

\* The variables keep their types: no message, run or draft ends in a status
\* the tables do not have (MessageProcessingService, database_mode).
THEOREM TypeCorrect == Spec => []TypeOK
BY InitType, NextType, PTL DEF Spec

-----------------------------------------------------------------------------
(* Runs and requests *)

LEMMA InitRuns == Init => RunInv
BY DEF Init, RunInv, RunOfStep, OneOpen, FoundOver, Open, NoRun

\* Steps of a request that leave the runs alone and do not make it generate.
LEMMA StepKeepsRuns ==
  ASSUME TypeOK, RunInv, NEW r \in Requests, NEW step \in Over, pc' = [pc EXCEPT ![r] = step],
         pc[r] # "idle", pc[r] = "done" => step = "done",
         UNCHANGED <<run, found>>,
         run[r] = "stale" => step = "done"
  PROVE  RunInv'
<1>1. RunOfStep'
  BY DEF TypeOK, RunInv, RunOfStep, Over
<1>2. OneOpen'
  BY DEF RunInv, OneOpen
<1>3. FoundOver'
  BY DEF TypeOK, RunInv, FoundOver, Over
<1>. QED
  BY <1>1, <1>2, <1>3 DEF RunInv

\* The claim of a message gives up runs that nobody works on, and has the only
\* open run then.
LEMMA ClaimKeepsRuns ==
  ASSUME TypeOK, RunInv, NEW r \in Requests, pc[r] = "claiming", Claim(r),
         NEW step \in {"running", "done"}, pc' = [pc EXCEPT ![r] = step], UNCHANGED found
  PROVE  RunInv' /\ run[r] = "none" /\ \A x \in Requests : run[x] = "failed" => run'[x] = "failed"
<1>1. run[r] = "none"
  BY DEF RunInv, RunOfStep
<1>2. \A x \in GivenUp(r) : x \in Requests /\ pc[x] \in Over /\ x # r
  BY DEF GivenUp, RunInv, FoundOver, Over
<1>3. run' = [x \in Requests |-> IF x = r THEN "open"
                                 ELSE IF x \in GivenUp(r) THEN "failed" ELSE run[x]]
  BY DEF Claim, RunsAfterClaim
<1>4. RunOfStep'
  <2>1. ASSUME NEW x \in Requests, x # r
        PROVE  /\ pc'[x] = pc[x]
               /\ run'[x] = IF x \in GivenUp(r) THEN "failed" ELSE run[x]
    BY <1>3, <2>1 DEF TypeOK
  <2>2. pc'[r] = step /\ run'[r] = "open"
    BY <1>3 DEF TypeOK
  <2>. QED
    BY <1>2, <2>1, <2>2 DEF RunInv, RunOfStep, Over
<1>5. OneOpen'
  <2>1. \A x \in Requests : run'[x] \in Open => x = r
    BY <1>3 DEF Claim, OpenElsewhere, Open
  <2>. QED
    BY <2>1 DEF OneOpen
<1>6. FoundOver'
  BY DEF TypeOK, RunInv, FoundOver, Over
<1>. QED
  BY <1>1, <1>3, <1>4, <1>5, <1>6 DEF RunInv

\* Steps that leave requests and runs alone.
LEMMA OthersKeepRuns == RunInv /\ UNCHANGED <<run, pc, found>> => RunInv'
BY DEF RunInv, RunOfStep, OneOpen, FoundOver

LEMMA BeginKeepsRuns ==
  ASSUME TypeOK, RunInv, NEW r \in Requests, Begin(r)
  PROVE  RunInv'
<1>1. LatestRun.was \in {"stale", "succeeded"} =>
        LatestRun.by \in Requests /\ pc[LatestRun.by] \in Over
  BY DEF TypeOK, LatestRun, NoRun, RunInv, RunOfStep, Over
<1>2. pc[r] = "idle" /\ run[r] = "none" /\ UNCHANGED run
  BY DEF Begin, RunInv, RunOfStep, database
<1>3. PICK step \in {"claiming", "done"} : pc' = [pc EXCEPT ![r] = step]
  BY DEF Begin
<1>4. RunOfStep'
  BY <1>2, <1>3 DEF TypeOK, RunInv, RunOfStep, Over
<1>5. OneOpen'
  BY <1>2 DEF RunInv, OneOpen
<1>6. \A x \in Requests : found'[x] = found[x] \/ found'[x] = LatestRun
  BY DEF Begin, TypeOK
<1>7. \A x \in Requests : pc[x] \in Over => pc'[x] \in Over
  BY <1>2, <1>3 DEF TypeOK, Over
<1>8. FoundOver'
  <2>. SUFFICES ASSUME NEW x \in Requests, found'[x].was \in {"stale", "succeeded"}
                PROVE  found'[x].by \in Requests /\ pc'[found'[x].by] \in Over
    BY DEF FoundOver
  <2>1. CASE found'[x] = found[x]
    BY <2>1, <1>7 DEF RunInv, FoundOver
  <2>2. CASE found'[x] = LatestRun
    BY <2>2, <1>1, <1>7
  <2>. QED
    BY <1>6, <2>1, <2>2
<1>. QED
  BY <1>4, <1>5, <1>8 DEF RunInv

LEMMA SaveKeepsRuns ==
  ASSUME TypeOK, RunInv, NEW r \in Requests, Save(r)
  PROVE  RunInv'
<1>1. pc[r] = "running" /\ pc' = [pc EXCEPT ![r] = "saved"]
      /\ run' = [run EXCEPT ![r] = "succeeded"] /\ UNCHANGED found
  BY DEF Save, Goto
<1>2. RunOfStep'
  BY <1>1 DEF TypeOK, RunInv, RunOfStep, Over
<1>3. OneOpen'
  BY <1>1 DEF TypeOK, RunInv, OneOpen, Open
<1>4. FoundOver'
  BY <1>1 DEF TypeOK, RunInv, FoundOver, Over
<1>. QED
  BY <1>2, <1>3, <1>4 DEF RunInv

LEMMA FinalizeKeepsRuns ==
  ASSUME TypeOK, RunInv, NEW r \in Requests, Finalize(r)
  PROVE  RunInv'
<1>1. pc[r] = "failing" /\ pc' = [pc EXCEPT ![r] = "done"]
      /\ run' = [run EXCEPT ![r] = "failed"] /\ UNCHANGED found
  BY DEF Finalize, Leave
<1>2. RunOfStep'
  BY <1>1 DEF TypeOK, RunInv, RunOfStep, Over
<1>3. OneOpen'
  BY <1>1 DEF TypeOK, RunInv, OneOpen, Open
<1>4. FoundOver'
  BY <1>1 DEF TypeOK, RunInv, FoundOver, Over
<1>. QED
  BY <1>2, <1>3, <1>4 DEF RunInv

\* A crash ends requests, and gives none of them anything to do.
LEMMA CrashKeepsRuns ==
  ASSUME TypeOK, RunInv, NEW p \in Processes, Crash(p)
  PROVE  RunInv'
<1>1. UNCHANGED <<run, found>>
      /\ \A x \in Requests : pc'[x] = pc[x] \/ (pc[x] # "idle" /\ pc'[x] = "done")
  BY DEF Crash, database
<1>2. RunOfStep'
  BY <1>1 DEF RunInv, RunOfStep, Over
<1>3. OneOpen'
  BY <1>1 DEF RunInv, OneOpen
<1>4. FoundOver'
  BY <1>1 DEF RunInv, FoundOver, Over
<1>. QED
  BY <1>2, <1>3, <1>4 DEF RunInv

\* Runs become stale, or stale runs fail.
LEMMA AgingKeepsRuns ==
  ASSUME TypeOK, RunInv, UNCHANGED <<pc, found>>,
         \/ \E r \in Requests : Age(r)
         \/ \E p \in Processes : Restart(p)
  PROVE  RunInv'
<1>1. \A x \in Requests : \/ run'[x] = run[x]
                          \/ run[x] = "open" /\ pc[x] = "done" /\ run'[x] = "stale"
                          \/ run[x] = "stale" /\ run'[x] = "failed"
  BY DEF TypeOK, Age, Ages, Restart
<1>2. RunOfStep'
  BY <1>1 DEF RunInv, RunOfStep, Over
<1>3. OneOpen'
  BY <1>1 DEF RunInv, OneOpen, Open
<1>4. FoundOver'
  BY DEF RunInv, FoundOver
<1>. QED
  BY <1>2, <1>3, <1>4 DEF RunInv

LEMMA NextRuns == TypeOK /\ RunInv /\ [Next]_vars => RunInv'
<1> SUFFICES ASSUME TypeOK, RunInv, [Next]_vars PROVE RunInv'
  OBVIOUS
<1>1. ASSUME NEW r \in Requests, Generate(r) PROVE RunInv'
  <2>1. CASE Begin(r)
    BY <2>1, BeginKeepsRuns
  <2>2. CASE ClaimConflict(r)
    BY <2>2, StepKeepsRuns DEF ClaimConflict, Leave, database, Over
  <2>3. CASE ClaimCommit(r)
    BY <2>3, ClaimKeepsRuns DEF ClaimCommit, Goto
  <2>4. CASE ClaimCancelled(r)
    BY <2>4, ClaimKeepsRuns DEF ClaimCancelled, Leave
  <2>5. CASE Save(r)
    BY <2>5, SaveKeepsRuns
  <2>6. CASE Return(r)
    BY <2>6, StepKeepsRuns DEF Return, Leave, database, Over
  <2>7. CASE Fail(r)
    <3>1. run[r] # "stale"
      BY <2>7 DEF Fail, RunInv, RunOfStep
    <3>. QED
      BY <2>7, <3>1, StepKeepsRuns DEF Fail, Goto, database, Over
  <2>8. CASE Cancel(r)
    <3>1. run[r] # "stale"
      BY <2>8 DEF Cancel, RunInv, RunOfStep
    <3>. QED
      BY <2>8, <3>1, StepKeepsRuns DEF Cancel, Goto, database, Over
  <2>9. CASE Finalize(r)
    BY <2>9, FinalizeKeepsRuns
  <2>10. CASE FinalizeLost(r)
    BY <2>10, StepKeepsRuns DEF FinalizeLost, Leave, database, Over
  <2>. QED
    BY <1>1, <2>1, <2>2, <2>3, <2>4, <2>5, <2>6, <2>7, <2>8, <2>9, <2>10 DEF Generate
<1>2. CASE Recover
  BY <1>2, CrashKeepsRuns, AgingKeepsRuns DEF Recover, Restart, Age
<1>3. CASE User
  BY <1>3, OthersKeepRuns
     DEF User, Ingest, DeleteMessage, Mark, DeleteDraft, EditRead, EditUpdate, EditInsert, database
<1>4. CASE UNCHANGED vars
  BY <1>4, OthersKeepRuns DEF vars
<1>. QED
  BY <1>1, <1>2, <1>3, <1>4 DEF Next

\* What the steps of the pipeline, the recovery and the users keep of the runs:
\* each run that goes on belongs to the step that works on it.
THEOREM RunsInvariant == Spec => [](TypeOK /\ RunInv)
<1>1. TypeOK /\ RunInv /\ [Next]_vars => TypeOK' /\ RunInv'
  BY NextType, NextRuns
<1>. QED
  BY InitType, InitRuns, <1>1, PTL DEF Spec

\* The pipeline runs for a message once at a time, whatever is claimed,
\* cancelled, crashes or is claimed again as stale (_atomic_claim_processing).
THEOREM GeneratesOnce == Spec => []SingleGenerator
<1>1. TypeOK /\ RunInv => SingleGenerator
  BY DEF RunInv, RunOfStep, OneOpen, SingleGenerator, Open
<1>. QED
  BY RunsInvariant, <1>1, PTL

\* A run that has failed does not succeed after all: a claim or a recovery
\* gives up only runs whose generation is over (_mark_run_failed).
THEOREM FailureIsFinal == Spec => FailedStaysFailed
<1>1. TypeOK /\ RunInv /\ [Next]_vars =>
        [\A r \in Requests : run[r] = "failed" => run'[r] = "failed"]_vars
  <2>. SUFFICES ASSUME TypeOK, RunInv, Next, NEW x \in Requests, run[x] = "failed"
                PROVE  run'[x] = "failed"
    OBVIOUS
  <2>1. ASSUME NEW r \in Requests, Generate(r) PROVE run'[x] = "failed"
    <3>1. CASE ClaimCommit(r) \/ ClaimCancelled(r)
      BY <3>1, ClaimKeepsRuns DEF ClaimCommit, ClaimCancelled, Goto, Leave
    <3>2. CASE Save(r)
      BY <3>2 DEF Save, TypeOK, RunInv, RunOfStep
    <3>3. CASE Finalize(r)
      BY <3>3 DEF Finalize, TypeOK
    <3>. QED
      BY <2>1, <3>1, <3>2, <3>3
         DEF Generate, Begin, ClaimConflict, Return, Fail, Cancel, FinalizeLost, database
  <2>2. CASE Recover
    BY <2>2 DEF Recover, Crash, Restart, Age, Ages, TypeOK, database
  <2>3. CASE User
    BY <2>3 DEF User, Ingest, DeleteMessage, Mark, DeleteDraft, EditRead, EditUpdate, EditInsert,
                database
  <2>. QED
    BY <2>1, <2>2, <2>3 DEF Next
<1>. QED
  BY RunsInvariant, <1>1, PTL DEF Spec, FailedStaysFailed

-----------------------------------------------------------------------------
(* The message and its drafts *)

\* A step that ends an open run takes the message out of processing.
LEMMA NextOwned == TypeOK /\ RunInv /\ ProcessingOwned /\ [Next]_vars => ProcessingOwned'
<1> SUFFICES ASSUME TypeOK, RunInv, ProcessingOwned, [Next]_vars, message' = "processing"
             PROVE  \E x \in Requests : run'[x] \in Open
  BY DEF ProcessingOwned
<1>1. ASSUME NEW r \in Requests, Generate(r) PROVE \E x \in Requests : run'[x] \in Open
  <2>1. CASE ClaimCommit(r) \/ ClaimCancelled(r)
    <3>1. run'[r] = "open"
      BY <2>1 DEF ClaimCommit, ClaimCancelled, Claim, RunsAfterClaim
    <3>. QED
      BY <3>1 DEF Open
  <2>2. CASE Save(r) \/ Finalize(r)
    BY <2>2 DEF Save, Finalize, FailMessage, SetMessage
  <2>. QED
    BY <1>1, <2>1, <2>2
       DEF ProcessingOwned, Generate, Begin, ClaimConflict, Return, Fail, Cancel, FinalizeLost,
           database
<1>2. ASSUME NEW p \in Processes, Restart(p) PROVE \E x \in Requests : run'[x] \in Open
  <2>1. message = "processing" /\ ~\E x \in Requests : run[x] = "stale"
    BY <1>2 DEF Restart
  <2>2. UNCHANGED run
    BY <1>2, <2>1 DEF Restart, TypeOK
  <2>. QED
    BY <2>1, <2>2 DEF ProcessingOwned
<1>3. ASSUME NEW r \in Requests, Age(r) PROVE \E x \in Requests : run'[x] \in Open
  BY <1>3 DEF Age, TypeOK, Open
<1>4. ASSUME NEW p \in Processes, Crash(p) PROVE \E x \in Requests : run'[x] \in Open
  BY <1>4 DEF Crash, ProcessingOwned, database
<1>5. CASE User
  BY <1>5 DEF ProcessingOwned, User, Ingest, DeleteMessage, Mark, DeleteDraft, EditRead,
              EditUpdate, EditInsert, SetMessage, database
<1>6. CASE UNCHANGED vars
  BY <1>6 DEF ProcessingOwned, vars
<1>. QED
  BY <1>1, <1>2, <1>3, <1>4, <1>5, <1>6 DEF Next, Recover

\* A message that is shown as being processed has a run that the recovery at
\* the start or a later claim can find.
THEOREM NeverOrphaned == Spec => []ProcessingOwned
<1>1. Init => ProcessingOwned
  BY DEF Init, ProcessingOwned
<1>. QED
  BY <1>1, NextOwned, RunsInvariant, PTL DEF Spec

\* A draft becomes active when there is no other, or in place of the others.
LEMMA NextActive == TypeOK /\ ActiveIsNewest /\ [Next]_vars => ActiveIsNewest'
<1> SUFFICES ASSUME TypeOK, ActiveIsNewest, [Next]_vars PROVE ActiveIsNewest'
  OBVIOUS
<1>1. ASSUME NEW r \in Requests, Generate(r) PROVE ActiveIsNewest'
  <2>1. CASE Save(r)
    <3>1. \A x \in Makers : draft'[x] = "active" => x = r
      BY <2>1 DEF Save, Superseding
    <3>. QED
      BY <2>1, <3>1 DEF Save, ActiveIsNewest
  <2>. QED
    BY <1>1, <2>1
       DEF ActiveIsNewest, Generate, Begin, ClaimConflict, ClaimCommit, ClaimCancelled, Return,
           Fail, Cancel, Finalize, FinalizeLost, database
<1>2. ASSUME NEW e \in Editors, EditInsert(e) PROVE ActiveIsNewest'
  BY <1>2 DEF EditInsert, NoActiveDraft, ActiveDraft, ActiveIsNewest, TypeOK
<1>3. ASSUME NEW x \in Makers, DeleteDraft(x) PROVE ActiveIsNewest'
  BY <1>3 DEF DeleteDraft, ActiveIsNewest, TypeOK
<1>4. CASE UNCHANGED <<draft, newest>>
  BY <1>4 DEF ActiveIsNewest
<1>. QED
  BY <1>1, <1>2, <1>3, <1>4
     DEF Next, Recover, User, Crash, Restart, Age, Ingest, DeleteMessage, Mark, EditRead,
         EditUpdate, database, vars

\* The draft shown for a message is the only active one, and the newest that
\* was generated or written, however generations and edits race.
THEOREM OneActiveDraft == Spec => []ActiveIsNewest
<1>1. Init => ActiveIsNewest
  BY DEF Init, ActiveIsNewest
<1>. QED
  BY <1>1, NextActive, TypeCorrect, PTL DEF Spec
=============================================================================
