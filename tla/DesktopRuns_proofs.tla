------------------------- MODULE DesktopRuns_proofs -------------------------
(***************************************************************************)
(* Proofs about the runs of the desktop automation, for any number of      *)
(* requests, cancellers and keys.                                          *)
(*                                                                         *)
(* KeySentOnce rests on the client that a backend holds for ever: a        *)
(* request that has passed the lookup of its digest can only reach the     *)
(* runtime that was there then, or, after a restart, one that has never    *)
(* seen its key (Fresh, Unseen).  Tracked rests on what actors remember:   *)
(* a result that says that a task is over is not outlived by the task      *)
(* (Seen), because the runtime that has forgotten it is not asked again.   *)
(* OutcomeTrue rests on what the runtime tells (TaskTells), what an actor  *)
(* was told and has not written yet (Told), and that a key for which Enter *)
(* was not pressed is never used again (NeverSent).                        *)
(***************************************************************************)
EXTENDS DesktopRuns, TLAPS

AtWork == {"waiting", "cancelling", "applying"}

\* The row of a request at each of its steps.
RowOf ==
  \A r \in Requests :
    /\ pc[r] \in {"idle", "checked"} => row[r] = "none"
    /\ pc[r] = "created" => row[r] \in {"queued", "dropped"}
    /\ pc[r] \in {"idle", "checked", "created"} => taskId[r] = "no"
    /\ pc[r] \in AtWork => row[r] # "none"

\* The run an actor is about.
About ==
  /\ \A r \in Requests : of[r] = r
  /\ \A r \in Requests : pc[r] \notin {"dropping", "asking"}
  /\ \A c \in Cancellers : pc[c] \in AtWork \cup {"dropping", "asking"} =>
       of[c] \in Requests /\ row[of[c]] # "none"
  /\ \A c \in Cancellers : pc[c] \in AtWork \cup {"asking"} => taskId[of[c]] # "no"

\* Who talks to a runtime, and what a runtime that is gone has left.
ClientInv ==
  /\ client \in {"none", "left"} => \A a \in Actors : pc[a] \notin AtWork
  /\ client \in {"none", "dead"} => \A k \in Keys : rt[k] = "none"
  /\ \A r \in Requests : taskId[r] = "current" =>
       client \in {"live", "left"} /\ rt[KeyOf[r]] # "none"

\* What actors know of their tasks.
Seen ==
  client = "live" =>
    \A a \in Actors :
      /\ pc[a] \in AtWork => rt[Key(a)] # "none"
      /\ pc[a] = "applying" /\ Over(result[a]) => Over(rt[Key(a)])

\* The unique index.
OneActive == \A r, s \in Requests : row[r] \in Active /\ row[s] \in Active => r = s

\* A key that the runtime has seen has a row.
Recorded ==
  \A k \in Keys : rt[k] # "none" \/ enters[k] # 0 =>
    \E s \in Requests : KeyOf[s] = k /\ row[s] # "none"

\* A request that may still reach the runtime finds there what was entered.
Fresh ==
  \A r \in Requests :
    pc[r] \in {"checked", "created"} /\ client # "dead" /\ rt[KeyOf[r]] = "none" =>
      enters[KeyOf[r]] = 0

\* The runtime that an earlier backend has left knows no key of a request that
\* waits for it to go.
Unseen ==
  \A r \in Requests :
    pc[r] \in {"checked", "created"} /\ client = "left" =>
      rt[KeyOf[r]] = "none" /\ enters[KeyOf[r]] = 0

\* Enter has not been pressed for a task that may press it.
Once == \A k \in Keys : enters[k] \in {0, 1} /\ (rt[k] = "running" => enters[k] = 0)

-----------------------------------------------------------------------------
(* Types *)

LEMMA InitType == Init => TypeOK
BY ActorAssumption, BoundAssumption
   DEF Init, TypeOK, Statuses, Steps, Actors, Runtime!Init, Runtime!States

LEMMA KeyType == \A r \in Requests : KeyOf[r] \in Keys
BY ActorAssumption

LEMMA RequestsAreActors == Requests \subseteq Actors /\ Cancellers \subseteq Actors
BY DEF Actors

LEMMA DecodedType == \A s : Decoded(s) \subseteq Statuses \ {"none", "queued", "dropped", "recovered"}
BY DEF Decoded, Statuses, Active

LEMMA EndType ==
  ASSUME NEW k \in Keys, rt \in [Keys -> Runtime!States], Runtime!End(k)
  PROVE  /\ rt' \in [Keys -> Runtime!States]
         /\ ~Over(rt[k]) /\ Over(rt'[k]) /\ rt'[k] # "none"
         /\ \A j \in Keys : j # k => rt'[j] = rt[j]
<1>1. PICK s \in Runtime!Ends(k) : rt' = [rt EXCEPT ![k] = s]
  BY DEF Runtime!End
<1>2. rt[k] \in Runtime!InProgress
  BY DEF Runtime!Ends, Runtime!InProgress
<1>3. s \in Runtime!States \ (Runtime!InProgress \cup {"none"})
  BY DEF Runtime!Ends, Runtime!Entered, Runtime!NotEntered, Runtime!States, Runtime!InProgress
<1>. QED
  BY <1>1, <1>2, <1>3 DEF Over

LEMMA NextType == TypeOK /\ About /\ [Next]_vars => TypeOK'
<1> SUFFICES ASSUME TypeOK, About, [Next]_vars PROVE TypeOK'
  OBVIOUS
<1> USE BoundAssumption, RequestsAreActors DEF TypeOK
<1>1. ASSUME NEW r \in Requests, Check(r) PROVE TypeOK'
  BY <1>1 DEF Check, Goto, Steps
<1>2. ASSUME NEW r \in Requests, Create(r) PROVE TypeOK'
  BY <1>2 DEF Create, Goto, Steps, Statuses, Active
<1>3. ASSUME NEW a \in Actors, Leave(a), UNCHANGED faults PROVE TypeOK'
  BY <1>3 DEF Leave, Goto, Steps
<1>4. ASSUME NEW r \in Requests, Submitted(r) PROVE TypeOK'
  BY <1>4, KeyType DEF Submitted, Submit, AtRuntime, Connected, Goto, Steps, Runtime!States, Runtime!InProgress
<1>5. ASSUME NEW r \in Requests, ReplyLost(r) PROVE TypeOK'
  BY <1>5, KeyType DEF ReplyLost, Fault, Submit, AtRuntime, Connected, Goto, Steps, Runtime!States, Runtime!InProgress
<1>6. ASSUME NEW r \in Requests, NotSubmitted(r) PROVE TypeOK'
  BY <1>6 DEF NotSubmitted, Disconnected, Fault, Leave, Goto, Steps
<1>7. ASSUME NEW a \in Actors, Poll(a) PROVE TypeOK'
  <2>1. Key(a) \in Keys
    BY <1>7, KeyType DEF Poll, Key, About, AtWork, Actors
  <2>. QED
    BY <1>7, <2>1 DEF Poll, Obtained, Goto, Steps
<1>8. ASSUME NEW r \in Requests, Timeout(r) PROVE TypeOK'
  BY <1>8 DEF Timeout, Goto, Steps
<1>9. ASSUME NEW a \in Actors, GraceOver(a) PROVE TypeOK'
  BY <1>9 DEF GraceOver, Goto, Steps, Runtime!States, Runtime!InProgress
<1>10. ASSUME NEW a \in Actors, Apply(a) PROVE TypeOK'
  <2>1. PICK s \in Decoded(result[a]) :
          \/ UNCHANGED <<row, taskId>>
          \/ /\ row' = [row EXCEPT ![of[a]] = s]
             /\ taskId' = [taskId EXCEPT ![of[a]] = IF client = "live" THEN "current" ELSE "old"]
    BY <1>10 DEF Apply
  <2>2. s \in Statuses
    BY <2>1, DecodedType
  <2>. QED
    BY <1>10, <2>1, <2>2 DEF Apply, Goto, Steps
<1>11. ASSUME NEW c \in Cancellers, NEW r \in Requests, Look(c, r) PROVE TypeOK'
  BY <1>11 DEF Look, Goto, Steps
<1>12. ASSUME NEW c \in Cancellers, Drop(c) PROVE TypeOK'
  BY <1>12 DEF Drop, Goto, Steps, Statuses
<1>13. ASSUME NEW c \in Cancellers, Ask(c) \/ AskFails(c) PROVE TypeOK'
  BY <1>13 DEF Ask, AskFails, Connected, Disconnected, Goto, Steps
<1>14. ASSUME NEW k \in Keys, Enter(k) PROVE TypeOK'
  BY <1>14 DEF Enter, Runtime!Enter, Runtime!States, Runtime!InProgress
<1>15. ASSUME NEW k \in Keys, End(k) PROVE TypeOK'
  BY <1>15, EndType DEF End
<1>16. CASE StartRuntime
  BY <1>16 DEF StartRuntime, Connected
<1>17. CASE RuntimeDies \/ LeftRuntimeCloses
  BY <1>17 DEF RuntimeDies, LeftRuntimeCloses, Fault, Forgotten, Runtime!Restart, Runtime!States
<1>18. CASE BackendRestart
  <2>1. PICK Stale \in SUBSET {r \in Requests : row[r] \in Active} :
          row' = [r \in Requests |-> IF r \in Stale THEN "recovered" ELSE row[r]]
    BY <1>18 DEF BackendRestart
  <2>2. row' \in [Requests -> Statuses]
    BY <2>1 DEF Statuses
  <2>3. pc' \in [Actors -> Steps]
    BY <1>18 DEF BackendRestart, Steps
  <2>. QED
    BY <1>18, <2>2, <2>3 DEF BackendRestart, Fault
<1>19. CASE UNCHANGED vars
  BY <1>19 DEF vars
<1>. QED
  BY <1>1, <1>2, <1>3, <1>4, <1>5, <1>6, <1>7, <1>8, <1>9, <1>10, <1>11, <1>12, <1>13, <1>14,
     <1>15, <1>16, <1>17, <1>18, <1>19
     DEF Next, Request, Canceller, CreateConflict, Unreachable
-----------------------------------------------------------------------------
(* What actors are about *)

LEMMA InitInvs == Init => RowOf /\ About /\ ClientInv /\ Seen /\ OneActive /\ Recorded /\ Fresh /\ Unseen /\ Once
BY ActorAssumption, KeyType, RequestsAreActors
   DEF Init, RowOf, About, ClientInv, Seen, OneActive, Recorded, Fresh, Unseen, Once, AtWork, Active, Runtime!Init

\* Rows that are there stay, and a task that was known stays known.
LEMMA Lasting ==
  ASSUME TypeOK, [Next]_vars, NEW r \in Requests
  PROVE  /\ row[r] # "none" => row'[r] # "none"
         /\ taskId[r] # "no" => taskId'[r] # "no"
<1> USE DEF TypeOK
<1>1. ASSUME NEW a \in Actors, Apply(a)
      PROVE  /\ row[r] # "none" => row'[r] # "none"
             /\ taskId[r] # "no" => taskId'[r] # "no"
  BY <1>1, DecodedType DEF Apply
<1>. QED
  BY <1>1, RequestsAreActors
     DEF Next, Request, Canceller, Check, Create, CreateConflict, Submitted, Submit, NotSubmitted,
         ReplyLost, Unreachable, Poll, Obtained, Timeout, GraceOver, Leave, Look, Drop, Ask, AskFails,
         Enter, End, StartRuntime, RuntimeDies, LeftRuntimeCloses, Forgotten, BackendRestart, vars

LEMMA NextAbout == TypeOK /\ RowOf /\ About /\ [Next]_vars => About'
<1> SUFFICES ASSUME TypeOK, RowOf, About, [Next]_vars PROVE About'
  OBVIOUS
<1> USE RequestsAreActors, ActorAssumption DEF TypeOK, AtWork
<1>1. ASSUME NEW r \in Requests, Request(r) PROVE About'
  <2>1. UNCHANGED of /\ \A a \in Actors : a # r => pc'[a] = pc[a]
    BY <1>1 DEF Request, Check, Create, CreateConflict, Submitted, Submit, NotSubmitted, ReplyLost,
                Unreachable, Poll, Obtained, Timeout, GraceOver, Leave, Goto, Apply
  <2>2. pc'[r] \notin {"dropping", "asking"}
    BY <1>1 DEF Request, Check, Create, CreateConflict, Submitted, Submit, NotSubmitted, ReplyLost,
                Unreachable, Poll, Obtained, Timeout, GraceOver, Leave, Goto, Apply
  <2>. QED
    BY <2>1, <2>2, Lasting DEF About
<1>2. ASSUME NEW c \in Cancellers, Canceller(c) PROVE About'
  <2>1. CASE \E r \in Requests : Look(c, r)
    <3>1. PICK r \in Requests : Look(c, r)
      BY <2>1
    <3>. QED
      BY <3>1 DEF About, Look, Goto
  <2>2. CASE Drop(c)
    <3>1. UNCHANGED of /\ pc' = [pc EXCEPT ![c] = "done"]
      BY <2>2 DEF Drop, Goto
    <3>. QED
      BY <3>1, Lasting DEF About
  <2>3. CASE Ask(c) \/ Poll(c) \/ GraceOver(c)
    <3>1. UNCHANGED of /\ pc[c] \in AtWork \cup {"asking"}
          /\ \E step \in AtWork : pc' = [pc EXCEPT ![c] = step]
      BY <2>3 DEF Ask, Poll, Obtained, GraceOver, Goto
    <3>. QED
      BY <3>1, Lasting DEF About
  <2>4. CASE AskFails(c) \/ Unreachable(c) \/ Apply(c)
    <3>1. UNCHANGED of /\ pc' = [pc EXCEPT ![c] = "done"]
      BY <2>4 DEF AskFails, Unreachable, Leave, Apply, Goto
    <3>. QED
      BY <3>1, Lasting DEF About
  <2>. QED
    BY <1>2, <2>1, <2>2, <2>3, <2>4 DEF Canceller
<1>3. CASE BackendRestart
  BY <1>3 DEF BackendRestart, About
<1>4. CASE UNCHANGED <<pc, of>>
  BY <1>4, Lasting DEF About
<1>. QED
  BY <1>1, <1>2, <1>3, <1>4
     DEF Next, Enter, End, StartRuntime, RuntimeDies, LeftRuntimeCloses, vars

LEMMA NextRowOf == TypeOK /\ RowOf /\ About /\ [Next]_vars => RowOf'
<1> SUFFICES ASSUME TypeOK, RowOf, About, [Next]_vars PROVE RowOf'
  OBVIOUS
<1> USE RequestsAreActors, ActorAssumption DEF TypeOK, AtWork
<1>1. ASSUME NEW a \in Actors, Apply(a) PROVE RowOf'
  <2>1. of[a] \in Requests
    BY <1>1 DEF Apply, About, Actors
  <2>2. pc' = [pc EXCEPT ![a] = "done"]
    BY <1>1 DEF Apply, Goto
  <2>3. pc[of[a]] \notin {"idle", "checked", "created"}
    BY <1>1, <2>1 DEF Apply, About, RowOf, Actors
  <2>4. \A r \in Requests : r # of[a] => row'[r] = row[r] /\ taskId'[r] = taskId[r]
    BY <1>1, <2>1 DEF Apply
  <2>5. row[of[a]] # "none" => row'[of[a]] # "none"
    BY <2>1, Lasting
  <2>. QED
    BY <2>1, <2>2, <2>3, <2>4, <2>5 DEF RowOf
<1>2. ASSUME NEW c \in Cancellers, Drop(c) PROVE RowOf'
  <2>1. of[c] \in Requests /\ row[of[c]] # "none"
    BY <1>2 DEF Drop, About
  <2>. QED
    BY <1>2, <2>1 DEF Drop, Goto, RowOf
<1>3. ASSUME NEW r \in Requests, Create(r) PROVE RowOf'
  BY <1>3 DEF Create, Goto, RowOf
<1>4. ASSUME NEW r \in Requests, Request(r), ~Create(r), ~Apply(r) PROVE RowOf'
  <2>1. UNCHANGED <<row, taskId>>
    BY <1>4 DEF Request, Check, CreateConflict, Submitted, Submit, NotSubmitted, ReplyLost,
                Unreachable, Poll, Obtained, Timeout, GraceOver, Leave
  <2>2. PICK step \in Steps : pc' = [pc EXCEPT ![r] = step]
    BY <1>4 DEF Request, Check, CreateConflict, Submitted, Submit, NotSubmitted, ReplyLost,
                Unreachable, Poll, Obtained, Timeout, GraceOver, Leave, Goto, Steps
  <2>3. step \in AtWork \cup {"done"} \/ (step = "checked" /\ pc[r] = "idle")
    BY <1>4, <2>2 DEF Request, Check, CreateConflict, Submitted, Submit, NotSubmitted, ReplyLost,
                      Unreachable, Poll, Obtained, Timeout, GraceOver, Leave, Goto
  <2>4. step \in AtWork => pc[r] \in AtWork \cup {"created"}
    BY <1>4, <2>2 DEF Request, Check, CreateConflict, Submitted, Submit, NotSubmitted, ReplyLost,
                      Unreachable, Poll, Obtained, Timeout, GraceOver, Leave, Goto
  <2>. QED
    BY <2>1, <2>2, <2>3, <2>4 DEF RowOf
<1>5. ASSUME NEW c \in Cancellers, Canceller(c), ~Drop(c), ~Apply(c) PROVE RowOf'
  <2>1. UNCHANGED <<row, taskId>> /\ \A r \in Requests : pc'[r] = pc[r]
    BY <1>5 DEF Canceller, Look, Ask, AskFails, Unreachable, Poll, Obtained, GraceOver, Leave, Goto
  <2>. QED
    BY <2>1 DEF RowOf
<1>6. CASE BackendRestart
  <2>1. \A r \in Requests : row[r] = "none" => row'[r] = "none"
    BY <1>6 DEF BackendRestart, Active
  <2>. QED
    BY <1>6, <2>1 DEF BackendRestart, RowOf
<1>7. CASE RuntimeDies \/ LeftRuntimeCloses
  BY <1>7 DEF RuntimeDies, LeftRuntimeCloses, Forgotten, RowOf
<1>8. CASE UNCHANGED <<pc, row, taskId>>
  BY <1>8 DEF RowOf
<1>. QED
  BY <1>1, <1>2, <1>3, <1>4, <1>5, <1>6, <1>7, <1>8
     DEF Next, Request, Canceller, Enter, End, StartRuntime, vars

LEMMA NextActive == TypeOK /\ RowOf /\ About /\ OneActive /\ [Next]_vars => OneActive'
<1> SUFFICES ASSUME TypeOK, RowOf, About, OneActive, [Next]_vars PROVE OneActive'
  OBVIOUS
<1> USE RequestsAreActors, ActorAssumption DEF TypeOK, Active
<1>1. ASSUME NEW a \in Actors, Apply(a) PROVE OneActive'
  <2>1. of[a] \in Requests
    BY <1>1 DEF Apply, About, Actors, AtWork
  <2>. QED
    BY <1>1, <2>1 DEF Apply, OtherActive, OneActive
<1>2. ASSUME NEW c \in Cancellers, Drop(c) PROVE OneActive'
  BY <1>2 DEF Drop, OneActive
<1>3. ASSUME NEW r \in Requests, Create(r) PROVE OneActive'
  BY <1>3 DEF Create, OtherActive, OneActive
<1>4. CASE BackendRestart
  BY <1>4 DEF BackendRestart, OneActive
<1>5. CASE UNCHANGED row
  BY <1>5 DEF OneActive
<1>. QED
  BY <1>1, <1>2, <1>3, <1>4, <1>5
     DEF Next, Request, Canceller, Check, CreateConflict, Submitted, Submit, NotSubmitted,
         ReplyLost, Unreachable, Poll, Obtained, Timeout, GraceOver, Leave, Look, Ask, AskFails,
         Enter, End, StartRuntime, RuntimeDies, LeftRuntimeCloses, vars

-----------------------------------------------------------------------------
(* Runtime and client *)

\* What a step may do to the runtime.
LEMMA RuntimeStep ==
  ASSUME TypeOK, [Next]_vars
  PROVE  \/ \E r \in Requests : Submitted(r) \/ ReplyLost(r)
         \/ \E k \in Keys : Enter(k) \/ End(k)
         \/ RuntimeDies \/ LeftRuntimeCloses
         \/ UNCHANGED <<rt, enters>>
BY DEF Next, Request, Canceller, Check, Create, CreateConflict, NotSubmitted, Unreachable, Poll, Obtained,
       Timeout, GraceOver, Leave, Apply, Look, Drop, Ask, AskFails, StartRuntime, BackendRestart, vars

\* What a step of an actor may do to the client and to its own step.
LEMMA ClientStep ==
  ASSUME TypeOK, [Next]_vars
  PROVE  \/ UNCHANGED client
         \/ Connected
         \/ RuntimeDies \/ LeftRuntimeCloses \/ BackendRestart
BY DEF Next, Request, Canceller, Check, Create, CreateConflict, Submitted, Submit, ReplyLost, NotSubmitted,
       Disconnected, Unreachable, Poll, Obtained, Timeout, GraceOver, Leave, Apply, Look, Drop, Ask, AskFails,
       StartRuntime, Enter, End, vars

\* Who gets to work does so with a runtime that is there.
LEMMA WorkStep ==
  ASSUME TypeOK, [Next]_vars, NEW a \in Actors, pc'[a] \in AtWork
  PROVE  pc[a] \in AtWork \/ client' = "live"
<1> USE DEF TypeOK, AtWork
<1>1. ASSUME NEW r \in Requests, Request(r) PROVE pc[a] \in AtWork \/ client' = "live"
  BY <1>1, RequestsAreActors
     DEF Request, Check, Create, CreateConflict, Submitted, Submit, Connected, ReplyLost, NotSubmitted,
         Unreachable, Poll, Obtained, Timeout, GraceOver, Leave, Apply, Goto
<1>2. ASSUME NEW c \in Cancellers, Canceller(c) PROVE pc[a] \in AtWork \/ client' = "live"
  BY <1>2, RequestsAreActors
     DEF Canceller, Look, Drop, Ask, AskFails, Unreachable, Poll, Obtained, GraceOver, Leave, Apply, Goto
<1>3. CASE BackendRestart
  BY <1>3 DEF BackendRestart
<1>. QED
  BY <1>1, <1>2, <1>3
     DEF Next, Enter, End, StartRuntime, RuntimeDies, LeftRuntimeCloses, vars
\* A task that the runtime knows stays known, and over when it is over, until
\* the runtime goes.
LEMMA TaskStays ==
  ASSUME TypeOK, [Next]_vars, ~RuntimeDies, ~LeftRuntimeCloses, NEW k \in Keys, rt[k] # "none"
  PROVE  rt'[k] # "none" /\ (Over(rt[k]) => rt'[k] = rt[k])
<1>1. CASE \E r \in Requests : Submitted(r) \/ ReplyLost(r)
  BY <1>1, KeyType DEF TypeOK, Submitted, ReplyLost, Submit, AtRuntime
<1>2. ASSUME NEW j \in Keys, Enter(j) PROVE rt'[k] # "none" /\ (Over(rt[k]) => rt'[k] = rt[k])
  BY <1>2 DEF TypeOK, Enter, Runtime!Enter, Over, Runtime!InProgress
<1>3. ASSUME NEW j \in Keys, End(j) PROVE rt'[k] # "none" /\ (Over(rt[k]) => rt'[k] = rt[k])
  BY <1>3, EndType DEF TypeOK, End
<1>. QED
  BY <1>1, <1>2, <1>3, RuntimeStep

LEMMA NextClient == TypeOK /\ About /\ ClientInv /\ Seen /\ [Next]_vars => ClientInv'
<1> SUFFICES ASSUME TypeOK, About, ClientInv, Seen, [Next]_vars PROVE ClientInv'
  OBVIOUS
<1>1. client' \in {"none", "left"} => \A a \in Actors : pc'[a] \notin AtWork
  <2>1. CASE BackendRestart
    BY <2>1 DEF BackendRestart, AtWork
  <2>2. CASE ~BackendRestart
    <3>1. client' \in {"none", "left"} => client \in {"none", "left"}
      BY <2>2, ClientStep DEF Connected, RuntimeDies, LeftRuntimeCloses
    <3>. QED
      BY <3>1, WorkStep DEF ClientInv
  <2>. QED
    BY <2>1, <2>2
<1>2. client' \in {"none", "dead"} => \A k \in Keys : rt'[k] = "none"
  <2>1. CASE RuntimeDies \/ LeftRuntimeCloses
    BY <2>1 DEF RuntimeDies, LeftRuntimeCloses, Runtime!Restart
  <2>2. CASE BackendRestart
    BY <2>2 DEF BackendRestart, ClientInv, TypeOK
  <2>3. CASE ~(RuntimeDies \/ LeftRuntimeCloses) /\ ~BackendRestart
    <3>1. client' \in {"none", "dead"} => UNCHANGED client
      BY <2>3, ClientStep DEF Connected
    <3>2. CASE \E r \in Requests : Submitted(r) \/ ReplyLost(r)
      BY <3>2 DEF Submitted, ReplyLost, Submit, Connected
    <3>3. ASSUME client' \in {"none", "dead"}, NEW k \in Keys, Enter(k) \/ End(k) PROVE FALSE
      <4>1. rt[k] = "none"
        BY <3>1, <3>3 DEF ClientInv
      <4>. QED
        BY <3>3, <4>1, EndType DEF TypeOK, Enter, End, Runtime!Enter, Over, Runtime!InProgress
    <3>. QED
      BY <2>3, <3>1, <3>2, <3>3, RuntimeStep DEF ClientInv
  <2>. QED
    BY <2>1, <2>2, <2>3
<1>3. ASSUME NEW r \in Requests, taskId'[r] = "current"
      PROVE  client' \in {"live", "left"} /\ rt'[KeyOf[r]] # "none"
  <2>1. CASE RuntimeDies \/ LeftRuntimeCloses
    BY <1>3, <2>1 DEF RuntimeDies, LeftRuntimeCloses, Forgotten
  <2>2. ASSUME NEW a \in Actors, Apply(a), taskId[r] # "current"
        PROVE  client' \in {"live", "left"} /\ rt'[KeyOf[r]] # "none"
    <3>1. of[a] = r /\ client = "live" /\ UNCHANGED <<rt, client>>
      BY <1>3, <2>2 DEF Apply, TypeOK
    <3>2. rt[KeyOf[r]] # "none"
      BY <2>2, <3>1 DEF Seen, AtWork, Apply, Key
    <3>. QED
      BY <3>1, <3>2
  <2>3. CASE taskId[r] = "current" /\ ~(RuntimeDies \/ LeftRuntimeCloses)
    <3>1. client \in {"live", "left"} /\ rt[KeyOf[r]] # "none"
      BY <2>3 DEF ClientInv
    <3>2. client' \in {"live", "left"}
      BY <2>3, <3>1, ClientStep DEF Connected, BackendRestart
    <3>. QED
      BY <2>3, <3>1, <3>2, TaskStays, KeyType
  <2>4. CASE taskId[r] # "current" /\ ~(RuntimeDies \/ LeftRuntimeCloses)
    <3>1. \E a \in Actors : Apply(a)
      BY <1>3, <2>4, RequestsAreActors
         DEF TypeOK, Next, Request, Canceller, Check, Create, CreateConflict, Submitted, Submit,
             ReplyLost, NotSubmitted, Unreachable, Poll, Obtained, Timeout, GraceOver, Leave, Look,
             Drop, Ask, AskFails, Enter, End, StartRuntime, BackendRestart, vars
    <3>. QED
      BY <2>2, <2>4, <3>1
  <2>. QED
    BY <2>1, <2>3, <2>4
<1>. QED
  BY <1>1, <1>2, <1>3 DEF ClientInv

\* What an actor at work knows of its task when it gets there, or stays there.
LEMMA Learns ==
  ASSUME TypeOK, RowOf, About, ClientInv, Seen, [Next]_vars,
         NEW a \in Actors, pc'[a] \in AtWork
  PROVE  /\ of'[a] = of[a] /\ of[a] \in Requests
         /\ \/ UNCHANGED <<pc, result>>
            \/ pc'[a] = pc[a] /\ result'[a] = result[a]
            \/ /\ rt'[Key(a)] # "none"
               /\ pc'[a] = "applying" /\ Over(result'[a]) => Over(rt'[Key(a)])
<1> USE RequestsAreActors, ActorAssumption DEF TypeOK, AtWork
<1>1. About'
  BY NextAbout
<1>2. ASSUME NEW r \in Requests, Request(r)
      PROVE  /\ of'[a] = of[a] /\ of[a] \in Requests
             /\ \/ pc'[a] = pc[a] /\ result'[a] = result[a]
                \/ /\ rt'[Key(a)] # "none"
                   /\ pc'[a] = "applying" /\ Over(result'[a]) => Over(rt'[Key(a)])
  <2>1. UNCHANGED of
    BY <1>2 DEF Request, Check, Create, CreateConflict, Submitted, Submit, NotSubmitted, ReplyLost,
                Unreachable, Poll, Obtained, Timeout, GraceOver, Leave, Apply
  <2>2. of[a] \in Requests
    BY <1>1, <2>1 DEF About, Actors
  <2>3. CASE a # r
    BY <1>2, <2>1, <2>2, <2>3
       DEF Request, Check, Create, CreateConflict, Submitted, Submit, NotSubmitted, ReplyLost,
           Unreachable, Poll, Obtained, Timeout, GraceOver, Leave, Apply, Goto
  <2>4. CASE a = r /\ Submitted(r)
    <3>1. Key(r) = KeyOf[r] /\ KeyOf[r] \in Keys
      BY KeyType DEF Key, About
    <3>. QED
      BY <2>1, <2>2, <2>4, <3>1
         DEF Submitted, Submit, AtRuntime, Goto, Over, Runtime!InProgress
  <2>5. CASE a = r /\ (Poll(r) \/ Timeout(r) \/ GraceOver(r))
    <3>1. client = "live" /\ rt[Key(a)] # "none" /\ UNCHANGED rt
      BY <2>5 DEF Poll, Obtained, Timeout, GraceOver, Seen
    <3>2. pc'[a] = "applying" /\ Over(result'[a]) => Over(rt[Key(a)])
      BY <2>5 DEF Poll, Obtained, Timeout, GraceOver, Goto, Over, Runtime!InProgress
    <3>. QED
      BY <2>1, <2>2, <3>1, <3>2
  <2>6. CASE a = r /\ ~Submitted(r) /\ ~(Poll(r) \/ Timeout(r) \/ GraceOver(r))
    BY <1>2, <2>6
       DEF Request, Check, Create, CreateConflict, NotSubmitted, ReplyLost,
           Unreachable, Leave, Apply, Goto
  <2>. QED
    BY <2>3, <2>4, <2>5, <2>6
<1>3. ASSUME NEW c \in Cancellers, Canceller(c)
      PROVE  /\ of'[a] = of[a] /\ of[a] \in Requests
             /\ \/ pc'[a] = pc[a] /\ result'[a] = result[a]
                \/ /\ rt'[Key(a)] # "none"
                   /\ pc'[a] = "applying" /\ Over(result'[a]) => Over(rt'[Key(a)])
  <2>1. UNCHANGED of \/ (of'[a] = of[a] /\ a # c)
    BY <1>3 DEF Canceller, Look, Drop, Ask, AskFails, Unreachable, Poll, Obtained, GraceOver, Leave,
                Apply, Goto
  <2>2. of[a] \in Requests
    BY <1>1, <2>1 DEF About, Actors
  <2>3. CASE a # c
    BY <1>3, <2>1, <2>2, <2>3
       DEF Canceller, Look, Drop, Ask, AskFails, Unreachable, Poll, Obtained, GraceOver, Leave,
           Apply, Goto
  <2>4. CASE a = c /\ Ask(c)
    <3>1. client = "live" /\ rt[Key(c)] # "none" /\ pc'[c] = "cancelling" /\ UNCHANGED rt
      BY <2>2, <2>4 DEF Ask, Goto, ClientInv, Key
    <3>. QED
      BY <2>1, <2>2, <2>4, <3>1
  <2>5. CASE a = c /\ (Poll(c) \/ GraceOver(c))
    <3>1. client = "live" /\ rt[Key(a)] # "none" /\ UNCHANGED rt
      BY <2>5 DEF Poll, Obtained, GraceOver, Seen
    <3>2. pc'[a] = "applying" /\ Over(result'[a]) => Over(rt[Key(a)])
      BY <2>5 DEF Poll, Obtained, GraceOver, Goto, Over, Runtime!InProgress
    <3>. QED
      BY <2>1, <2>2, <2>5, <3>1, <3>2
  <2>6. CASE a = c /\ ~Ask(c) /\ ~(Poll(c) \/ GraceOver(c))
    BY <1>3, <2>6 DEF Canceller, Look, Drop, AskFails, Unreachable, Leave, Apply, Goto
  <2>. QED
    BY <2>3, <2>4, <2>5, <2>6
<1>4. CASE BackendRestart
  BY <1>4 DEF BackendRestart
<1>5. CASE UNCHANGED <<pc, of, result>>
  BY <1>1, <1>5 DEF About, Actors
<1>. QED
  BY <1>2, <1>3, <1>4, <1>5
     DEF Next, Enter, End, StartRuntime, RuntimeDies, LeftRuntimeCloses, vars

LEMMA NextSeen == TypeOK /\ RowOf /\ About /\ ClientInv /\ Seen /\ [Next]_vars => Seen'
<1> SUFFICES ASSUME TypeOK, RowOf, About, ClientInv, Seen, [Next]_vars, client' = "live",
                    NEW a \in Actors, pc'[a] \in AtWork
             PROVE  /\ rt'[KeyOf[of'[a]]] # "none"
                    /\ pc'[a] = "applying" /\ Over(result'[a]) => Over(rt'[KeyOf[of'[a]]])
  BY DEF Seen, Key, AtWork
<1>1. of'[a] = of[a] /\ of[a] \in Requests
  BY Learns
<1>2. CASE pc'[a] = pc[a] /\ result'[a] = result[a]
  <2>1. client = "live"
    BY <1>2, ClientStep
       DEF ClientInv, Connected, RuntimeDies, LeftRuntimeCloses, BackendRestart
  <2>2. ~RuntimeDies /\ ~LeftRuntimeCloses
    BY DEF RuntimeDies, LeftRuntimeCloses
  <2>3. rt[Key(a)] # "none" /\ (pc[a] = "applying" /\ Over(result[a]) => Over(rt[Key(a)]))
    BY <1>2, <2>1 DEF Seen
  <2>4. Key(a) \in Keys /\ Key(a) = KeyOf[of'[a]]
    BY <1>1, KeyType DEF Key
  <2>. QED
    BY <1>2, <2>2, <2>3, <2>4, TaskStays
<1>. QED
  BY <1>1, <1>2, Learns DEF Key

-----------------------------------------------------------------------------
(* Enter *)

LEMMA NextRecorded == TypeOK /\ RowOf /\ Recorded /\ [Next]_vars => Recorded'
<1> SUFFICES ASSUME TypeOK, RowOf, Recorded, [Next]_vars,
                    NEW k \in Keys, rt'[k] # "none" \/ enters'[k] # 0
             PROVE  \E s \in Requests : KeyOf[s] = k /\ row'[s] # "none"
  BY DEF Recorded
<1>1. CASE rt[k] # "none" \/ enters[k] # 0
  BY <1>1, Lasting DEF Recorded
<1>2. CASE rt[k] = "none" /\ enters[k] = 0
  <2>1. PICK r \in Requests : KeyOf[r] = k /\ Submit(r)
    <3>1. ~\E j \in Keys : Enter(j) /\ (rt'[k] # "none" \/ enters'[k] # 0)
      BY <1>2 DEF TypeOK, Enter, Runtime!Enter
    <3>2. ~\E j \in Keys : End(j) /\ (rt'[k] # "none" \/ enters'[k] # 0)
      BY <1>2, EndType DEF TypeOK, End, Over, Runtime!InProgress
    <3>3. ~(RuntimeDies \/ LeftRuntimeCloses)
      BY <1>2 DEF RuntimeDies, LeftRuntimeCloses, Runtime!Restart
    <3>4. PICK r \in Requests : Submitted(r) \/ ReplyLost(r)
      BY <1>2, <3>1, <3>2, <3>3, RuntimeStep
    <3>. QED
      BY <1>2, <3>4, KeyType DEF TypeOK, Submitted, ReplyLost, Submit, AtRuntime
  <2>2. row[r] # "none" /\ UNCHANGED row
    BY <2>1 DEF Submit, RowOf
  <2>. QED
    BY <2>1, <2>2
<1>. QED
  BY <1>1, <1>2

\* A request has been looked up before it is made.
LEMMA LookedUp ==
  ASSUME TypeOK, Recorded, [Next]_vars, NEW r \in Requests, pc'[r] \in {"checked", "created"}
  PROVE  /\ ~BackendRestart
         /\ \/ pc[r] \in {"checked", "created"}
            \/ /\ UNCHANGED <<rt, enters, client>> /\ ~RunExists(r)
               /\ rt[KeyOf[r]] = "none" /\ enters[KeyOf[r]] = 0
<1> USE RequestsAreActors, ActorAssumption DEF TypeOK
<1>1. ~BackendRestart
  BY DEF BackendRestart
<1>2. CASE Check(r)
  <2>1. ~RunExists(r) /\ UNCHANGED <<rt, enters, client>>
    BY <1>2 DEF Check, Goto
  <2>. QED
    BY <1>1, <2>1, KeyType DEF RunExists, Recorded
<1>3. ASSUME NEW x \in Requests, Request(x), ~Check(r) PROVE pc[r] \in {"checked", "created"}
  BY <1>3 DEF Request, Check, Create, CreateConflict, Submitted, Submit, NotSubmitted, ReplyLost,
              Unreachable, Poll, Obtained, Timeout, GraceOver, Leave, Apply, Goto
<1>4. ASSUME NEW c \in Cancellers, Canceller(c) PROVE pc[r] \in {"checked", "created"}
  BY <1>4 DEF Canceller, Look, Drop, Ask, AskFails, Unreachable, Poll, Obtained, GraceOver, Leave,
              Apply, Goto
<1>. QED
  BY <1>1, <1>2, <1>3, <1>4
     DEF Next, Enter, End, StartRuntime, RuntimeDies, LeftRuntimeCloses, vars

\* Enter is pressed for a task that runs.
LEMMA Pressed ==
  ASSUME TypeOK, [Next]_vars, NEW k \in Keys, enters'[k] # enters[k]
  PROVE  rt[k] = "running" /\ rt'[k] = "entered" /\ enters'[k] = enters[k] + 1
<1>1. \E j \in Keys : Enter(j)
  BY RuntimeStep
     DEF Submitted, ReplyLost, Submit, End, RuntimeDies, LeftRuntimeCloses
<1>. QED
  BY <1>1 DEF TypeOK, Enter, Runtime!Enter

\* Nothing is submitted to a runtime that was left, and nothing begins there.
LEMMA LeftAlone ==
  ASSUME TypeOK, [Next]_vars, client = "left", NEW k \in Keys, rt[k] = "none"
  PROVE  rt'[k] = "none"
<1>1. ASSUME NEW j \in Keys, Enter(j) \/ End(j) PROVE rt'[k] = "none"
  BY <1>1, EndType DEF TypeOK, Enter, Runtime!Enter, End, Over, Runtime!InProgress
<1>. QED
  BY <1>1, RuntimeStep
     DEF Submitted, ReplyLost, Submit, Connected, RuntimeDies, LeftRuntimeCloses, Runtime!Restart

LEMMA NextUnseen == TypeOK /\ Recorded /\ Unseen /\ [Next]_vars => Unseen'
<1> SUFFICES ASSUME TypeOK, Recorded, Unseen, [Next]_vars,
                    NEW r \in Requests, pc'[r] \in {"checked", "created"}, client' = "left"
             PROVE  rt'[KeyOf[r]] = "none" /\ enters'[KeyOf[r]] = 0
  BY DEF Unseen
<1>1. client = "left"
  BY LookedUp, ClientStep DEF Connected, RuntimeDies, LeftRuntimeCloses
<1>2. rt[KeyOf[r]] = "none" /\ enters[KeyOf[r]] = 0
  BY <1>1, LookedUp DEF Unseen
<1>. QED
  BY <1>1, <1>2, LeftAlone, Pressed, KeyType

LEMMA NextFresh == TypeOK /\ Recorded /\ Fresh /\ Unseen /\ [Next]_vars => Fresh'
<1> SUFFICES ASSUME TypeOK, Recorded, Fresh, Unseen, [Next]_vars,
                    NEW r \in Requests, pc'[r] \in {"checked", "created"}, client' # "dead",
                    rt'[KeyOf[r]] = "none"
             PROVE  enters'[KeyOf[r]] = 0
  BY DEF Fresh
<1>1. ~BackendRestart /\ ~RuntimeDies
  BY LookedUp DEF RuntimeDies
<1>2. client # "dead"
  BY <1>1, ClientStep DEF Connected, LeftRuntimeCloses
<1>3. CASE pc[r] \in {"checked", "created"} /\ LeftRuntimeCloses
  BY <1>3 DEF LeftRuntimeCloses, Unseen
<1>4. CASE pc[r] \in {"checked", "created"} /\ ~LeftRuntimeCloses
  <2>1. rt[KeyOf[r]] = "none"
    BY <1>1, <1>4, TaskStays, KeyType
  <2>2. enters[KeyOf[r]] = 0
    BY <1>2, <1>4, <2>1 DEF Fresh
  <2>. QED
    BY <2>1, <2>2, Pressed, KeyType
<1>5. CASE pc[r] \notin {"checked", "created"}
  BY <1>5, LookedUp
<1>. QED
  BY <1>3, <1>4, <1>5

LEMMA NextOnce == TypeOK /\ Fresh /\ Once /\ [Next]_vars => Once'
<1> SUFFICES ASSUME TypeOK, Fresh, Once, [Next]_vars, NEW k \in Keys
             PROVE  enters'[k] \in {0, 1} /\ (rt'[k] = "running" => enters'[k] = 0)
  BY DEF Once
<1>1. CASE enters'[k] # enters[k]
  BY <1>1, Pressed DEF Once
<1>2. CASE enters'[k] = enters[k] /\ rt[k] = "running"
  BY <1>2 DEF Once
<1>3. CASE enters'[k] = enters[k] /\ rt[k] # "running" /\ rt'[k] = "running"
  <2>1. ~\E j \in Keys : Enter(j) \/ End(j)
    BY <1>3, EndType DEF TypeOK, Enter, Runtime!Enter, End, Over, Runtime!InProgress
  <2>2. PICK r \in Requests : Submit(r)
    BY <1>3, <2>1, RuntimeStep
       DEF Submitted, ReplyLost, RuntimeDies, LeftRuntimeCloses, Runtime!Restart
  <2>3. KeyOf[r] = k /\ rt[k] = "none"
    BY <1>3, <2>2, KeyType DEF TypeOK, Submit, AtRuntime
  <2>. QED
    BY <1>3, <2>2, <2>3 DEF Fresh, Submit, Connected
<1>4. CASE enters'[k] = enters[k] /\ rt'[k] # "running"
  BY <1>4 DEF Once
<1>. QED
  BY <1>1, <1>2, <1>3, <1>4

-----------------------------------------------------------------------------
(* Tracked *)

LEMMA NextTracked == TypeOK /\ RowOf /\ About /\ ClientInv /\ Seen /\ Tracked /\ [Next]_vars => Tracked'
<1> SUFFICES ASSUME TypeOK, RowOf, About, ClientInv, Seen, Tracked, [Next]_vars,
                    NEW k \in Keys, ~Over(rt'[k])
             PROVE  \E r \in Requests : KeyOf[r] = k /\ row'[r] \in {"dropped", "recovered"} \cup Active
  BY DEF Tracked, GivenUp, Over
<1> USE RequestsAreActors, ActorAssumption DEF TypeOK
<1>1. CASE Over(rt[k])
  <2>1. ~\E j \in Keys : Enter(j) \/ End(j)
    BY <1>1, EndType DEF Enter, Runtime!Enter, End, Over, Runtime!InProgress
  <2>2. PICK r \in Requests : Submit(r)
    BY <1>1, <2>1, RuntimeStep
       DEF Submitted, ReplyLost, RuntimeDies, LeftRuntimeCloses, Runtime!Restart, Over, Runtime!InProgress
  <2>3. KeyOf[r] = k
    BY <1>1, <2>2, KeyType DEF Submit, AtRuntime
  <2>4. row[r] \in {"queued", "dropped"} /\ UNCHANGED row
    BY <2>2 DEF Submit, RowOf
  <2>. QED
    BY <2>3, <2>4 DEF Active
<1>2. CASE ~Over(rt[k])
  <2>1. PICK r \in Requests : KeyOf[r] = k /\ row[r] \in {"dropped", "recovered"} \cup Active
    BY <1>2 DEF Tracked, GivenUp
  <2>2. row'[r] \in {"dropped", "recovered"} \cup Active
    <3>1. ASSUME NEW a \in Actors, Apply(a), of[a] = r PROVE row'[r] \in {"dropped", "recovered"} \cup Active
      <4>1. client = "live"
        BY <1>2, <3>1 DEF ClientInv, Apply, AtWork, Over, Runtime!InProgress
      <4>2. ~Over(result[a])
        BY <1>2, <2>1, <3>1, <4>1 DEF Seen, Apply, AtWork, Key
      <4>3. Decoded(result[a]) = {"running"}
        BY <4>2 DEF Decoded, Over, Runtime!InProgress
      <4>. QED
        BY <2>1, <3>1, <4>3 DEF Apply, Active
    <3>2. ASSUME NEW x \in Requests, Create(x) PROVE row'[r] \in {"dropped", "recovered"} \cup Active
      BY <2>1, <3>2 DEF Create, Active
    <3>3. ASSUME NEW c \in Cancellers, Drop(c) PROVE row'[r] \in {"dropped", "recovered"} \cup Active
      BY <2>1, <3>3 DEF Drop
    <3>4. CASE BackendRestart
      BY <2>1, <3>4 DEF BackendRestart
    <3>5. ASSUME NEW a \in Actors, Apply(a), of[a] # r PROVE row'[r] = row[r]
      BY <3>5 DEF Apply
    <3>. QED
      BY <2>1, <3>1, <3>2, <3>3, <3>4, <3>5
         DEF Next, Request, Canceller, Check, CreateConflict, Submitted, Submit, ReplyLost,
             NotSubmitted, Unreachable, Poll, Obtained, Timeout, GraceOver, Leave, Look, Ask, AskFails,
             Enter, End, StartRuntime, RuntimeDies, LeftRuntimeCloses, vars
  <2>. QED
    BY <2>1, <2>2
<1>. QED
  BY <1>1, <1>2

-----------------------------------------------------------------------------
(* OutcomeTrue *)

\* How a task of the runtime that pressed Enter may stand.
Pressing == {"entered", "sent", "unverified", "late_cancel"}

\* What the runtime tells of its sends.
TaskTells ==
  \A k \in Keys :
    /\ rt[k] \in Pressing => enters[k] # 0
    /\ k \in SendKeys => rt[k] # "pasted"
    /\ ~PostSendVerify /\ rt[k] \in Runtime!NotEntered => enters[k] = 0

\* The key has been used, Enter was not pressed for it, and nobody who is on
\* his way to the runtime will find it unused there.
NeverSent(k) ==
  /\ enters[k] = 0 /\ rt[k] \notin Runtime!InProgress
  /\ \E s \in Requests : KeyOf[s] = k /\ row[s] # "none"
  /\ \A r \in Requests :
       KeyOf[r] = k /\ pc[r] \in {"checked", "created"} /\ client # "dead" => rt[k] # "none"

\* What an actor has been told of a send, and has not written yet.
Told ==
  \A a \in Actors : pc[a] = "applying" /\ Key(a) \in SendKeys =>
    /\ result[a] \notin {"none", "pasted"}
    /\ result[a] \in {"sent", "unverified"} => enters[Key(a)] # 0
    /\ ~PostSendVerify /\ result[a] \in Runtime!NotEntered => NeverSent(Key(a))

\* What has been written.
Written ==
  \A r \in Requests : KeyOf[r] \in SendKeys =>
    /\ row[r] \in {"succeeded", "warning"} => enters[KeyOf[r]] # 0
    /\ ~PostSendVerify /\ row[r] = "failed" => NeverSent(KeyOf[r])

LEMMA InitOutcome == Init => TaskTells /\ Told /\ Written
BY ActorAssumption, KeyType
   DEF Init, TaskTells, Told, Written, Pressing, Runtime!Init, Runtime!NotEntered

LEMMA SendsAreKeys == SendKeys \subseteq Keys
BY ActorAssumption

\* An Enter that was pressed stays pressed.
LEMMA StaysPressed ==
  ASSUME TypeOK, [Next]_vars, NEW k \in Keys, enters[k] # 0
  PROVE  enters'[k] # 0
BY Pressed DEF TypeOK

LEMMA NextTaskTells == TypeOK /\ Once /\ TaskTells /\ [Next]_vars => TaskTells'
<1> SUFFICES ASSUME TypeOK, Once, TaskTells, [Next]_vars, NEW k \in Keys
             PROVE  /\ rt'[k] \in Pressing => enters'[k] # 0
                    /\ k \in SendKeys => rt'[k] # "pasted"
                    /\ ~PostSendVerify /\ rt'[k] \in Runtime!NotEntered => enters'[k] = 0
  BY DEF TaskTells
<1> USE DEF TypeOK
<1>1. CASE rt'[k] = rt[k]
  <2>1. enters'[k] = enters[k]
    BY <1>1, Pressed
  <2>. QED
    BY <1>1, <2>1 DEF TaskTells
<1>2. CASE \E r \in Requests : Submitted(r) \/ ReplyLost(r)
  <2>1. PICK r \in Requests : Submit(r)
    BY <1>2 DEF Submitted, ReplyLost
  <2>2. rt'[k] = rt[k] \/ rt'[k] = "running"
    BY <2>1, KeyType DEF Submit
  <2>. QED
    BY <1>1, <2>2 DEF Pressing, Runtime!NotEntered
<1>3. ASSUME NEW j \in Keys, Enter(j), rt'[k] # rt[k] PROVE enters'[k] # 0 /\ rt'[k] = "entered"
  BY <1>3, Pressed DEF Enter, Runtime!Enter
<1>4. ASSUME NEW j \in Keys, End(j), rt'[k] # rt[k]
      PROVE  /\ rt'[k] \in Pressing => enters'[k] # 0
             /\ k \in SendKeys => rt'[k] # "pasted"
             /\ ~PostSendVerify /\ rt'[k] \in Runtime!NotEntered => enters'[k] = 0
  <2>1. PICK s \in Runtime!Ends(k) : rt' = [rt EXCEPT ![k] = s]
    BY <1>4 DEF End, Runtime!End
  <2>2. enters'[k] = enters[k]
    BY <1>4 DEF End
  <2>3. CASE rt[k] = "entered"
    <3>1. s \in Runtime!Entered /\ enters[k] # 0
      BY <2>1, <2>3 DEF Runtime!Ends, TaskTells, Pressing
    <3>. QED
      BY <2>1, <2>2, <3>1 DEF Runtime!Entered, Runtime!NotEntered
  <2>4. CASE rt[k] = "running"
    <3>1. s \in Runtime!NotEntered \/ (s = "pasted" /\ k \notin SendKeys)
      BY <2>1, <2>4 DEF Runtime!Ends
    <3>2. enters[k] = 0
      BY <2>4 DEF Once
    <3>. QED
      BY <2>1, <2>2, <3>1, <3>2 DEF Runtime!NotEntered, Pressing
  <2>. QED
    BY <2>1, <2>3, <2>4 DEF Runtime!Ends
<1>5. CASE RuntimeDies \/ LeftRuntimeCloses
  BY <1>5 DEF RuntimeDies, LeftRuntimeCloses, Runtime!Restart, Pressing, Runtime!NotEntered
<1>. QED
  BY <1>1, <1>2, <1>3, <1>4, <1>5, RuntimeStep DEF Pressing, Runtime!NotEntered

\* A key for which Enter was never pressed will never be: the request that
\* could do so would have found the run of the key.
LEMMA StaysUnsent ==
  ASSUME TypeOK, Recorded, Unseen, [Next]_vars, NEW k \in Keys, NeverSent(k)
  PROVE  NeverSent(k)'
<1> USE DEF TypeOK
<1>1. enters'[k] = 0
  BY Pressed DEF NeverSent, Runtime!InProgress
<1>2. rt'[k] \notin Runtime!InProgress
  <2>1. ASSUME NEW r \in Requests, Submit(r), pc[r] = "created" PROVE rt'[k] = rt[k]
    BY <2>1, KeyType DEF Submit, Connected, AtRuntime, NeverSent
  <2>2. ASSUME NEW j \in Keys, Enter(j) PROVE rt'[k] = rt[k]
    BY <2>2 DEF Enter, Runtime!Enter, NeverSent, Runtime!InProgress
  <2>3. ASSUME NEW j \in Keys, End(j) PROVE rt'[k] = rt[k] \/ Over(rt'[k])
    BY <2>3, EndType DEF End
  <2>4. RuntimeDies \/ LeftRuntimeCloses => rt'[k] = "none"
    BY DEF RuntimeDies, LeftRuntimeCloses, Runtime!Restart
  <2>. QED
    BY <2>1, <2>2, <2>3, <2>4, RuntimeStep
       DEF Submitted, ReplyLost, Submit, NeverSent, Over, Runtime!InProgress
<1>3. \E s \in Requests : KeyOf[s] = k /\ row'[s] # "none"
  BY Lasting DEF NeverSent
<1>4. ASSUME NEW r \in Requests, KeyOf[r] = k, pc'[r] \in {"checked", "created"}, client' # "dead"
      PROVE  rt'[k] # "none"
  <2>1. ~BackendRestart /\ ~RuntimeDies
    BY <1>4, LookedUp DEF RuntimeDies
  <2>2. client # "dead"
    BY <1>4, <2>1, ClientStep DEF Connected, LeftRuntimeCloses
  <2>3. pc[r] \in {"checked", "created"}
    BY <1>4, LookedUp DEF RunExists, NeverSent
  <2>4. rt[k] # "none"
    BY <1>4, <2>2, <2>3 DEF NeverSent
  <2>5. ~LeftRuntimeCloses
    BY <1>4, <2>3, <2>4 DEF LeftRuntimeCloses, Unseen
  <2>. QED
    BY <2>1, <2>4, <2>5, TaskStays
<1>. QED
  BY <1>1, <1>2, <1>3, <1>4 DEF NeverSent

\* How an actor comes to know the result it applies.
LEMMA Hears ==
  ASSUME TypeOK, RowOf, About, ClientInv, Seen, [Next]_vars,
         NEW a \in Actors, pc'[a] = "applying"
  PROVE  /\ of'[a] = of[a] /\ of[a] \in Requests /\ Key(a)' = Key(a) /\ Key(a) \in Keys
         /\ \/ pc[a] = "applying" /\ result'[a] = result[a]
            \/ result'[a] = "running"
            \/ /\ client = "live" /\ rt[Key(a)] # "none" /\ result'[a] = rt[Key(a)]
               /\ Over(rt[Key(a)])
<1> USE RequestsAreActors, ActorAssumption DEF TypeOK, AtWork
<1>1. of'[a] = of[a] /\ of[a] \in Requests
  BY Learns
<1>2. Key(a)' = Key(a) /\ Key(a) \in Keys
  BY <1>1, KeyType DEF Key
<1>3. ASSUME NEW r \in Requests, Submitted(r), a = r, pc[a] # "applying"
      PROVE  client' = "live" /\ rt[Key(a)] # "none" /\ result'[a] = rt[Key(a)] /\ Over(rt[Key(a)])
  BY <1>3 DEF Submitted, Submit, AtRuntime, Connected, Goto, Key, About, Over, Runtime!InProgress
<1>4. ASSUME NEW x \in Requests, Request(x), ~(x = a /\ Submitted(x))
      PROVE  \/ pc[a] = "applying" /\ result'[a] = result[a]
             \/ result'[a] = "running"
             \/ /\ client = "live" /\ result'[a] = rt[Key(a)] /\ Over(rt[Key(a)])
                /\ pc[a] \in {"waiting", "cancelling"}
  BY <1>4
     DEF Request, Check, Create, CreateConflict, Submitted, Submit, NotSubmitted, ReplyLost,
         Unreachable, Poll, Obtained, Timeout, GraceOver, Leave, Apply, Goto
<1>5. ASSUME NEW c \in Cancellers, Canceller(c)
      PROVE  \/ pc[a] = "applying" /\ result'[a] = result[a]
             \/ result'[a] = "running"
             \/ /\ client = "live" /\ result'[a] = rt[Key(a)] /\ Over(rt[Key(a)])
                /\ pc[a] \in {"waiting", "cancelling"}
  BY <1>5
     DEF Canceller, Look, Drop, Ask, AskFails, Unreachable, Poll, Obtained, GraceOver, Leave, Apply, Goto
<1>6. CASE BackendRestart
  BY <1>6 DEF BackendRestart
<1>7. client = "live" /\ pc[a] \in {"waiting", "cancelling"} => rt[Key(a)] # "none"
  BY DEF Seen
<1>8. CASE \E x \in Requests : Request(x)
  <2>1. PICK x \in Requests : Request(x)
    BY <1>8
  <2>2. CASE x = a /\ Submitted(x)
    <3>1. pc[a] # "applying"
      BY <2>2 DEF Submitted, Submit
    <3>2. client = "live" \/ rt[Key(a)] = "none"
      BY <2>2 DEF Submitted, Submit, Connected, ClientInv, Key, About
    <3>. QED
      BY <1>1, <1>2, <1>3, <2>2, <3>1, <3>2
  <2>3. CASE ~(x = a /\ Submitted(x))
    BY <1>1, <1>2, <1>4, <1>7, <2>1, <2>3
  <2>. QED
    BY <2>2, <2>3
<1>9. CASE \E c \in Cancellers : Canceller(c)
  BY <1>1, <1>2, <1>5, <1>7, <1>9
<1>. QED
  BY <1>1, <1>2, <1>6, <1>8, <1>9
     DEF Next, Enter, End, StartRuntime, RuntimeDies, LeftRuntimeCloses, vars

\* What the decoder makes of the tasks of sends.
LEMMA DecodedSend ==
  ASSUME NEW s \in Runtime!States \ {"none", "pasted"}, NEW d \in Decoded(s)
  PROVE  /\ d \in {"succeeded", "warning"} => s \in {"sent", "unverified"}
         /\ d = "failed" => s \in Runtime!NotEntered
BY DEF Decoded, Runtime!States, Runtime!InProgress, Runtime!NotEntered

LEMMA NextTold ==
  TypeOK /\ RowOf /\ About /\ ClientInv /\ Seen /\ Recorded /\ Unseen /\ TaskTells /\ Told /\ [Next]_vars => Told'
<1> SUFFICES ASSUME TypeOK, RowOf, About, ClientInv, Seen, Recorded, Unseen, TaskTells, Told, [Next]_vars,
                    NEW a \in Actors, pc'[a] = "applying", NEW k \in SendKeys, Key(a)' = k
             PROVE  /\ result'[a] \notin {"none", "pasted"}
                    /\ result'[a] \in {"sent", "unverified"} => enters'[k] # 0
                    /\ ~PostSendVerify /\ result'[a] \in Runtime!NotEntered => NeverSent(k)'
  BY DEF Told
<1>1. Key(a) = k /\ k \in Keys
  BY Hears
<1>2. CASE pc[a] = "applying" /\ result'[a] = result[a]
  BY <1>1, <1>2, StaysPressed, StaysUnsent DEF Told
<1>3. CASE result'[a] = "running"
  BY <1>3 DEF Runtime!NotEntered
<1>4. CASE client = "live" /\ rt[Key(a)] # "none" /\ result'[a] = rt[Key(a)] /\ Over(rt[Key(a)])
  <2>1. /\ rt[Key(a)] \notin {"none", "pasted"}
        /\ rt[Key(a)] \in {"sent", "unverified"} => enters[Key(a)] # 0
        /\ ~PostSendVerify /\ rt[Key(a)] \in Runtime!NotEntered => enters[Key(a)] = 0
    BY <1>1, <1>4 DEF TaskTells, Pressing
  <2>2. enters[Key(a)] = 0 => NeverSent(Key(a))
    BY <1>1, <1>4 DEF NeverSent, Recorded, Over
  <2>. QED
    BY <1>1, <1>4, <2>1, <2>2, StaysPressed, StaysUnsent
<1>. QED
  BY <1>2, <1>3, <1>4, Hears

LEMMA NextWritten ==
  TypeOK /\ RowOf /\ About /\ Recorded /\ Unseen /\ Told /\ Written /\ [Next]_vars => Written'
<1> SUFFICES ASSUME TypeOK, RowOf, About, Recorded, Unseen, Told, Written, [Next]_vars,
                    NEW r \in Requests, KeyOf[r] \in SendKeys
             PROVE  /\ row'[r] \in {"succeeded", "warning"} => enters'[KeyOf[r]] # 0
                    /\ ~PostSendVerify /\ row'[r] = "failed" => NeverSent(KeyOf[r])'
  BY DEF Written
<1>1. KeyOf[r] \in Keys
  BY KeyType
<1>2. CASE row'[r] \in {"succeeded", "warning", "failed"} => row'[r] = row[r]
  BY <1>1, <1>2, StaysPressed, StaysUnsent DEF Written
<1>3. ASSUME NEW a \in Actors, Apply(a), of[a] = r
      PROVE  /\ row'[r] \in {"succeeded", "warning"} => enters'[KeyOf[r]] # 0
             /\ ~PostSendVerify /\ row'[r] = "failed" => NeverSent(KeyOf[r])'
  <2>1. row'[r] = row[r] \/ row'[r] \in Decoded(result[a])
    BY <1>3 DEF Apply, TypeOK
  <2>2. result[a] \in Runtime!States \ {"none", "pasted"} /\ Key(a) = KeyOf[r]
    BY <1>3 DEF Apply, Told, Key, TypeOK
  <2>3. CASE row'[r] \in Decoded(result[a])
    <3>1. /\ row'[r] \in {"succeeded", "warning"} => result[a] \in {"sent", "unverified"}
          /\ row'[r] = "failed" => result[a] \in Runtime!NotEntered
      BY <2>2, <2>3, DecodedSend
    <3>2. /\ row'[r] \in {"succeeded", "warning"} => enters[KeyOf[r]] # 0
          /\ ~PostSendVerify /\ row'[r] = "failed" => NeverSent(KeyOf[r])
      BY <1>3, <2>2, <3>1 DEF Told, Apply
    <3>. QED
      BY <1>1, <3>2, StaysPressed, StaysUnsent
  <2>. QED
    BY <1>2, <2>1, <2>3
<1>4. ASSUME NEW a \in Actors, Apply(a), of[a] # r PROVE row'[r] = row[r]
  BY <1>4 DEF Apply, TypeOK
<1>5. ASSUME NEW c \in Cancellers, Drop(c) PROVE row'[r] \in {row[r], "dropped"}
  BY <1>5 DEF Drop, TypeOK
<1>6. ASSUME NEW x \in Requests, Create(x) PROVE row'[r] \in {row[r], "queued"}
  BY <1>6 DEF Create, TypeOK
<1>7. CASE BackendRestart
  BY <1>2, <1>7 DEF BackendRestart
<1>8. CASE UNCHANGED row
  BY <1>2, <1>8
<1>. QED
  BY <1>2, <1>3, <1>4, <1>5, <1>6, <1>7, <1>8, RequestsAreActors
     DEF Next, Request, Canceller, Check, CreateConflict, Submitted, Submit, ReplyLost,
         NotSubmitted, Unreachable, Poll, Obtained, Timeout, GraceOver, Leave, Look, Ask, AskFails,
         Enter, End, StartRuntime, RuntimeDies, LeftRuntimeCloses, vars

-----------------------------------------------------------------------------
(* Theorems *)

IInv ==
  /\ TypeOK /\ RowOf /\ About /\ ClientInv /\ Seen /\ OneActive
  /\ Recorded /\ Fresh /\ Unseen /\ Once /\ Tracked
  /\ TaskTells /\ Told /\ Written

LEMMA Invariant == Spec => []IInv
<1>1. Init => IInv
  <2>1. Init => Tracked
    BY DEF Init, Tracked, Over, Runtime!Init, Runtime!InProgress
  <2>. QED
    BY <2>1, InitType, InitInvs, InitOutcome DEF IInv
<1>2. IInv /\ [Next]_vars => IInv'
  <2>1. IInv /\ [Next]_vars => TypeOK' /\ RowOf' /\ About' /\ OneActive'
    BY NextType, NextRowOf, NextAbout, NextActive DEF IInv
  <2>2. IInv /\ [Next]_vars => ClientInv' /\ Seen'
    BY NextClient, NextSeen DEF IInv
  <2>3. IInv /\ [Next]_vars => Recorded' /\ Fresh' /\ Unseen' /\ Once'
    BY NextRecorded, NextFresh, NextUnseen, NextOnce DEF IInv
  <2>4. IInv /\ [Next]_vars => Tracked'
    BY NextTracked DEF IInv
  <2>5. IInv /\ [Next]_vars => TaskTells' /\ Told' /\ Written'
    BY NextTaskTells, NextTold, NextWritten DEF IInv
  <2>. QED
    BY <2>1, <2>2, <2>3, <2>4, <2>5 DEF IInv
<1>. QED
  BY <1>1, <1>2, PTL DEF Spec

\* The variables keep their types: a run ends in a status of
\* desktop_automation_runs whatever the runtime answers.
THEOREM TypeCorrect == Spec => []TypeOK
<1>1. IInv => TypeOK
  BY DEF IInv
<1>. QED
  BY <1>1, Invariant, PTL

\* A task that works on the draft has an active run, unless its run was given
\* up.
THEOREM TasksAreTracked == Spec => []Tracked
<1>1. IInv => Tracked
  BY DEF IInv
<1>. QED
  BY <1>1, Invariant, PTL

\* Two tasks do not work on the draft at once, unless a run was given up: a
\* unique index allows one active run of a draft (create_run).
THEOREM OneTaskInFlight == Spec => []OneInFlight
<1>1. IInv => OneInFlight
  BY DEF IInv, Tracked, OneActive, OneInFlight
<1>. QED
  BY <1>1, Invariant, PTL

\* A request that is repeated with its key does not send again, although the
\* first answer was lost or the backend restarted.
THEOREM SentOncePerKey == Spec => []KeySentOnce
<1>1. IInv => KeySentOnce
  BY DEF IInv, Once, KeySentOnce
<1>. QED
  BY <1>1, Invariant, PTL

\* What the run of a send says of it is true (_apply_runtime_task_result): a
\* run that succeeded pressed Enter, and one that failed did not and will not,
\* unless a verifier may refuse what was sent.
THEOREM OutcomesAreTrue == Spec => []OutcomeTrue
<1>1. IInv => OutcomeTrue
  BY DEF IInv, Written, NeverSent, OutcomeTrue
<1>. QED
  BY <1>1, Invariant, PTL
=============================================================================
