# A TLA+ model of wecome-bot

wecome-bot is a fork of LangBot for WeCom (企业微信) on Windows. It keeps the customer messages of a
local WeCom database and drafts replies to them (*database mode*), and it adds *broadcasts*: drafts
made from an uploaded sheet are pasted into, or sent from, the WeCom desktop client by a desktop
runtime. The model follows a message through the parts in which order, failure and concurrency
decide what reaches a customer: the two services that drive the desktop runtime, the runtime itself,
the dispatch of chat messages to pipelines, the generation of reply drafts, the page that shows
them, and the local processes that read the WeCom database.

Paths below are relative to the repository; `P` is `src/src/langbot/pkg/`, `B` is `P broadcast/`,
`D` is `src/apps/desktop-rpa-runtime/src/main/`, `W` is `src/web/src/app/home/database-mode/`, and
*design* is `src/docs/superpowers/specs/2026-07-03-broadcast-phase4-7-design.md`.

## 1. Inventory

### 1.1 Broadcast execution (`B service.py`, `repository.py`, `worker.py`)

*State* (tables of `P entity/persistence/broadcast.py`): drafts with `send_status` and
`active_send_task_id` (the reservation), execution batches, execution tasks with `status`,
`attempt_count` and claim, attempts (unique per task and number), and one execution lane with an
owner and a lease. In memory: the worker's loop, its lease renewal task, the requests being served.

*Operations.* Requests create a batch (`create_execution_batch`), start, pause, resume and cancel
it, cancel, retry or run one of its tasks, mark drafts sent or pending, and clear finished batches.
The worker recovers at start (`reconcile_running_executions`), then claims a task and runs it:
acquire the lane, claim, mark running, write an attempt, call the runtime, poll it, record the
result, release.

*Interaction.* All through rows of the database, which several requests, the worker and, with a
second instance, other workers read and write. Many handlers read a row, await, and write in a
later transaction without looking again. The worker calls the runtime over HTTP under the
idempotency key `broadcast:{task}:{attempt}`.

*Hard:* check-then-act over an await; a cancellation that crosses a send; crashes, stops and failed
transactions between the call to the runtime and the recording of its result; timeouts whose late
answer arrives after all; recovery while another process runs; lease expiry; ids that the database
gives again.

*Correct when:* Enter is pressed at most once for a draft until the operator clears it; a draft that
may still be sent cannot be sent by a second task; a reservation is held by a live task and by
nobody else; a batch's status agrees with its tasks; one worker at a time holds the lane; attempts
are unique; a message that was sent is not sent again; what runs settles in the end.

### 1.2 Desktop runtime (`D runtime/*.ts`, `D input/*.ts`)

*State:* the registry of tasks by id and by idempotency key, two lanes (sends, pastes) with an
active task and a queue, the set of cancelled tasks, a shutdown flag. All in memory of one Node
process. *Operations:* create, get, cancel a task, shutdown; internally start, execute, finish and
start next. *Hard:* cancellation at any await of a running task, also between the last check and
Enter; the lane's hand-over after cancellations; shutdown with tasks waiting. *Correct when:* one
task per lane, in order, no lane stuck, and the way a task ends never denies an Enter that was
pressed.

### 1.3 Chat messages (`P pipeline/aggregator.py`, `controller.py`, `pool.py`, `P provider/session/sessionmgr.py`)

*State:* a buffer and a timer per conversation; the pool of queries with its lock and condition, one
semaphore per session, one for all pipelines. *Operations:* add a message, flush on a timer or a
full buffer, add a query, the consumer's loop, `process_query_now` with a timeout
(`P database_mode/processing_service.py`), finish. *Hard:* a timer that has fired against a message
that comes; two locks taken in opposite orders; cancellation inside a `finally`; missed
notifications. *Correct when:* no message is lost or merged twice, a session runs one query at a
time and in order, the consumer never sleeps on work, every message is answered.

### 1.4 Reply drafts (`P database_mode/processing_service.py`, `service.py`)

*State:* messages with a status, processing runs (unique while open), drafts (unique while active);
a lock per message in each process. *Operations:* claim a message, generate, save the draft or the
failure, recover stale runs at start; ingest, edit, delete, process and skip. *Hard:* two processes
that claim one message; a cancellation during a commit; recovery beside a generation that goes on;
an edit that finds no draft just before one is saved. *Correct when:* the pipeline runs once at a
time for a message, a message shown as in progress has a run somebody will find, one draft is
active and it is the newest.

### 1.5 The page of the database mode (`P database_mode/events.py`, `W page.tsx`, `W hooks/useDatabaseModeEvents.ts`)

*State:* a bounded queue per subscriber; in the page a connection, a timer, a refresh in flight and
the request for another one. *Operations:* commit and then publish, both in one request, overflow,
stream, refresh, reconnect and poll, close. *Hard:* an event during a refresh that has read already;
events published while nobody is connected; a request that ends between its commit and its event; a
full queue when the stream must end. *Correct when:* a page shows in the end what it was told of,
by an event or by the end of its stream, or an error.

### 1.6 Desktop automation (`P desktop_automation/`)

*State:* one row per run of a draft, with the runtime's task id; the client of the runtime.
*Operations:* paste and send with an idempotency key, wait, time out, cancel, record; recover after
a restart of the backend. *Hard:* a request repeated while the first is under way or its reply was
lost; runtime and backend restart independently. *Correct when:* a repeated request does not send
again, and two tasks do not type into the window for one draft.

### 1.7 Local connectors (`P local_connectors/`)

*State:* the worker and the monitor process of a connector, a record of each on disk, a lock per
role, the session's status. *Operations:* start, stop and restart each; wait until it is ready.
*Hard:* a stop while a start waits for its process, which is not recorded yet; requests cancelled
between spawn and record; processes that outlive the backend. *Correct when:* a role has one
process, which is known, and what runs is not shown as stopped.

### 1.8 The other components

| component | state and hard behaviour | here |
|---|---|---|
| broadcast drafts, imports, templates (`B import_processor.py`, half of `service.py`) | rows of matches, drafts, attachments; a generation that reads outside its transaction | not modelled (section 5) |
| send gate (`B send_gate.py`) | none | not modelled |
| application core (`P core/`) | order of start and stop | only what the modules above see of it |
| window, clipboard and mouse of the runtime | Win32 I/O | as "may fail" in `RuntimeHost` |
| pipeline stages, providers, plugins, sandbox box, platform adapters, vector, storage, survey, telemetry | upstream LangBot, I/O | not modelled |
| other pages, launcher, packaging, vendored decryption | no concurrency of their own | not modelled |

`PROJECT.json` lists each with its files and the reason, and every hazard at its line.

## 2. Modules

| module | models | corresponds to |
|---|---|---|
| `BatchStatus` | the status of a batch as a function of the set of its tasks' statuses | `repository.py` `recompute_execution_batch_counts`; a count is only ever compared with 0 or the total, so a set suffices |
| `BroadcastExecution` | requests, worker, recovery, lane, the recording of results | `service.py`, `repository.py`, `worker.py` |
| `BroadcastHistory` | the same, with a history of the Enter presses beside it | what the rows say against what happened |
| `DraftSending` | what sending a draft promises the operator: abstract, refined by `BroadcastExecution` (`SendingKept`) | `send_status` as the operator sees it |
| `RuntimeTask` | the contract of the desktop runtime, per idempotency key | what its two clients may rely on |
| `RuntimeHost` | the runtime that keeps it | `runtime-host.ts`, `task-locks.ts`, `task-registry.ts`, `send-controller.ts` |
| `DesktopRuns` | runs of one reply draft | `desktop_automation/service.py`, `repository.py`, `runtime_process.py` |
| `PipelineController` | pool, consumer, immediate processing | `controller.py`, `pool.py`, `processing_service.py:234` |
| `MessageAggregator` | the aggregator in front of that dispatch | `aggregator.py` |
| `DraftProcessing` | the drafts of one message | `processing_service.py`, `database_mode/service.py`, the two unique indexes |
| `LiveView` | event bus, streams and pages | `events.py`, `stream_events`, `page.tsx`, `useDatabaseModeEvents.ts` |
| `LocalConnectors` | worker and monitor of a connector | `process_manager.py`, `local_connectors/service.py`, `runtime_bridge.py` |
| `MC…` | small instances | |
| `…_proofs` | theorems about the module named | |
| `SequenceLemmas` | a sequence from which an element is taken | |

**Composition.** `BroadcastExecution` and `DesktopRuns`, the two clients of the runtime, take its
steps from an instance of `RuntimeTask` (`Accept`, `Enter`, `End`, `Restart`), and `RuntimeHost` is
shown to refine that same module (`Contract`). What is proved of the services therefore rests on a
contract, not on a second sketch of the runtime. The contract abstracts lanes and queues: a queued
task is one that has not pressed Enter. `Abandon`, the end of several tasks in a shutdown, is for a
client the same as their ends one by one. `MessageAggregator` extends `PipelineController` and makes
its queries; that their composition implements the dispatch is a theorem (`ChatImplementsDispatch`).
`BroadcastExecution` in its turn is shown to refine `DraftSending`, which knows of a draft only what
it is shown as (`sending` while it is reserved), whether a send of it may still press Enter, and
whether Enter was pressed: batches, tasks, attempts, leases, faults and clears are gone, and each
transaction, call or step of the runtime must be one of the seven steps of a draft's life, or none.
`BroadcastHistory` adds one variable, `pressed`, that no action reads.

**Grain.** Where rows are shared an action is one transaction, one read outside a transaction, or
one call of another process. Operations that check in one statement and write in another are two
actions (`CancelTaskCheck`, `CancelTaskCommit`; `EditRead`, `EditInsert`); conditional updates are
one (`MarkDraft`). Where one event loop owns the state (`RuntimeHost`, `PipelineController`,
`LocalConnectors`, the page) an action is what runs between two suspension points. `pc` names the
step an executor, request or call has reached, further functions what it holds in local variables
across awaits.

Correspondence of the state of `BroadcastExecution`: `status`, `attempts`, `claim` are columns of
`broadcast_execution_tasks`; `rows` and `evid` are the attempts of a task, and what the latest one's
stored result proves of a send: that it was sent, cancelled before Enter or failed before Enter, or
nothing (a result is written to the row of the attempt it belongs to, `Record`, so one that comes
late does not touch a newer attempt's); `bstatus` the batch's status; `sendStatus`, `reserved` columns of the draft; `lane`, `fresh` the lane's owner and
whether its lease is unexpired; `renew` the renewal task of a worker; `todo` the list recovery works
through; `rt` the runtime's registry. `enters` and `stale` are ghosts: Enter presses per draft since
the operator last marked it pending, and tasks that were already on their way then (marking a draft
pending while its send is under way is the operator's decision, and not counted).

In `DraftProcessing` `run` and `draft` are the statuses of the rows a request or an edit has made, a
run is `stale` when it has been open for too long, `found` what a claim has read. In `LiveView` the
database is the number of its changes and a page knows which number it shows; `told` is the number
when the last event was published, or the streams were last ended: what a page can be expected to
reach, as a request may end before its event (`Interrupted`); time on the wire is time in the queue.
In `DesktopRuns` `taskId` is "old" when the runtime that knew the task is gone, `client` the client
object the service keeps. In `LocalConnectors` `record` is `process.<role>.json`, `left` and
`cutOff` are ghosts for what a cancelled call or a crash has left undone (a `start` or `restart` of
the protocol that times out sets `cutOff` too: the client gives up and the call may still take
effect); that `refresh_connector` can save a status it has read before is outside what is modelled.
In `MessageAggregator` a query is named after its first message, `parts` says what it was made of.

**Simplifications, named.**
Transactions are serialisable in `BroadcastExecution` and `DesktopRuns` (the SQLite driver begins a
transaction at the first write, which is weaker; PostgreSQL's default is weaker too);
`DraftProcessing`, where a claim reads and then writes, has its reads as a step of their own, and
lets the unique index decide. A task's id, its batch and its draft are fixed by the instance;
`ReuseIds` says whether deleted ids come back, to the same batch and draft as before (in the code a
new batch, which may be of other drafts, gets them). Batches are claimed in the order of ids
(`created_at` ties are not modelled). A task's claim has a lease of its own in the code that no
statement consults. `runtime_task_id` of a broadcast task is written only with the result, so
neither cancellation nor recovery ever asks the runtime; recovery makes of a send what the row of
its latest attempt proves (`evid`): sent, cancelled before Enter, failed before Enter, or nothing,
and then it is interrupted (`RecoveredAs`). Reading and writing one task in recovery is one action.
After a crash of the worker the runtime can still be reached (in the code it may have been a child
of the process that died). A stale run of `DraftProcessing` is one whose generation is over: that is
so as long as `processing_run_stale_seconds` (300 by default) exceeds
`draft_generation_timeout_seconds` (120); both can be configured, and nothing compares them. The
reconciliation at start is one transaction; the checks of a message's bot and binding are part of
the claim. In `LiveView` the selection of the page is fixed and `realtimeEnabled` is true. In
`LocalConnectors` `restore_configured_connectors` makes the calls the user makes.

## 3. Runs

Deadlock is not checked: requests are bounded, and every one of these systems may rightly come to
rest.

| run | what it checks | instance and bounds |
|---|---|---|
| `send_faults` | `TypeOK`, `ReservationHeld`, `SendReserved`, `InFlightGuarded`, `NoDoubleEnter`, `TrueRecord`, `SendingKept`: whatever fails, a draft is reserved by exactly the active send of it, stays guarded while Enter may still be pressed, Enter is pressed once, what is recorded of a send is true, and the draft's life is that of `DraftSending` | two send batches of one draft, one request at a time (create, cancel, mark), every kind of fault, two of them (`MaxFaults` 2), one attempt each; the history of Enter presses |
| `send_retry` | `FreshKey`, `SentStaysSent`: the key of an attempt is new to the runtime, and what was sent is not sent again, when sends fail and are retried | the same two batches, two requests at once (symmetric), two attempts each, a failing attachment |
| `paste` | `AttemptUnique`, `LeaseExclusive`, `BatchSettled`, `BatchConcluded`: workers and requests do not make one attempt twice or share the lane, and a batch's status follows its tasks | a paste batch of two tasks, two workers, one request at a time with every operation but a retry, a crash, a lost reply or a failing transaction |
| `send_live` | `TaskSettles`, `QueuedRuns`: what runs settles, what is queued is claimed or cancelled | a send batch of two tasks, cancellation, clears after which ids come back, one crash, stop, restart of the runtime or timeout |
| `runtime_host` | `TypeOK`, `LaneExclusive`, `LaneServed`, `FirstCome`, `TaskEnds`, `Contract` | three pastes and a send, cancellation at every step, shutdown, restart |
| `chat` | `SessionSerial`, `NoLostWakeup`, `InOnePlace`, `SessionOrder`, `LockReleased`, `MessagesServed` | two messages that are aggregated (at most two in a buffer), one that is not, two immediate ones with timeouts; two sessions, one pipeline at a time |
| `drafts` | `SingleGenerator`, `ProcessingOwned`, `ActiveIsNewest`, `FailedStaysFailed` | one message that may be deleted and ingested again, two requests in one process and one in another, one edit, two faults (crash, cancellation, lost write) |
| `live_view` | `TypeOK`, `NoSilentLoss`, `CaughtUp`, `StreamsEnd` | one page, queue of two, four changes, two faults (a request that ends before its event, broken connection, failing handshake or load, shutdown, crash) |
| `desktop_runs` | `OneInFlight`, `KeySentOnce`, `OutcomeTrue`: no second send or second task for a draft, and what a run says of its send is true | a send, its repetition with the same key, a send with another key, one cancellation, two faults |
| `connectors` | `OneOfEach`, `RunningIsShown` | one call of each of the six operations, three process ids, one fault |
| `v_cancel_task_race`, `v_pipeline_stuck` | one property each that the code violates, see Findings | two sends of one draft without any fault; one queued and two immediate queries |

Why these bounds are enough to be of interest: two tasks for one draft are the smallest instance in
which a reservation can be stolen or lost; two batches in sequence let an id come back; two attempts
let a key be reused; two faults let a fault hit the handling of a fault (the fallback of a result,
recovery after a crash); two tasks in a batch let one be pending while the other runs; three tasks
in a lane let one in the middle of the queue be cancelled; two requests in one process and one in
another let the lock of a process, and the index alone, decide who generates; four changes overflow
a queue of two while a refresh is in flight; a repeated and a new key are the two ways a second send
can come about; the operations of a connector's two roles meet pairwise in one instance. `Max…` are
the only bounds on behaviours; the code limits none of them but `MAX_BUFFER_MESSAGES` (ten) and
`QueueSize`.

**Fairness.** `send_live` assumes that the worker's loop and its runs go on, that the renewal task
notices a change, that the runtime ends its tasks, that a stopped process is started again
(`WorkerStep` includes `Start`), and that an unrenewed lease expires: each is a loop or a timer in
the code. Requests and faults are never forced. `runtime_host` assumes that calls of the desktop
return. `chat` assumes that timers fire, pipelines end, and callers of `process_query_now` time out
(`asyncio.wait_for`); the asyncio lock is first come, first served, and with finitely many queries
weak fairness of each is enough. `live_view` assumes nothing of requests that have committed, which
need not publish; it assumes that a page's timers fire and its requests end, and that what is
written to a connection arrives or the connection is found broken; nobody has to restart the
backend.

### Findings

Each of these runs violates one property, that states what a comment says.

* `v_cancel_task_race` – `cancel_execution_task` (`service.py:2841`) checks the status outside its
  transaction. If the worker claims the task in between, the cancellation still overwrites the
  status and releases the reservation, the send goes on, a second batch reserves the draft, and
  Enter is pressed twice.
* `v_pipeline_stuck` – `process_query_now` waits for a session while it holds the pool lock that the
  session's release needs (`controller.py:55`, `:43`). Two drafts of one conversation generated at
  once stop all dispatch until a caller times out; and when the timeout cancels the one that waits
  inside `_finish_selected_query`, the semaphore is never released and the session is dead. This is
  why `MessagesServed` is about conversations without immediate messages.

### Divergences seen while modelling, without a run

*Broadcast execution*

* A pause while a task runs is overwritten by the next recompute (`repository.py:1935`, against
  design:518), and the worker claims the next task.
* Recovery by a second process rewrites tasks that the first has settled after the list was read
  (`service.py:3112`, against design:530).
* After a clear, SQLite gives the id of a deleted task to a new one; the runtime still knows the key
  and answers with the old success, so a message is taken as sent that was not (`service.py:3582`,
  against design:369). With `ReuseIds` and `clear` TLC finds `TrueRecord` violated in this way; the
  theorem `RecordsTrue` has exactly this case as its exception.
* A retry checks and commits in two transactions (`service.py:2880`, `:2891`): it revives a task
  that was cancelled in between, or one that succeeded and whose draft was marked pending.
  `_execute_send_task`, too, sets a task running again that was cancelled after it was read
  (`:3550`). design:333 forbids "`cancelled -> running`".
* A retry that commits after its task was cleared reserves the draft for a task that is gone
  (`service.py:2913`; design:351 "No half-commits are allowed."): the assumption of
  `ReservationsHeld`.
* `run_task` executes beside the worker, without the lane (`service.py:2562`; design:508 "global
  concurrency fixed at `1`"), and so does a paste after its task is recorded, in a lane of the
  runtime other than that of sends (`task-registry.ts:31`); the next task may start while the
  runtime still pastes (`:2704`).
* `cancel_execution_task` may overwrite a success (`service.py:2850`; design:524 "succeeded tasks
  remain untouched.").
* A draft marked sent while its task is queued is sent all the same (`service.py:4853`).
* A paste set cancelling between claim and read is settled by nobody until the next start
  (`service.py:2587`), and so is a task whose worker meets an exception between claim and attempt
  (`:3541`).
* `allowed_actions` offers resume for a paused send batch, which the service refuses (`:5837`).
* Draft generation reads the matches and the existing drafts before its transaction
  (`service.py:1480` on) and then clears `drafts_stale`; the plan
  (`src/docs/superpowers/plans/2026-07-03-broadcast-phase3-implementation.md:731`) has one
  transaction. A rematch that commits in between leaves drafts of the old match that are not stale.

*Desktop automation*

* A run can be cancelled before its row knows the task of the runtime, which then goes on
  (`service.py:195`); a backend that starts again fails such runs too. Hence `GivenUp` in
  `OneInFlight`.
* No send is ever confirmed by the default verification, so every one ends `succeeded_with_warning`,
  for which `DRAFT_ALREADY_SENT` is not raised; a new key sends the draft again.
* A row whose runtime could not be reached stays queued and blocks the draft
  (`test_service.py:141` expects it); a timed-out request that records its result late revives a run
  that was cancelled, and a cancellation overwrites a success.
* The client is kept for ever once made (`ensure_runtime_client`), also after its runtime has died.
  `KeySentOnce` depends on that: a new runtime would not know the key of a request that still waits.

*Reply drafts*

* A cancellation, or the deletion of the draft, after the result was committed marks the succeeded
  run and the message failed (`processing_service.py:316`, `:325`) while the draft stays active.
* A cancellation during the commit of the claim leaves the run open until it is stale (`:587`).
* `process_message` and `skip_message` are overwritten by a generation that ends later;
  `delete_draft` without an id leaves the active draft; editing a superseded draft sets
  `draft_ready`; a message that gets the id of a deleted one (SQLite) shows the old draft.

*The page*

* The event of a change is published by the request that committed it, and by nobody else. A request
  that is cancelled after its commit, or whose messages are gone when `batch_process` or `batch_skip`
  reads them for its answer (`service.py:703`, `:719`), publishes nothing: a connected page shows the
  old data, without an error and without polling, until the next event, a reconnect or a reload.
  `NoSilentLoss` and `CaughtUp` are therefore about `told` and not about `version`, of which they do
  not hold.
* A refresh that fails forgets the refreshes requested meanwhile (`page.tsx:339`); the error stays
  until a manual reload, which is why `CaughtUp` admits it. A connection that is silently dead is
  not noticed; the answer for an earlier selection may overwrite that of the present one (`:232`).

*Aggregator and dispatch*

* `flush_all` has no caller (its docstring, `aggregator.py:301`, says shutdown calls it); messages
  routed to different pipelines are merged under the first one's.
* A query without a pipeline is dropped and stays in `cached_queries` (`controller.py:34`; only
  `pipelinemgr.py:480` deletes; `pool.py:23` "will be removed after the query completely processed").
  An exception in the consumer's loop ends it for good (`controller.py:104`).

*Local connectors*

* A process whose request is cancelled, or whose backend ends, before it is recorded lives on: the
  next worker finds its port in use, the next monitor runs beside it. Hence `left` in `OneOfEach`.
* A `stop_monitor` during `_wait_for_monitor_ready` is undone by `monitor_enabled` being set
  afterwards, and the connector shows "starting" without a process. `RunningIsShown` is the other
  direction.
* A setup job left running by a crash is returned by every later setup (`service.py:399`), and two
  requests before the first job runs make two.

## 4. Proofs

TLAPS checks, for every value of the constants (any number of drafts, batches, tasks, workers,
requests, attempts, faults, runtime tasks, queries, sessions, conversations, pages, processes and
calls):

| module | theorem | statement | needs |
|---|---|---|---|
| `BroadcastExecution_proofs` | `TypeCorrect` | `Spec => []TypeOK` | |
| | `LaneHasOneOwner` | `Spec => []LeaseExclusive` | |
| | `SettledBatchesSettled` | `Spec => []BatchSettled` | |
| | `BatchesConclude` | `Spec => []BatchConcluded` | |
| | `ReservationsHeld` | `Spec => []ReservationHeld` | not both `retry` and `clear` |
| | `KeysLast` | `Spec => [](Unseen /\ Distinct)` | `Lasting` |
| | `AttemptsUnique` | `Spec => []AttemptUnique` | no `clear` |
| | `KeysFresh` | `Spec => []FreshKey` | no `clear` |
| | `SendsReserved` | `Spec => []SendReserved` | `Solo` |
| | `InFlightSendsGuarded` | `Spec => []InFlightGuarded` | `Solo` |
| | `NeverEnteredTwice` | `Spec => []NoDoubleEnter` | `Solo` |
| | `SentMessagesStaySent` | `Spec => SentStaysSent` | `Solo` |
| | `SendingImplemented` | `Spec => SendingKept` | `Solo` |
| | `RecordsTrue` | `HSpec => []TrueRecord` | `Lasting` |
| `RuntimeHost_proofs` | `TypeCorrect` | `Spec => []TypeOK` | |
| | `LanesAreExclusive` | `Spec => []LaneExclusive` | |
| | `LanesAreServed` | `Spec => []LaneServed` | |
| | `FirstComeFirstServed` | `Spec => []FirstCome` | |
| | `ShutdownStartsNothing` | `Spec => NoStartInShutdown` | |
| | `HostKeepsContract` | `Spec => Contract` | |
| `PipelineController_proofs` | `TypeCorrect` | `Spec => []TypeOK` | |
| | `SessionsStaySerial` | `Spec => []SessionSerial` | |
| | `NoWakeupIsLost` | `Spec => []NoLostWakeup` | |
| | `SessionsKeepOrder` | `Spec => SessionOrder` | |
| | `ChatImplementsDispatch` | `ChatSpec => Spec` | |
| | `ChatTypeCorrect` | `ChatSpec => []ChatTypeOK` | |
| | `NoMessageTwice` | `ChatSpec => []InOnePlace` | |
| | `NothingWaitsForEver` | `ChatSpec => []FlushScheduled` | |
| `DraftProcessing_proofs` | `TypeCorrect` | `Spec => []TypeOK` | |
| | `GeneratesOnce` | `Spec => []SingleGenerator` | |
| | `FailureIsFinal` | `Spec => FailedStaysFailed` | |
| | `NeverOrphaned` | `Spec => []ProcessingOwned` | |
| | `OneActiveDraft` | `Spec => []ActiveIsNewest` | |
| `LiveView_proofs` | `TypeCorrect` | `Spec => []TypeOK` | |
| | `NoChangeIsLost` | `Spec => []NoSilentLoss` | |
| `DesktopRuns_proofs` | `TypeCorrect` | `Spec => []TypeOK` | |
| | `TasksAreTracked` | `Spec => []Tracked` | |
| | `OneTaskInFlight` | `Spec => []OneInFlight` | |
| | `SentOncePerKey` | `Spec => []KeySentOnce` | |
| | `OutcomesAreTrue` | `Spec => []OutcomeTrue` | |
| `LocalConnectors_proofs` | `TypeCorrect` | `Spec => []TypeOK` | |
| | `OneProcessPerRole` | `Spec => []OneOfEach` | |
| | `ShownInTheEnd` | `Spec => []RunningIsShown` | |

The assumptions are not for convenience. With `retry` and `clear` together the half-committed retry
above breaks `ReservationHeld`. `Lasting` says that the ids of cleared batches do not come back
(PostgreSQL) or that none is cleared: keys are made of ids, and the runtime answers a known key
with its old result. A clear also deletes rows under an executor that has them in hand, which is
why `FreshKey` and `AttemptUnique`, which speak of every executor, need that there is none;
`KeysLast` says the same of tasks that are still there, and lets batches be cleared. `Solo` is one
worker process and no request that cancels a single task: `v_cancel_task_race` shows what the latter
does, and a second process that recovers frees drafts whose sends are under way. Under `Solo`
batches may be cleared, retried and created again with the ids of deleted ones.

*Broadcast: types, lane, batches.* `TypeOK` is not inductive: an action uses `job[e]` as a task,
which holds only at some steps. `Typed` adds `InHand`: at each step an executor holds the task,
attempt number or batch that the step needs. `LeaseExclusive` is inductive with it: every action
that changes the lane belongs to its holder or needs an expired lease. `BatchSettled` and
`BatchConcluded` hold because each write of a task's status is followed by a recompute in the same
transaction, except where the batch is set to an active status; `Consistent` and `Concluded` state
them for a pair of functions, and lemmas about `DerivedStatus` say that a settled status is only
derived from settled tasks and an active one from an active task. `Peopled`: a batch that exists has
tasks.

*Broadcast: reservations and keys.* For `ReservationHeld` the invariant (`RInv`) adds `Hands`:
whoever is about to settle, retry or run a send holds a task whose reservation it will release or
keep. For attempts and keys (`AInv`), `Tried` says that an executor past its attempt has its row in
the table, and `Known` that a key the runtime knows has a row too; the uniqueness of rows gives the
theorems. Both are about tasks that are not deleted (`Alive`): a task that is deleted stays so
(`Lasts`) and its batch with it (`DeletedPaired`), so that no new batch brings its keys back. The
contract of the runtime is used through its actions: a key the runtime has not seen stays unseen
until `Accept`, and `End` changes a task in progress only.

*Broadcast: a message is sent once.* A draft is *hot* while the runtime may press Enter for it, or
has pressed it since the draft was last marked pending. The invariant `Safe` has four parts.
`Discipline`: every active send holds the reservation of its draft, only the worker works on sends,
and the send it works on, or recovery has still to settle, stays open. `Guard`: a hot draft is not
pending, or is reserved by a task that is past its call and has no proof on record that Enter was
not pressed. `Told`: a worker past its call has not been told, and will not be, that Enter was not
pressed when it was; this is where the contract's `Ends` is needed. `Alone`: a draft has one live
send at most, and none once Enter was pressed. A send can only be accepted by the runtime for a task
that is not past its call, hence, by `Guard`, for a draft that is not hot; so `Enter` finds a count
of zero. Each step of the worker, of recovery and of each request keeps `Safe`; what a failed
transaction, a crash or a timeout leaves is an open task without proof or a draft of unknown
outcome, which is what `Guard` asks.

*Broadcast: the life of a draft.* `SendingImplemented` rests on `Safe` before and after a step. A
step that leaves the runtime alone can only reserve a draft that nobody has, write its mark with the
reservation in hand, or release it (`Booked`, one lemma per kind of handler); by `Guard` such a step
is `Reserve`, `Conclude` or a stutter of `DraftSending` (`BookedSends`). The call is its `Call`, as
the worker's draft is reserved and not hot before it (`CallSends`); `Enter` is its `Press`, as the
send is the only live one and finds no Enter counted (`Alone`); other ends and a restart of the
runtime are its `Lapse`, and the operator's marks its `Confirm` and `Reopen`.

*Broadcast: what is recorded is true.* `TrueRecord` compares rows with the history of presses, and
needs neither one worker nor the reservations: it follows the proof from the runtime's task
(`RuntimeTells`) to the result in an executor's hand (`Results`) to the row (`Proofs`, `Successes`).
Three things could break the chain, and the invariant `Truth` rules them out: a key used twice, which
`Keyed` excludes under `Lasting` (`NewKeys`); a result of an older attempt written over a newer one's
proof, which the row of the attempt excludes; and a runtime task that ends "failed" after Enter,
which the contract's `Ends` excludes. Each step moves a key, a hand, a row or a status in one of few
ways (`KeyMoves`, `HandMoves`, `RowMoves`, `StatusMoves`), and `TruthKept` is proved from those.

*The runtime host.* That a lane is exclusive follows only if what is at the head of its queue is a
task of that lane which has not begun. The invariant says that the three places that know of a task
agree: the registry's status with the runner's phase (`Agree`), the status with the queues
(`Queues`, `OnePlace`), and the occupant of a lane with the runner (`Occupied`). With it each step is
one of the contract: a task that is created is accepted, a cancellation ends one that waits or is
not seen, `Enter` is `Enter`, an end is an end that the contract allows before or after `Enter`, a
shutdown is `Abandon`. As the two clients take their runtime steps from the same `RuntimeTask`,
their theorems hold together with any host that this theorem is about. `FirstCome` follows from
`Arrivals` and `WaitInOrder`: a queue is a subsequence of the order of arrival.

*The chat.* `SessionSerial` is not inductive; `Budget` is: the free permits of a session and
its queries in flight are together at most its limit. Not exactly the limit, because a caller that
gives up in `_finish_selected_query` takes a permit with it (the finding `v_pipeline_stuck`). Order
needs `Pooled`: a query is in the pool once. In front of it, a timer is set exactly while a buffer
holds messages (`Timers`), a buffer holds messages of its own conversation (`OwnSession`), and a
message is in one query (`OneHolder`) or a buffer (`NotBoth`); a flush is then the arrival of a query
that was not made before, which is what `ChatImplementsDispatch` rests on.

*Reply drafts.* The invariant ties each run to the step of its request (`RunOfStep`), says that one
run is open (`OneOpen`, the index), and that what a claim is going to give up is over, although it
was read before (`FoundOver`).

*The page.* `NoSilentLoss` is nearly inductive by itself: its `Coming` names every place a change can
be on its way. It needs `Forward` (a page shows what it has loaded, and has loaded what was
committed), `Committed` (what the pages were told of was committed, so that a load that begins
brings it) and `Unserved` (a backend that is down serves no stream). No step that only commits or
is interrupted changes `told`; an event that is published reaches every page that has a stream.

*Desktop runs.* `RowOf` and `About` tie actors to rows, `ClientInv` who can talk to a runtime,
`Seen` what an actor was told to what the runtime knows; `Tracked` and the unique index then give
`OneInFlight`. For `KeySentOnce`, `Recorded` says that a key the runtime has seen has a row, and
`Fresh` and `Unseen` that a request which found no row reaches a runtime that still knows what was
entered for its key. For `OutcomeTrue`, `TaskTells` relates the ends of tasks to Enter presses,
`Told` and `Written` carry them to what an actor holds in hand and to the row, and `NeverSent` says
why a send that failed stays unsent: no request with its key is on its way to a runtime that would
take it. Its second half is about runtimes without a verifier (`PostSendVerify` FALSE), which the
run does not instantiate: with a verifier, a message that was sent may be reported as refused.

*Local connectors.* `Locked`, `NoRecord` and `Known`: whoever starts a process holds the lock of the
role, the old record is gone by then, and each process is recorded or being started, or was cut off
(`LeftLive`). `MonitorShown` and `WorkerShown` name the call that has still to write the status.

*Only model-checked:* liveness (`TaskSettles`, `QueuedRuns`, `TaskEnds`, `LockReleased`,
`MessagesServed`, `CaughtUp`, `StreamsEnd`; out of the prover's reach). *Only proved:*
`NoStartInShutdown`, `Tracked`, `FlushScheduled`, and the type invariants of the chat, of
`DraftProcessing`, `DesktopRuns` and `LocalConnectors`; that the sends of `send_faults` stay safe
when batches are cleared, and `TrueRecord` and `SendingKept` with retries, several requests and, the
former, several workers.

## 5. Plan

Done: the modules above. What would come next, in this order:

1. `ImportDrafts`: imports, their rematch, and the generation of their drafts (`B service.py`
   1350–1800, 2137–2195): reads outside the transaction against a rematch; one draft per group; a
   confirmed draft agrees with the match it was made from unless it is marked stale.
2. The setup jobs of the local connectors, composed with `LocalConnectors`.
3. `WorkerLifecycle`: the locks of start and stop of the broadcast worker in one process.
4. `SendOutcome`: the classification of the runtime's answer (`_extract_send_terminal_result`) as a
   pure operator against a reference table.

## 6. Not modelled

Contents of messages and drafts, request validation, permissions, serialisation, Win32 calls, HTTP
transport beyond "answered, failed, or answered and lost", the database engine, language models,
plugins, the sandbox box, the monitoring tables, the other pages of the web interface, packaging and
vendored code. By lines this is most of the repository: it is a fork of LangBot, and the larger part
of its 87 000 lines are adapters, model clients, forms and I/O that call one thing after another.
`PROJECT.json` gives the reason for each component.
