------------------------------ MODULE LiveView ------------------------------
(***************************************************************************)
(* How the page of the database mode follows the database: changes are     *)
(* committed, then published on the event bus, queued for each subscriber, *)
(* streamed to its page, and the page loads the data again.  Nobody is     *)
(* told of a change whose request is interrupted between commit and        *)
(* publish: told is the version the pages can be expected to reach.        *)
(*                                                                         *)
(* The database is a counter of its changes, a page knows which value it   *)
(* shows.  The time an event spends on the wire counts as time in the      *)
(* queue of its subscriber; the items of a queue are told apart only by    *)
(* what the bus looks for in it.                                           *)
(***************************************************************************)
EXTENDS Naturals, Sequences

CONSTANTS
  Pages,
  QueueSize,   \* queue_maxsize of the event bus
  MaxChanges,
  MaxFaults

ASSUME QueueAssumption == QueueSize \in Nat \ {0}
ASSUME BoundAssumption == MaxChanges \in Nat /\ MaxFaults \in Nat

VARIABLES
  server,       \* up, closing (the bus is closed), down
  version,      \* changes committed
  unpublished,  \* changes committed whose request has still to publish its event
  told,         \* the version when the pages were last told: by an event, or by the end of the streams
  stream,       \* page -> whether its event stream is served
  queue,        \* page -> queue of its subscriber
  connection,   \* page -> state of its connection
  timer,        \* page -> a refresh is scheduled
  refresh,      \* page -> the refresh in flight: no, loading, loaded (the answer is on its way)
  rerun,        \* page -> rerunRequested
  loaded,       \* page -> the version in the answer
  shown,        \* page -> the version it shows
  error,        \* page -> it shows an error
  faults

database == <<version, unpublished, told>>
backend == <<server, database, faults>>
bus == <<stream, queue>>
view == <<timer, refresh, rerun, loaded, shown, error>>
vars == <<server, version, unpublished, told, stream, queue, connection, timer, refresh, rerun,
          loaded, shown, error, faults>>

Items == {"event", "invalidated", "end"}

TypeOK ==
  /\ server \in {"up", "closing", "down"}
  /\ version \in 0 .. MaxChanges /\ unpublished \in 0 .. MaxChanges /\ told \in 0 .. MaxChanges
  /\ stream \in [Pages -> BOOLEAN]
  /\ queue \in [Pages -> Seq(Items)]
  /\ \A c \in Pages : Len(queue[c]) <= QueueSize
  /\ connection \in [Pages -> {"handshaking", "connecting", "connected", "retrying"}]
  /\ timer \in [Pages -> BOOLEAN] /\ rerun \in [Pages -> BOOLEAN] /\ error \in [Pages -> BOOLEAN]
  /\ refresh \in [Pages -> {"no", "loading", "loaded"}]
  /\ loaded \in [Pages -> 0 .. MaxChanges] /\ shown \in [Pages -> 0 .. MaxChanges]
  /\ faults \in 0 .. MaxFaults

Init ==
  /\ server = "up" /\ version = 0 /\ unpublished = 0 /\ told = 0 /\ faults = 0
  /\ stream = [c \in Pages |-> FALSE] /\ queue = [c \in Pages |-> <<>>]
  /\ connection = [c \in Pages |-> "handshaking"]
  /\ timer = [c \in Pages |-> FALSE] /\ refresh = [c \in Pages |-> "no"]
  /\ rerun = [c \in Pages |-> FALSE] /\ error = [c \in Pages |-> FALSE]
  /\ loaded = [c \in Pages |-> 0] /\ shown = [c \in Pages |-> 0]

Fault == faults < MaxFaults /\ faults' = faults + 1

-----------------------------------------------------------------------------
(* Backend *)

\* A transaction of the service ends; publishing its event is the tail of the
\* same request.
Commit ==
  /\ server # "down" /\ version < MaxChanges
  /\ version' = version + 1 /\ unpublished' = unpublished + 1
  /\ UNCHANGED <<server, told, bus, connection, view, faults>>

Queued(c, item) == \E i \in 1 .. Len(queue[c]) : queue[c][i] = item

Full(c) == Len(queue[c]) = QueueSize

\* Mutant: the events that do not fit are dropped, and no marker is left.
Drained(c) == <<>>

\* Mutant: the marker goes into the full queue.
MarkedOnly(c) == Append(queue[c], "invalidated")

\* What the queue holds instead of the events that do not fit.
Overflowed(c) == <<"invalidated">>

\* _publish_to_subscriber.
AfterPublish(c, item) ==
  IF ~stream[c] \/ Queued(c, "end") \/ Queued(c, "invalidated") THEN queue[c]
  ELSE IF Full(c) THEN Overflowed(c)
  ELSE Append(queue[c], item)

\* A change of one message, or one of many (batch_*), which invalidates all.
Publish ==
  /\ server # "down" /\ unpublished > 0
  /\ unpublished' = unpublished - 1
  /\ told' = IF server = "up" THEN version ELSE told
  /\ \E item \in {"event", "invalidated"} :
       queue' = IF server = "up" THEN [c \in Pages |-> AfterPublish(c, item)] ELSE queue
  /\ UNCHANGED <<server, version, stream, connection, view, faults>>

\* The request ends between its commit and its publish: its client has gone, or
\* the messages it reads for its answer (batch_*) are gone.
Interrupted ==
  /\ Fault /\ server # "down" /\ unpublished > 0
  /\ unpublished' = unpublished - 1
  /\ UNCHANGED <<server, version, told, bus, connection, view>>

\* Mutant: a full queue is left alone.
EndIfRoom(c) == IF Full(c) THEN queue[c] ELSE Append(queue[c], "end")

\* The end goes into a full queue in place of its oldest event.
AfterClose(c) ==
  IF Full(c) THEN Append(Tail(queue[c]), "end") ELSE Append(queue[c], "end")

\* The application is disposed of: close of the event bus.
Close ==
  /\ Fault /\ server = "up"
  /\ server' = "closing" /\ told' = version
  /\ queue' = [c \in Pages |-> IF stream[c] THEN AfterClose(c) ELSE queue[c]]
  /\ UNCHANGED <<version, unpublished, stream, connection, view>>

\* The process is gone, with its subscribers and what was not published.
Down ==
  /\ server' = "down" /\ unpublished' = 0 /\ told' = version
  /\ stream' = [c \in Pages |-> FALSE] /\ queue' = [c \in Pages |-> <<>>]
  /\ UNCHANGED <<version, connection, view>>

Exit == server = "closing" /\ Down /\ UNCHANGED faults

Crash == Fault /\ server = "up" /\ Down

Restart ==
  /\ server = "down"
  /\ server' = "up"
  /\ UNCHANGED <<database, bus, connection, view, faults>>

-----------------------------------------------------------------------------
(* Page: loading *)

ScheduleRefresh(c) ==
  IF refresh[c] # "no"
    THEN rerun' = [rerun EXCEPT ![c] = TRUE] /\ UNCHANGED timer
    ELSE timer' = [timer EXCEPT ![c] = TRUE] /\ UNCHANGED rerun

\* runRefresh, once around its loop.
Load(c) ==
  /\ refresh' = [refresh EXCEPT ![c] = "loading"]
  /\ rerun' = [rerun EXCEPT ![c] = FALSE]

TimerFires(c) ==
  /\ timer[c]
  /\ timer' = [timer EXCEPT ![c] = FALSE]
  /\ Load(c)
  /\ UNCHANGED <<backend, bus, connection, loaded, shown, error>>

\* The backend reads what it answers.
Answer(c) ==
  /\ refresh[c] = "loading" /\ server # "down"
  /\ refresh' = [refresh EXCEPT ![c] = "loaded"]
  /\ loaded' = [loaded EXCEPT ![c] = version]
  /\ UNCHANGED <<backend, bus, connection, timer, rerun, shown, error>>

\* Mutant: a request made during the refresh is forgotten.
NeverAgain(c) == FALSE

Again(c) == rerun[c]

Show(c) ==
  /\ refresh[c] = "loaded"
  /\ shown' = [shown EXCEPT ![c] = loaded[c]]
  /\ IF Again(c)
       THEN Load(c)
       ELSE refresh' = [refresh EXCEPT ![c] = "no"] /\ UNCHANGED rerun
  /\ UNCHANGED <<backend, bus, connection, timer, loaded, error>>

\* An exception ends the loop, whatever was requested meanwhile.
Failed(c) ==
  /\ refresh[c] # "no"
  /\ refresh' = [refresh EXCEPT ![c] = "no"]
  /\ error' = [error EXCEPT ![c] = TRUE]
  /\ UNCHANGED <<bus, connection, timer, rerun, loaded, shown>>

LoadRefused(c) == refresh[c] = "loading" /\ server # "up" /\ Failed(c) /\ UNCHANGED backend

LoadFails(c) == Fault /\ Failed(c) /\ UNCHANGED <<server, database>>

-----------------------------------------------------------------------------
(* Page: connection *)

Attached(c) ==
  /\ stream' = [stream EXCEPT ![c] = TRUE]
  /\ queue' = [queue EXCEPT ![c] = IF server = "closing" THEN <<"end">> ELSE <<>>]

\* The session cookie and the event source are there; the bus has a subscriber.
Connect(c) ==
  /\ connection[c] = "handshaking" /\ server # "down"
  /\ connection' = [connection EXCEPT ![c] = "connecting"]
  /\ Attached(c)
  /\ UNCHANGED <<backend, view>>

CatchUp(c) == ScheduleRefresh(c)

\* The READY event, which is written before the queue is read.
Ready(c) ==
  /\ connection[c] = "connecting" /\ stream[c]
  /\ connection' = [connection EXCEPT ![c] = "connected"]
  /\ CatchUp(c)
  /\ UNCHANGED <<backend, bus, refresh, loaded, shown, error>>

\* An event reaches the page.
Deliver(c) ==
  /\ connection[c] = "connected" /\ queue[c] # <<>> /\ Head(queue[c]) # "end"
  /\ queue' = [queue EXCEPT ![c] = Tail(@)]
  /\ ScheduleRefresh(c)
  /\ UNCHANGED <<backend, stream, connection, refresh, loaded, shown, error>>

Detached(c) ==
  /\ stream' = [stream EXCEPT ![c] = FALSE]
  /\ queue' = [queue EXCEPT ![c] = <<>>]

EndStream(c) ==
  /\ connection[c] = "connected" /\ queue[c] # <<>> /\ Head(queue[c]) = "end"
  /\ Detached(c)
  /\ UNCHANGED <<backend, connection, view>>

\* The connection breaks, or does not open in time.
Break(c) ==
  /\ Fault /\ stream[c]
  /\ Detached(c)
  /\ UNCHANGED <<server, database, connection, view>>

\* scheduleReconnect: the page falls back to polling, at once and with a timer.
Disconnected(c) ==
  /\ connection[c] \in {"connecting", "connected"} /\ ~stream[c]
  /\ connection' = [connection EXCEPT ![c] = "retrying"]
  /\ ScheduleRefresh(c)
  /\ UNCHANGED <<backend, bus, refresh, loaded, shown, error>>

\* The session request fails or takes too long.
HandshakeFails(c) ==
  /\ connection[c] = "handshaking"
  /\ (server = "down" /\ UNCHANGED faults) \/ Fault
  /\ connection' = [connection EXCEPT ![c] = "retrying"]
  /\ ScheduleRefresh(c)
  /\ UNCHANGED <<server, database, bus, refresh, loaded, shown, error>>

Poll(c) ==
  /\ connection[c] = "retrying"
  /\ ScheduleRefresh(c)
  /\ UNCHANGED <<backend, bus, connection, refresh, loaded, shown, error>>

Retry(c) ==
  /\ connection[c] = "retrying"
  /\ connection' = [connection EXCEPT ![c] = "handshaking"]
  /\ UNCHANGED <<backend, bus, view>>

-----------------------------------------------------------------------------
Backend == Commit \/ Publish \/ Interrupted \/ Close \/ Exit \/ Crash \/ Restart

Loading(c) == TimerFires(c) \/ Answer(c) \/ Show(c) \/ LoadRefused(c)

Connection(c) ==
  \/ Connect(c) \/ Ready(c) \/ Deliver(c) \/ EndStream(c)
  \/ Disconnected(c) \/ HandshakeFails(c) \/ Retry(c)

Page(c) == Loading(c) \/ Connection(c) \/ LoadFails(c) \/ Break(c) \/ Poll(c)

Next == Backend \/ \E c \in Pages : Page(c)

Spec == Init /\ [][Next]_vars

\* The timers of a page fire, its requests end and what is written to its
\* connection arrives.  Nothing is asked of the backend: it need not publish
\* what it committed, end or be restarted.
Fairness == \A c \in Pages : WF_vars(Loading(c)) /\ WF_vars(Connection(c))

FairSpec == Spec /\ Fairness

-----------------------------------------------------------------------------
(* Properties *)

Watching(c) == server = "up" /\ stream[c] /\ connection[c] = "connected"

\* Something that needs no further change will make the page load what the
\* pages were told of.
Coming(c) ==
  \/ queue[c] # <<>> \/ timer[c]
  \/ refresh[c] = "loading"
  \/ refresh[c] = "loaded" /\ (rerun[c] \/ loaded[c] >= told)

\* A page that is connected shows every change committed before the last event
\* was published or the streams were last ended, or is about to load it, or
\* shows an error: no event falls between the bus, an overflowing queue, a
\* reconnection and a refresh in flight.  A change whose request was
\* interrupted before it published is covered from the next event on.
NoSilentLoss ==
  \A c \in Pages : Watching(c) => shown[c] >= told \/ error[c] \/ Coming(c)

\* What the pages were told of every page shows in the end, or an error,
\* whether its connection lasts, breaks or the backend goes away.
CaughtUp ==
  \A c \in Pages, v \in 1 .. MaxChanges : (told >= v) ~> (shown[c] >= v \/ error[c])

\* After the bus was closed every stream ends, however full its queue was.
StreamsEnd ==
  \A c \in Pages : (server = "closing" /\ stream[c]) ~> ~stream[c]
=============================================================================
