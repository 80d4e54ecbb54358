--------------------------- MODULE LiveView_proofs ---------------------------
(***************************************************************************)
(* Proofs about the live view, for any number of pages and changes and any *)
(* size of the queues.                                                     *)
(*                                                                         *)
(* NoSilentLoss needs to know that a page never goes back: what it loads   *)
(* is not older than what it shows (Forward), or a late answer could hide  *)
(* a change for which nothing is on its way any more.  And what the pages  *)
(* are told of was committed before (Committed), so a load that starts     *)
(* afterwards answers with it.                                             *)
(***************************************************************************)
EXTENDS LiveView, TLAPS

\* A change is committed before it waits to be published, and before the pages
\* are told of it.
Committed == unpublished <= version /\ told <= version

\* A backend that is gone serves no page.
Unserved == server = "down" => \A c \in Pages : ~stream[c]

Forward == \A c \in Pages : shown[c] <= loaded[c] /\ loaded[c] <= version

IInv == TypeOK /\ Committed /\ Unserved /\ Forward /\ NoSilentLoss

-----------------------------------------------------------------------------
(* Types *)

LEMMA InitType == Init => TypeOK
<1>. SUFFICES ASSUME Init PROVE TypeOK
  OBVIOUS
<1>1. stream \in [Pages -> BOOLEAN] /\ timer \in [Pages -> BOOLEAN] /\ rerun \in [Pages -> BOOLEAN]
      /\ error \in [Pages -> BOOLEAN]
  BY DEF Init
<1>2. queue \in [Pages -> Seq(Items)] /\ \A c \in Pages : Len(queue[c]) <= QueueSize
  BY QueueAssumption DEF Init
<1>. QED
  BY <1>1, <1>2, BoundAssumption DEF Init, TypeOK

\* The queue of a subscriber fits, whatever is published or closed.
LEMMA QueueType ==
  ASSUME TypeOK, NEW c \in Pages, NEW item \in Items
  PROVE  /\ AfterPublish(c, item) \in Seq(Items) /\ Len(AfterPublish(c, item)) <= QueueSize
         /\ AfterClose(c) \in Seq(Items) /\ Len(AfterClose(c)) <= QueueSize
<1>1. queue[c] \in Seq(Items) /\ Len(queue[c]) <= QueueSize /\ QueueSize \in Nat \ {0}
  BY QueueAssumption DEF TypeOK
<1>2. Overflowed(c) \in Seq(Items) /\ Len(Overflowed(c)) = 1
  BY DEF Overflowed, Items
<1>3. ~Full(c) => Len(queue[c]) < QueueSize
  BY <1>1 DEF Full
<1>4. ASSUME NEW x \in Items, ~Full(c)
      PROVE  Append(queue[c], x) \in Seq(Items) /\ Len(Append(queue[c], x)) <= QueueSize
  BY <1>1, <1>3, <1>4
<1>5. ASSUME Full(c)
      PROVE  Append(Tail(queue[c]), "end") \in Seq(Items) /\ Len(Append(Tail(queue[c]), "end")) <= QueueSize
  <2>1. queue[c] # <<>>
    BY <1>1, <1>5 DEF Full
  <2>2. Tail(queue[c]) \in Seq(Items) /\ Len(Tail(queue[c])) = Len(queue[c]) - 1
    BY <1>1, <2>1
  <2>. QED
    BY <1>1, <2>2 DEF Items
<1>. QED
  BY <1>1, <1>2, <1>4, <1>5 DEF AfterPublish, AfterClose, Items

\* A queue that is empty or holds one item fits.
LEMMA ShortQueues ==
  /\ <<>> \in Seq(Items) /\ Len(<<>>) <= QueueSize
  /\ \A x \in Items : <<x>> \in Seq(Items) /\ Len(<<x>>) <= QueueSize
BY QueueAssumption

LEMMA NextType == TypeOK /\ Committed /\ [Next]_vars => TypeOK'
<1> SUFFICES ASSUME TypeOK, Committed, [Next]_vars PROVE TypeOK'
  OBVIOUS
<1> USE BoundAssumption, QueueAssumption
<1>1. CASE Commit
  BY <1>1 DEF TypeOK, Committed, Commit, bus, view
<1>2. CASE Publish
  <2>1. PICK item \in Items :
          queue' = IF server = "up" THEN [c \in Pages |-> AfterPublish(c, item)] ELSE queue
    BY <1>2 DEF Publish, Items
  <2>2. queue' \in [Pages -> Seq(Items)] /\ \A c \in Pages : Len(queue'[c]) <= QueueSize
    BY <2>1, QueueType DEF TypeOK
  <2>. QED
    BY <1>2, <2>2 DEF TypeOK, Publish, view
<1>3. CASE Close
  <2>1. queue' \in [Pages -> Seq(Items)] /\ \A c \in Pages : Len(queue'[c]) <= QueueSize
    BY <1>3, QueueType DEF TypeOK, Close, Items
  <2>. QED
    BY <1>3, <2>1 DEF TypeOK, Close, Fault, view
<1>4. CASE Exit \/ Crash
  <2>1. queue' \in [Pages -> Seq(Items)] /\ \A c \in Pages : Len(queue'[c]) <= QueueSize
    <3>1. queue' = [c \in Pages |-> <<>>] /\ Len(<<>>) = 0
      BY <1>4 DEF Exit, Crash, Down
    <3>. QED
      BY <3>1, ShortQueues
  <2>2. stream' \in [Pages -> BOOLEAN]
    BY <1>4 DEF Exit, Crash, Down
  <2>. QED
    BY <1>4, <2>1, <2>2 DEF TypeOK, Exit, Crash, Down, Fault, view
<1>5. CASE Restart
  BY <1>5 DEF TypeOK, Restart, database, bus, view
<1>6. ASSUME NEW c \in Pages PROVE ScheduleRefresh(c) => timer' \in [Pages -> BOOLEAN] /\ rerun' \in [Pages -> BOOLEAN]
  BY DEF TypeOK, ScheduleRefresh
<1>7. ASSUME NEW c \in Pages, TimerFires(c) \/ Answer(c) PROVE TypeOK'
  BY <1>7 DEF TypeOK, TimerFires, Load, Answer, backend, database, bus
<1>8. ASSUME NEW c \in Pages, Show(c) PROVE TypeOK'
  BY <1>8 DEF TypeOK, Show, Load, backend, database, bus
<1>9. ASSUME NEW c \in Pages, LoadRefused(c) \/ LoadFails(c) PROVE TypeOK'
  <2>1. error' \in [Pages -> BOOLEAN]
    BY <1>9 DEF TypeOK, LoadRefused, LoadFails, Failed
  <2>2. refresh' \in [Pages -> {"no", "loading", "loaded"}]
    BY <1>9 DEF TypeOK, LoadRefused, LoadFails, Failed
  <2>4. faults' \in 0 .. MaxFaults
    BY <1>9 DEF TypeOK, LoadRefused, LoadFails, Fault, backend
  <2>3. UNCHANGED <<server, version, unpublished, told, bus, connection, timer, rerun, loaded, shown>>
    BY <1>9 DEF LoadRefused, LoadFails, Failed, backend, database
  <2>. QED
    BY <2>1, <2>2, <2>3, <2>4 DEF TypeOK, bus
<1>10. ASSUME NEW c \in Pages, Connect(c) PROVE TypeOK'
  <2>1. queue' \in [Pages -> Seq(Items)] /\ \A d \in Pages : Len(queue'[d]) <= QueueSize
    <3>1. PICK q \in {<<"end">>, <<>>} : queue' = [queue EXCEPT ![c] = q]
      BY <1>10 DEF Connect, Attached
    <3>2. q \in Seq(Items) /\ Len(q) <= QueueSize
      BY ShortQueues DEF Items
    <3>. QED
      BY <3>1, <3>2 DEF TypeOK
  <2>2. stream' \in [Pages -> BOOLEAN]
    BY <1>10 DEF TypeOK, Connect, Attached
  <2>. QED
    BY <1>10, <2>1, <2>2 DEF TypeOK, Connect, backend, database, view
<1>11. ASSUME NEW c \in Pages, Ready(c) \/ Disconnected(c) \/ HandshakeFails(c) \/ Poll(c) PROVE TypeOK'
  <2>1. timer' \in [Pages -> BOOLEAN] /\ rerun' \in [Pages -> BOOLEAN]
    BY <1>6, <1>11 DEF Ready, CatchUp, Disconnected, HandshakeFails, Poll
  <2>2. faults' \in 0 .. MaxFaults
    BY <1>11 DEF TypeOK, Ready, Disconnected, HandshakeFails, Poll, Fault, backend
  <2>3. /\ UNCHANGED <<server, database, bus, refresh, loaded, shown, error>>
        /\ connection' \in [Pages -> {"handshaking", "connecting", "connected", "retrying"}]
    BY <1>11 DEF TypeOK, Ready, Disconnected, HandshakeFails, Poll, backend
  <2>. QED
    BY <2>1, <2>2, <2>3 DEF TypeOK, database, bus
<1>12. ASSUME NEW c \in Pages, Deliver(c) PROVE TypeOK'
  <2>1. timer' \in [Pages -> BOOLEAN] /\ rerun' \in [Pages -> BOOLEAN]
    BY <1>6, <1>12 DEF Deliver
  <2>2. Tail(queue[c]) \in Seq(Items) /\ Len(Tail(queue[c])) = Len(queue[c]) - 1
    BY <1>12 DEF TypeOK, Deliver
  <2>3. queue' \in [Pages -> Seq(Items)] /\ \A d \in Pages : Len(queue'[d]) <= QueueSize
    BY <1>12, <2>2 DEF TypeOK, Deliver
  <2>. QED
    BY <1>12, <2>1, <2>3 DEF TypeOK, Deliver, backend, database
<1>13. ASSUME NEW c \in Pages, Detached(c)
       PROVE  /\ queue' \in [Pages -> Seq(Items)] /\ \A d \in Pages : Len(queue'[d]) <= QueueSize
              /\ stream' \in [Pages -> BOOLEAN]
  BY <1>13 DEF TypeOK, Detached
<1>14. ASSUME NEW c \in Pages, EndStream(c) \/ Break(c) PROVE TypeOK'
  BY <1>13, <1>14 DEF TypeOK, EndStream, Break, Fault, backend, database, view
<1>15. ASSUME NEW c \in Pages, Retry(c) PROVE TypeOK'
  BY <1>15 DEF TypeOK, Retry, backend, database, bus, view
<1>16. CASE UNCHANGED vars
  BY <1>16 DEF TypeOK, vars
<1>17. CASE Interrupted
  BY <1>17 DEF TypeOK, Interrupted, Fault, bus, view
<1>. QED
  BY <1>1, <1>2, <1>3, <1>4, <1>5, <1>7, <1>8, <1>9, <1>10, <1>11, <1>12, <1>14, <1>15, <1>16, <1>17
     DEF Next, Backend, Page, Loading, Connection

-----------------------------------------------------------------------------
(* Versions *)

LEMMA NextCommitted == TypeOK /\ Committed /\ [Next]_vars => Committed'
<1> SUFFICES ASSUME TypeOK, Committed, [Next]_vars PROVE Committed'
  OBVIOUS
<1>1. CASE Commit \/ Publish \/ Interrupted \/ Close \/ Exit \/ Crash
  BY <1>1, BoundAssumption DEF TypeOK, Committed, Commit, Publish, Interrupted, Close, Exit, Crash, Down
<1>2. CASE UNCHANGED database
  BY <1>2 DEF Committed, database
<1>. QED
  BY <1>1, <1>2
     DEF Next, Backend, Restart, Page, Loading, Connection, TimerFires, Answer, Show,
         LoadRefused, LoadFails, Failed, Connect, Ready, Deliver, EndStream, Break, Disconnected,
         HandshakeFails, Poll, Retry, backend, database, vars

LEMMA NextUnserved == TypeOK /\ Unserved /\ [Next]_vars => Unserved'
<1> SUFFICES ASSUME TypeOK, Unserved, [Next]_vars PROVE Unserved'
  OBVIOUS
<1> USE DEF Unserved
<1>1. CASE Exit \/ Crash
  BY <1>1 DEF Exit, Crash, Down
<1>2. ASSUME NEW c \in Pages, Connect(c) PROVE Unserved'
  BY <1>2 DEF Connect, backend
<1>3. ASSUME NEW c \in Pages, EndStream(c) \/ Break(c) PROVE Unserved'
  BY <1>3 DEF EndStream, Break, Detached, TypeOK, backend
<1>4. CASE UNCHANGED stream /\ (server' = "down" => server = "down")
  BY <1>4
<1>. QED
  BY <1>1, <1>2, <1>3, <1>4
     DEF Next, Backend, Commit, Publish, Interrupted, Close, Restart, Page, Loading, Connection, TimerFires,
         Answer, Show, LoadRefused, LoadFails, Failed, Ready, Deliver, Disconnected, HandshakeFails,
         Poll, Retry, backend, bus, vars

LEMMA NextForward == TypeOK /\ Forward /\ [Next]_vars => Forward'
<1> SUFFICES ASSUME TypeOK, Forward, [Next]_vars PROVE Forward'
  OBVIOUS
<1> USE BoundAssumption DEF Forward
<1>1. CASE Commit
  BY <1>1 DEF Commit, TypeOK, view
<1>2. ASSUME NEW c \in Pages, Answer(c) PROVE Forward'
  BY <1>2 DEF Answer, TypeOK, backend, database
<1>3. ASSUME NEW c \in Pages, Show(c) PROVE Forward'
  BY <1>3 DEF Show, TypeOK, backend, database
<1>4. CASE UNCHANGED <<shown, loaded, version>>
  BY <1>4
<1>. QED
  BY <1>1, <1>2, <1>3, <1>4
     DEF Next, Backend, Publish, Interrupted, Close, Exit, Crash, Down, Restart, Page, Loading, Connection,
         TimerFires, LoadRefused, LoadFails, Failed, Connect, Ready, Deliver, EndStream, Break,
         Disconnected, HandshakeFails, Poll, Retry, backend, database, view, vars

-----------------------------------------------------------------------------
(* Changes on their way *)

\* A page that is scheduled to load will load what the pages were told of.
LEMMA Scheduled ==
  ASSUME TypeOK, NEW c \in Pages, ScheduleRefresh(c), UNCHANGED refresh
  PROVE  Coming(c)'
BY DEF TypeOK, ScheduleRefresh, Coming

\* What is published for a page that is served leaves something in its queue.
LEMMA PublishLeaves ==
  ASSUME TypeOK, NEW c \in Pages, stream[c], NEW item \in Items
  PROVE  AfterPublish(c, item) # <<>>
<1>1. queue[c] \in Seq(Items)
  BY DEF TypeOK
<1>2. Queued(c, "end") \/ Queued(c, "invalidated") => queue[c] # <<>>
  BY <1>1 DEF Queued
<1>3. Overflowed(c) # <<>> /\ Append(queue[c], item) # <<>>
  BY <1>1 DEF Overflowed
<1>. QED
  BY <1>2, <1>3 DEF AfterPublish

LEMMA NextNoLoss == TypeOK /\ Committed /\ Unserved /\ Forward /\ NoSilentLoss /\ [Next]_vars => NoSilentLoss'
<1> SUFFICES ASSUME TypeOK, Committed, Unserved, Forward, NoSilentLoss, [Next]_vars,
                    NEW c \in Pages, Watching(c)'
             PROVE  shown'[c] >= told' \/ error'[c] \/ Coming(c)'
  BY DEF NoSilentLoss
<1>1. CASE Commit \/ Interrupted
  BY <1>1 DEF Commit, Interrupted, Coming, Watching, NoSilentLoss, bus, view
<1>2. CASE Publish
  <2>1. PICK item \in Items :
          queue' = IF server = "up" THEN [d \in Pages |-> AfterPublish(d, item)] ELSE queue
    BY <1>2 DEF Publish, Items
  <2>2. server = "up" /\ stream[c]
    BY <1>2 DEF Publish, Watching
  <2>3. queue'[c] # <<>>
    BY <2>1, <2>2, PublishLeaves
  <2>. QED
    BY <2>3 DEF Coming
<1>3. CASE Close \/ Exit \/ Crash
  BY <1>3 DEF Close, Exit, Crash, Down, Watching
<1>4. CASE Restart
  BY <1>4 DEF Restart, Unserved, Watching, bus
\* Steps of this page:
<1>5. CASE TimerFires(c)
  BY <1>5 DEF TimerFires, Load, Coming, TypeOK
<1>6. CASE Answer(c)
  BY <1>6 DEF Answer, Coming, TypeOK, Committed, backend, database
<1>7. CASE Show(c)
  <2>1. CASE Again(c)
    BY <1>7, <2>1 DEF Show, Load, Coming, TypeOK
  <2>2. CASE ~Again(c)
    <3>1. UNCHANGED <<backend, bus, connection, timer, error>> /\ shown'[c] = loaded[c]
          /\ refresh[c] = "loaded" /\ ~rerun[c]
      BY <1>7, <2>2 DEF Show, TypeOK, Again
    <3>2. shown[c] >= told \/ error[c] \/ Coming(c)
      BY <3>1 DEF Watching, NoSilentLoss, backend, bus
    <3>3. shown[c] >= told => loaded[c] >= told
      BY <3>1 DEF Forward, TypeOK
    <3>. QED
      BY <3>1, <3>2, <3>3 DEF Coming, backend, database, bus
  <2>. QED
    BY <2>1, <2>2
<1>8. CASE LoadRefused(c) \/ LoadFails(c)
  BY <1>8 DEF LoadRefused, LoadFails, Failed, TypeOK
<1>9. CASE Connect(c) \/ Disconnected(c) \/ HandshakeFails(c) \/ Retry(c)
  BY <1>9 DEF Connect, Disconnected, HandshakeFails, Retry, Watching, TypeOK
<1>10. CASE Ready(c) \/ Deliver(c)
  BY <1>10, Scheduled DEF Ready, CatchUp, Deliver
<1>11. CASE EndStream(c) \/ Break(c)
  BY <1>11 DEF EndStream, Break, Detached, Watching, TypeOK
<1>12. CASE Poll(c)
  BY <1>12 DEF Poll, Watching, TypeOK
\* Steps of another page:
<1>13. ASSUME NEW d \in Pages, d # c, Page(d)
       PROVE  /\ UNCHANGED <<server, version, told>>
              /\ stream'[c] = stream[c] /\ queue'[c] = queue[c] /\ connection'[c] = connection[c]
              /\ timer'[c] = timer[c] /\ refresh'[c] = refresh[c] /\ rerun'[c] = rerun[c]
              /\ loaded'[c] = loaded[c] /\ shown'[c] = shown[c] /\ error'[c] = error[c]
  <2>1. CASE TimerFires(d) \/ Answer(d) \/ Show(d)
    BY <1>13, <2>1 DEF TimerFires, Answer, Show, Load, TypeOK, backend, database, bus
  <2>2. CASE LoadRefused(d) \/ LoadFails(d)
    BY <1>13, <2>2 DEF LoadRefused, LoadFails, Failed, TypeOK, backend, database, bus
  <2>3. CASE Connect(d) \/ EndStream(d) \/ Break(d) \/ Retry(d)
    BY <1>13, <2>3 DEF Connect, EndStream, Break, Retry, Attached, Detached, TypeOK, backend, database, bus, view
  <2>4. CASE Ready(d) \/ Deliver(d) \/ Disconnected(d) \/ HandshakeFails(d) \/ Poll(d)
    BY <1>13, <2>4
       DEF Ready, CatchUp, Deliver, Disconnected, HandshakeFails, Poll, ScheduleRefresh, TypeOK, backend, database, bus
  <2>. QED
    BY <1>13, <2>1, <2>2, <2>3, <2>4 DEF Page, Loading, Connection
<1>14. ASSUME NEW d \in Pages, d # c, Page(d) PROVE shown'[c] >= told' \/ error'[c] \/ Coming(c)'
  BY <1>13, <1>14 DEF Coming, Watching, NoSilentLoss
<1>15. CASE UNCHANGED vars
  BY <1>15 DEF Coming, Watching, NoSilentLoss, vars
<1>. QED
  BY <1>1, <1>2, <1>3, <1>4, <1>5, <1>6, <1>7, <1>8, <1>9, <1>10, <1>11, <1>12, <1>14, <1>15
     DEF Next, Backend, Page, Loading, Connection

-----------------------------------------------------------------------------
LEMMA Invariant == Spec => []IInv
<1>1. Init => IInv
  BY InitType, BoundAssumption DEF Init, IInv, Committed, Unserved, Forward, NoSilentLoss, Watching
<1>2. IInv /\ [Next]_vars => IInv'
  BY NextType, NextCommitted, NextUnserved, NextForward, NextNoLoss DEF IInv
<1>. QED
  BY <1>1, <1>2, PTL DEF Spec

\* The variables keep their types; the queue of a subscriber stays within its
\* size (DatabaseModeEventBus.publish).
THEOREM TypeCorrect == Spec => []TypeOK
<1>1. IInv => TypeOK
  BY DEF IInv
<1>. QED
  BY <1>1, Invariant, PTL

\* No page that is connected misses what an event announced, or what was
\* committed when its stream was ended, for good without an error: an event, a
\* refresh or a reconnect is still on its way to it.  This holds with requests
\* that are interrupted before they publish (batch_process): their changes come
\* with the next event.
THEOREM NoChangeIsLost == Spec => []NoSilentLoss
<1>1. IInv => NoSilentLoss
  BY DEF IInv
<1>. QED
  BY <1>1, Invariant, PTL
=============================================================================
