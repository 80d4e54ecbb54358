-------------------------- MODULE PipelineController --------------------------
(***************************************************************************)
(* The dispatch of chat messages to pipelines: QueryPool, the background   *)
(* consumer of Controller, and process_query_now, by which database mode   *)
(* runs a query at once and gives up after a timeout.                      *)
(*                                                                         *)
(* Everything runs in one event loop.  An action is what a coroutine does  *)
(* between two places where it can be suspended.  What happens under the   *)
(* pool lock is not suspended, except the wait for the session's semaphore *)
(* in process_query_now: only there is the lock held between two actions.  *)
(***************************************************************************)
EXTENDS Naturals, FiniteSets, Sequences, SequencesExt

CONSTANTS
  Queries,         \* messages that arrive
  Immediate,       \* those that are processed at once (process_query_now)
  SessionOf,       \* [Queries -> sessions]
  SessionPermits,  \* concurrency.session
  PipelineLimit,   \* concurrency.pipeline
  None

Sessions == {SessionOf[q] : q \in Queries}
Consumed == Queries \ Immediate   \* those the consumer takes

ASSUME QueryAssumption ==
  /\ IsFiniteSet(Queries) /\ Immediate \subseteq Queries /\ None \notin Queries
  /\ SessionOf \in [Queries -> Sessions]
ASSUME LimitAssumption ==
  SessionPermits \in Nat \ {0} /\ PipelineLimit \in Nat \ {0}

VARIABLES
  pc,        \* query -> where its coroutine is
  lock,      \* the query that holds the pool lock while it waits
  queries,   \* the pool, in order of arrival
  permits,   \* session -> value of its semaphore
  asleep,    \* the consumer waits for the condition
  timedOut   \* queries whose caller gave up

vars == <<pc, lock, queries, permits, asleep, timedOut>>

Steps == {"absent", "adding", "queued", "acquiring", "selected", "running", "finishing", "done"}

TypeOK ==
  /\ pc \in [Queries -> Steps]
  /\ lock \in Immediate \cup {None}
  /\ queries \in Seq(Queries)
  /\ permits \in [Sessions -> 0 .. SessionPermits]
  /\ asleep \in BOOLEAN
  /\ timedOut \subseteq Immediate

Init ==
  /\ pc = [q \in Queries |-> "absent"]
  /\ lock = None
  /\ queries = <<>>
  /\ permits = [s \in Sessions |-> SessionPermits]
  /\ asleep = FALSE
  /\ timedOut = {}

Goto(q, step) == pc' = [pc EXCEPT ![q] = step]

Running == {q \in Queries : pc[q] = "running"}

-----------------------------------------------------------------------------
(* The pool *)

Arrive(q) ==
  /\ pc[q] = "absent"
  /\ Goto(q, "adding")
  /\ UNCHANGED <<lock, queries, permits, asleep, timedOut>>

AddQuery(q) ==
  /\ pc[q] = "adding" /\ lock = None
  /\ queries' = Append(queries, q)
  /\ asleep' = FALSE
  /\ Goto(q, "queued")
  /\ UNCHANGED <<lock, permits, timedOut>>

-----------------------------------------------------------------------------
(* The consumer *)

\* Mutant: the consumer looks at the lock of no session.
EligibleAnyway(q) == q \in Consumed

\* A query reserved for immediate processing is skipped, and so is one whose
\* session's semaphore is locked.
Eligible(q) == q \in Consumed /\ permits[SessionOf[q]] > 0

\* Mutant: the newest is taken.
NewestEligible(i) ==
  Eligible(queries[i]) /\ \A j \in i + 1 .. Len(queries) : ~Eligible(queries[j])

FirstEligible(i) == Eligible(queries[i]) /\ \A j \in 1 .. i - 1 : ~Eligible(queries[j])

SomeEligible == \E i \in DOMAIN queries : Eligible(queries[i])

Take(q) == permits' = [permits EXCEPT ![SessionOf[q]] = @ - 1]

\* The first eligible query becomes a task of its own.
Select ==
  /\ \E i \in DOMAIN queries :
       /\ FirstEligible(i)
       /\ Take(queries[i])
       /\ Goto(queries[i], "selected")
       /\ queries' = RemoveAt(queries, i)
  /\ UNCHANGED asleep

Sleep ==
  /\ ~SomeEligible
  /\ asleep' = TRUE
  /\ UNCHANGED <<pc, queries, permits>>

\* One turn of the consumer's loop.
Consume ==
  /\ ~asleep /\ lock = None
  /\ Select \/ Sleep
  /\ UNCHANGED <<lock, timedOut>>

-----------------------------------------------------------------------------
(* Immediate processing *)

\* process_query_now takes the pool lock and, holding it, waits for the
\* session.  The query is in the pool, for the consumer skips it.
EnterNow(q) ==
  /\ q \in Immediate /\ pc[q] = "queued" /\ lock = None
  /\ lock' = q
  /\ \E i \in DOMAIN queries : queries[i] = q /\ queries' = RemoveAt(queries, i)
  /\ Goto(q, "acquiring")
  /\ UNCHANGED <<permits, asleep, timedOut>>

AcquireSession(q) ==
  /\ pc[q] = "acquiring" /\ permits[SessionOf[q]] > 0
  /\ Take(q)
  /\ lock' = None
  /\ Goto(q, "selected")
  /\ UNCHANGED <<queries, asleep, timedOut>>

-----------------------------------------------------------------------------
(* Processing *)

RunPipeline(q) ==
  /\ pc[q] = "selected" /\ Cardinality(Running) < PipelineLimit
  /\ Goto(q, "running")
  /\ UNCHANGED <<lock, queries, permits, asleep, timedOut>>

\* The run ends, with or without an error, or the query is dropped because it
\* has no pipeline.  (That a dropped query stays in cached_queries is abstracted.)
PipelineEnded(q) ==
  /\ pc[q] = "running"
  /\ Goto(q, "finishing")
  /\ UNCHANGED <<lock, queries, permits, asleep, timedOut>>

\* Mutant: the consumer is not notified.
WakeNobody == asleep

Wake == FALSE
Released(q) == [permits EXCEPT ![SessionOf[q]] = @ + 1]

\* _finish_selected_query.
Finish(q) ==
  /\ pc[q] = "finishing" /\ lock = None
  /\ permits' = Released(q)
  /\ asleep' = Wake
  /\ Goto(q, "done")
  /\ UNCHANGED <<lock, queries, timedOut>>

-----------------------------------------------------------------------------
(* The caller of process_query_now gives up (asyncio.wait_for): the coroutine
   is cancelled where it is suspended. *)

\* Mutant: a cancelled coroutine does not release the pool lock.
LockKept(q) == lock

Unlocked(q) == IF lock = q THEN None ELSE lock

\* Suspended where nothing is cleaned up.  A query that is still in the pool
\* stays there, reserved; one that waits for the pool lock in order to release
\* its session never does so.
Abandoned(q) ==
  /\ \/ pc[q] \in {"adding", "queued", "finishing"} /\ lock # None
     \/ pc[q] = "acquiring" /\ permits[SessionOf[q]] = 0
  /\ lock' = Unlocked(q)
  /\ Goto(q, "done")

\* Suspended in _process_one_query: the finally block runs.
Interrupted(q) ==
  /\ pc[q] \in {"selected", "running"}
  /\ Goto(q, "finishing")
  /\ UNCHANGED lock

Timeout(q) ==
  /\ q \in Immediate \ timedOut
  /\ timedOut' = timedOut \cup {q}
  /\ Abandoned(q) \/ Interrupted(q)
  /\ UNCHANGED <<queries, permits, asleep>>

-----------------------------------------------------------------------------
Process(q) ==
  \/ AddQuery(q) \/ EnterNow(q) \/ AcquireSession(q)
  \/ RunPipeline(q) \/ PipelineEnded(q) \/ Finish(q)

Next ==
  \/ Consume
  \/ \E q \in Queries : Arrive(q) \/ Process(q) \/ Timeout(q)

Spec == Init /\ [][Next]_vars

\* The loop runs what can run, pipelines end, and a caller that waits gives up
\* at last.  Messages need not arrive.
FairSpec ==
  /\ Spec
  /\ WF_vars(Consume)
  /\ \A q \in Queries : WF_vars(Process(q)) /\ WF_vars(Timeout(q))

-----------------------------------------------------------------------------
(* Properties *)

InFlight(s) == {q \in Queries : SessionOf[q] = s /\ pc[q] \in {"selected", "running", "finishing"}}

\* No session has more queries in flight than concurrency.session allows,
\* whichever of the two paths they came by.
SessionSerial == \A s \in Sessions : Cardinality(InFlight(s)) <= SessionPermits

\* Whatever makes a query eligible wakes the consumer: it never sleeps while
\* there is something to do (add_query, _finish_selected_query).
NoLostWakeup == asleep => ~SomeEligible

\* The consumer takes the queries of a session in the order of their arrival.
SessionOrder ==
  [][\A q \in Consumed : pc[q] = "queued" /\ pc'[q] = "selected" =>
       \A i, j \in DOMAIN queries :
         i < j /\ queries[j] = q /\ SessionOf[queries[i]] = SessionOf[q]
         => queries[i] \in Immediate]_vars

\* A query that waits for its session with the pool lock in hand blocks the
\* whole dispatch, but only until its caller gives up.
LockReleased == lock # None ~> lock = None

\* Every queued query is consumed (Controller.consumer, "Consume queued
\* queries in the background").
QueuedConsumed == \A q \in Consumed : pc[q] = "queued" ~> pc[q] # "queued"
=============================================================================
