-------------------------- MODULE MessageAggregator --------------------------
(***************************************************************************)
(* The way of a chat message to its answer: MessageAggregator, which       *)
(* gathers the messages of a conversation until none has come for a while, *)
(* and then the dispatch of PipelineController, whose queries it makes.    *)
(*                                                                         *)
(* A query is named after its first message.  The aggregator's lock is     *)
(* never held where a coroutine can be suspended, so what happens under it *)
(* is part of the action.  Conversations are the sessions of the pool.     *)
(***************************************************************************)
EXTENDS PipelineController

CONSTANTS
  Buffered,             \* messages to pipelines with message-aggregation enabled
  MAX_BUFFER_MESSAGES

ASSUME BufferAssumption ==
  Buffered \subseteq Consumed /\ MAX_BUFFER_MESSAGES \in Nat \ {0}

VARIABLES
  buffer,  \* session -> messages that wait
  timer,   \* session -> a flush is scheduled
  parts    \* query -> messages it was made of

chatVars == <<vars, buffer, timer, parts>>

ChatTypeOK ==
  /\ TypeOK
  /\ buffer \in [Sessions -> Seq(Buffered)]
  /\ timer \in [Sessions -> BOOLEAN]
  /\ parts \in [Queries -> Seq(Queries)]

ChatInit ==
  /\ Init
  /\ buffer = [s \in Sessions |-> <<>>]
  /\ timer = [s \in Sessions |-> FALSE]
  /\ parts = [q \in Queries |-> <<>>]

In(m, seq) == \E i \in DOMAIN seq : seq[i] = m

Holders(m) == {q \in Queries : In(m, parts[q])}

Received(m) == In(m, buffer[SessionOf[m]]) \/ Holders(m) # {}

-----------------------------------------------------------------------------
\* Mutant: what is flushed stays in the buffer.
Kept(s, messages) == [buffer EXCEPT ![s] = messages]

Popped(s, messages) == [buffer EXCEPT ![s] = <<>>]

\* _flush_buffer, up to the pool lock.
Flush(s, messages) ==
  /\ buffer' = Popped(s, messages)
  /\ timer' = [timer EXCEPT ![s] = FALSE]
  /\ parts' = [parts EXCEPT ![Head(messages)] = messages]
  /\ Arrive(Head(messages))

\* Mutant: only the flush of a full buffer is thought of.
NotStarted(s) == timer

Restarted(s) == [timer EXCEPT ![s] = TRUE]

AddMessage(m) ==
  /\ m \in Buffered /\ ~Received(m)
  /\ LET s == SessionOf[m]
         messages == Append(buffer[s], m)
     IN IF Len(messages) >= MAX_BUFFER_MESSAGES
          THEN Flush(s, messages)
          ELSE /\ buffer' = [buffer EXCEPT ![s] = messages]
               /\ timer' = Restarted(s)
               /\ UNCHANGED <<vars, parts>>

\* Aggregation is disabled, or the message is processed at once.
PassOn(m) ==
  /\ m \notin Buffered
  /\ Arrive(m)
  /\ parts' = [parts EXCEPT ![m] = <<m>>]
  /\ UNCHANGED <<buffer, timer>>

\* _delayed_flush.
TimerFires(s) == timer[s] /\ Flush(s, buffer[s])

Dispatch ==
  /\ \/ Consume
     \/ \E q \in Queries : Process(q) \/ Timeout(q)
  /\ UNCHANGED <<buffer, timer, parts>>

ChatNext ==
  \/ Dispatch
  \/ \E m \in Queries : AddMessage(m) \/ PassOn(m)
  \/ \E s \in Sessions : TimerFires(s)

ChatSpec == ChatInit /\ [][ChatNext]_chatVars

\* Timers fire; the rest is the fairness of the dispatch.
FairChatSpec ==
  /\ ChatSpec
  /\ WF_vars(Consume)
  /\ \A q \in Queries : WF_vars(Process(q)) /\ WF_vars(Timeout(q))
  /\ \A s \in Sessions : WF_chatVars(TimerFires(s))

-----------------------------------------------------------------------------
(* Properties *)

\* A message is in one place: in the buffer of its conversation or in one
\* query, never in both and not in two, however timers, the limit of the buffer
\* and new messages interleave.
InOnePlace ==
  \A m \in Buffered :
    /\ Cardinality(Holders(m)) <= 1
    /\ Holders(m) # {} => ~In(m, buffer[SessionOf[m]])

\* What waits in a buffer has a timer that will flush it.
FlushScheduled == \A s \in Sessions : buffer[s] # <<>> => timer[s]

\* A message is answered as part of some query, unless drafts are generated in
\* the same conversation (that may block it for ever).
MessagesServed ==
  \A m \in Buffered :
    SessionOf[m] \notin {SessionOf[i] : i \in Immediate} =>
      (Received(m) ~> \E q \in Holders(m) : pc[q] = "done")
=============================================================================
