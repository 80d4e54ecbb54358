---------------------- MODULE PipelineController_proofs ----------------------
(***************************************************************************)
(* Proofs about the dispatch of queries, for every number of queries and   *)
(* sessions and every limit.                                               *)
(*                                                                         *)
(* SessionSerial is not inductive: it must be known that a permit that is  *)
(* free is one that no query in flight holds.  Budget says so.  It is an   *)
(* inequality, not an equation: a caller that gives up while its query     *)
(* waits to release the session leaves a permit that nobody has.           *)
(***************************************************************************)
EXTENDS MessageAggregator, SequenceLemmas, FiniteSetTheorems

Budget == \A s \in Sessions : permits[s] + Cardinality(InFlight(s)) <= SessionPermits

IInv == TypeOK /\ Budget

\* A query enters the pool once.
Pooled ==
  /\ \A i, j \in DOMAIN queries : queries[i] = queries[j] => i = j
  /\ \A i \in DOMAIN queries : pc[queries[i]] \notin {"absent", "adding"}

-----------------------------------------------------------------------------
(* Queries in flight *)

\* A session has finitely many queries in flight.
LEMMA InFlightFinite == \A s : IsFiniteSet(InFlight(s)) /\ Cardinality(InFlight(s)) \in Nat
<1>. TAKE s
<1>1. InFlight(s) \subseteq Queries
  BY DEF InFlight
<1>. QED
  BY <1>1, QueryAssumption, FS_Subset, FS_CardinalityType

\* A query that is selected joins those in flight of its session.
LEMMA Joins ==
  ASSUME TypeOK, NEW q \in Queries, Goto(q, "selected"), NEW s
  PROVE  InFlight(s)' = IF s = SessionOf[q] THEN InFlight(s) \cup {q} ELSE InFlight(s)
BY DEF TypeOK, Goto, InFlight

\* A query whose step is none of those in flight is not in flight.
LEMMA Leaves ==
  ASSUME TypeOK, NEW q \in Queries, NEW step \in {"adding", "queued", "acquiring", "done"},
         Goto(q, step), NEW s
  PROVE  InFlight(s)' = InFlight(s) \ {q}
BY DEF TypeOK, Goto, InFlight

\* A query that is in flight stays so from one step of its processing to the
\* next.
LEMMA Stays ==
  ASSUME TypeOK, NEW q \in Queries, pc[q] \in {"selected", "running"},
         NEW step \in {"running", "finishing"}, Goto(q, step), NEW s
  PROVE  InFlight(s)' = InFlight(s)
BY DEF TypeOK, Goto, InFlight

\* Budget survives a step that takes a permit for a query it selects.
LEMMA TakeKeepsBudget ==
  ASSUME TypeOK, Budget, NEW q \in Queries, permits[SessionOf[q]] > 0,
         Take(q), Goto(q, "selected")
  PROVE  Budget' /\ permits' \in [Sessions -> 0 .. SessionPermits]
<1>1. SessionOf[q] \in Sessions /\ SessionPermits \in Nat
  BY LimitAssumption DEF Sessions
<1>2. permits' \in [Sessions -> 0 .. SessionPermits]
  BY <1>1 DEF TypeOK, Take
<1>3. ASSUME NEW s \in Sessions
      PROVE  permits'[s] + Cardinality(InFlight(s)') <= SessionPermits
  <2>1. permits[s] \in Int /\ Cardinality(InFlight(s)) \in Nat
    BY <1>1, InFlightFinite DEF TypeOK
  <2>2. CASE s = SessionOf[q]
    <3>1. permits'[s] = permits[s] - 1
      BY <2>2, <1>1 DEF TypeOK, Take
    <3>2. InFlight(s)' = InFlight(s) \cup {q}
      BY <2>2, Joins
    <3>3. /\ Cardinality(InFlight(s) \cup {q}) \in Nat
          /\ Cardinality(InFlight(s) \cup {q}) <= Cardinality(InFlight(s)) + 1
      <4>1. IsFiniteSet(InFlight(s))
        BY InFlightFinite
      <4>2. Cardinality(InFlight(s) \cup {q}) =
              IF q \in InFlight(s) THEN Cardinality(InFlight(s)) ELSE Cardinality(InFlight(s)) + 1
        BY <4>1, FS_AddElement, Zenon
      <4>. QED
        BY <4>2, <2>1
    <3>. QED
      BY <2>1, <3>1, <3>2, <3>3, <1>1 DEF Budget
  <2>3. CASE s # SessionOf[q]
    <3>1. permits'[s] = permits[s]
      BY <2>3, <1>1 DEF TypeOK, Take
    <3>. QED
      BY <2>3, <3>1, Joins DEF Budget
  <2>. QED
    BY <2>2, <2>3
<1>. QED
  BY <1>2, <1>3 DEF Budget

\* Budget survives a step that gives the permit of a query in flight back.
LEMMA ReleaseKeepsBudget ==
  ASSUME TypeOK, Budget, NEW q \in Queries, pc[q] = "finishing",
         permits' = Released(q), Goto(q, "done")
  PROVE  Budget' /\ permits' \in [Sessions -> 0 .. SessionPermits]
<1>1. SessionOf[q] \in Sessions /\ SessionPermits \in Nat
  BY LimitAssumption DEF Sessions
<1>2. ASSUME NEW s \in Sessions
      PROVE  /\ permits'[s] + Cardinality(InFlight(s)') <= SessionPermits
             /\ permits'[s] \in 0 .. SessionPermits
  <2>1. permits[s] \in Nat /\ Cardinality(InFlight(s)) \in Nat
    BY <1>1, InFlightFinite DEF TypeOK
  <2>2. InFlight(s)' = InFlight(s) \ {q}
    BY Leaves
  <2>3. CASE s = SessionOf[q]
    <3>1. permits'[s] = permits[s] + 1
      BY <2>3, <1>1 DEF TypeOK, Released
    <3>2. q \in InFlight(s)
      BY <2>3 DEF InFlight
    <3>3. /\ Cardinality(InFlight(s) \ {q}) \in Nat
          /\ Cardinality(InFlight(s) \ {q}) = Cardinality(InFlight(s)) - 1
      BY <3>2, InFlightFinite, FS_RemoveElement, FS_CardinalityType
    <3>. QED
      BY <2>1, <2>2, <3>1, <3>3, <1>1 DEF Budget
  <2>4. CASE s # SessionOf[q]
    <3>1. permits'[s] = permits[s]
      BY <2>4, <1>1 DEF TypeOK, Released
    <3>2. q \notin InFlight(s)
      BY <2>4 DEF InFlight
    <3>3. InFlight(s) \ {q} = InFlight(s)
      BY <3>2
    <3>. QED
      BY <2>1, <2>2, <3>1, <3>3, <1>1 DEF Budget
  <2>. QED
    BY <2>3, <2>4
<1>3. permits' \in [Sessions -> 0 .. SessionPermits]
  BY <1>2 DEF TypeOK, Released
<1>. QED
  BY <1>2, <1>3 DEF Budget

\* Budget survives a step that takes no permit and selects no query.
LEMMA FewerKeepBudget ==
  ASSUME TypeOK, Budget, permits' = permits,
         \A s \in Sessions : InFlight(s)' \subseteq InFlight(s)
  PROVE  Budget'
<1>1. ASSUME NEW s \in Sessions
      PROVE  permits'[s] + Cardinality(InFlight(s)') <= SessionPermits
  <2>1. permits[s] \in Int /\ SessionPermits \in Nat /\ Cardinality(InFlight(s)) \in Nat
    BY InFlightFinite, LimitAssumption DEF TypeOK
  <2>2. /\ Cardinality(InFlight(s)') \in Nat
        /\ Cardinality(InFlight(s)') <= Cardinality(InFlight(s))
    BY InFlightFinite, FS_Subset, FS_CardinalityType
  <2>. QED
    BY <2>1, <2>2 DEF Budget
<1>. QED
  BY <1>1 DEF Budget

-----------------------------------------------------------------------------
(* The invariant *)

\* The invariant holds of an empty pool.
LEMMA InitIInv == Init => IInv
<1>. SUFFICES ASSUME Init PROVE IInv
  OBVIOUS
<1>1. TypeOK
  <2>1. permits \in [Sessions -> 0 .. SessionPermits]
    BY LimitAssumption DEF Init
  <2>2. queries \in Seq(Queries)
    BY EmptySeq DEF Init
  <2>3. pc \in [Queries -> Steps]
    BY DEF Init, Steps
  <2>. QED
    BY <2>1, <2>2, <2>3, Zenon DEF Init, TypeOK
<1>2. ASSUME NEW s \in Sessions
      PROVE  permits[s] + Cardinality(InFlight(s)) <= SessionPermits
  <2>1. InFlight(s) = {}
    BY DEF Init, InFlight
  <2>. QED
    BY <2>1, FS_EmptySet, LimitAssumption DEF Init
<1>. QED
  BY <1>1, <1>2 DEF IInv, Budget

\* What is in flight shrinks when a query that is not yet selected, or that is
\* given up, goes on.
LEMMA LeavesKeepsBudget ==
  ASSUME TypeOK, Budget, NEW q \in Queries, NEW step \in {"adding", "queued", "acquiring", "done"},
         Goto(q, step), permits' = permits
  PROVE  Budget'
BY Leaves, FewerKeepBudget

\* So does what is in flight when it goes from step to step.
LEMMA StaysKeepsBudget ==
  ASSUME TypeOK, Budget, NEW q \in Queries, pc[q] \in {"selected", "running"},
         NEW step \in {"running", "finishing"}, Goto(q, step), permits' = permits
  PROVE  Budget'
BY Stays, FewerKeepBudget

\* A step of a query leads to a step there is.
LEMMA GotoType ==
  ASSUME TypeOK, NEW q \in Queries, NEW step \in Steps, Goto(q, step)
  PROVE  pc' \in [Queries -> Steps]
BY DEF TypeOK, Goto

\* The invariant is inductive.
LEMMA NextIInv == IInv /\ [Next]_vars => IInv'
<1>. SUFFICES ASSUME TypeOK, Budget, [Next]_vars
              PROVE  TypeOK' /\ Budget'
  BY DEF IInv
<1>. USE DEF Steps
<1>1. ASSUME Consume
      PROVE  TypeOK' /\ Budget'
  <2>1. CASE Select
    <3>1. PICK i \in DOMAIN queries :
            /\ FirstEligible(i)
            /\ Take(queries[i])
            /\ Goto(queries[i], "selected")
            /\ queries' = RemoveAt(queries, i)
      BY <2>1, Zenon DEF Select
    <3>2. queries[i] \in Queries
      BY LenProperties DEF TypeOK
    <3>3. permits[SessionOf[queries[i]]] > 0
      BY <3>1 DEF FirstEligible, Eligible
    <3>4. Budget' /\ permits' \in [Sessions -> 0 .. SessionPermits]
      BY <3>1, <3>2, <3>3, TakeKeepsBudget
    <3>5. queries' \in Seq(Queries)
      BY <3>1, RemoveAtRemains DEF TypeOK
    <3>6. pc' \in [Queries -> Steps]
      BY <3>1, <3>2, GotoType
    <3>. QED
      BY <1>1, <2>1, <3>4, <3>5, <3>6 DEF TypeOK, Consume, Select
  <2>2. CASE Sleep
    <3>1. Budget'
      BY <2>2, FewerKeepBudget DEF Sleep, InFlight
    <3>. QED
      BY <1>1, <2>2, <3>1 DEF TypeOK, Consume, Sleep
  <2>. QED
    BY <1>1, <2>1, <2>2 DEF Consume
<1>2. ASSUME NEW q \in Queries, Arrive(q)
      PROVE  TypeOK' /\ Budget'
  <2>1. Budget'
    BY <1>2, LeavesKeepsBudget DEF Arrive
  <2>2. pc' \in [Queries -> Steps]
    BY <1>2, GotoType DEF Arrive
  <2>. QED
    BY <1>2, <2>1, <2>2 DEF TypeOK, Arrive
<1>3. ASSUME NEW q \in Queries, AddQuery(q)
      PROVE  TypeOK' /\ Budget'
  <2>1. Budget'
    BY <1>3, LeavesKeepsBudget DEF AddQuery
  <2>2. pc' \in [Queries -> Steps]
    BY <1>3, GotoType DEF AddQuery
  <2>3. queries' \in Seq(Queries)
    BY <1>3, AppendProperties DEF AddQuery, TypeOK
  <2>. QED
    BY <1>3, <2>1, <2>2, <2>3 DEF TypeOK, AddQuery
<1>4. ASSUME NEW q \in Queries, EnterNow(q)
      PROVE  TypeOK' /\ Budget'
  <2>1. Budget'
    BY <1>4, LeavesKeepsBudget DEF EnterNow
  <2>2. pc' \in [Queries -> Steps]
    BY <1>4, GotoType DEF EnterNow
  <2>3. queries' \in Seq(Queries)
    BY <1>4, RemoveAtRemains DEF EnterNow, TypeOK
  <2>. QED
    BY <1>4, <2>1, <2>2, <2>3 DEF TypeOK, EnterNow
<1>5. ASSUME NEW q \in Queries, AcquireSession(q)
      PROVE  TypeOK' /\ Budget'
  <2>1. Budget' /\ permits' \in [Sessions -> 0 .. SessionPermits]
    BY <1>5, TakeKeepsBudget DEF AcquireSession
  <2>2. pc' \in [Queries -> Steps]
    BY <1>5, GotoType DEF AcquireSession
  <2>. QED
    BY <1>5, <2>1, <2>2 DEF TypeOK, AcquireSession
<1>6. ASSUME NEW q \in Queries, RunPipeline(q) \/ PipelineEnded(q)
      PROVE  TypeOK' /\ Budget'
  <2>1. Budget'
    BY <1>6, StaysKeepsBudget DEF RunPipeline, PipelineEnded
  <2>2. pc' \in [Queries -> Steps]
    BY <1>6, GotoType DEF RunPipeline, PipelineEnded
  <2>. QED
    BY <1>6, <2>1, <2>2 DEF TypeOK, RunPipeline, PipelineEnded
<1>7. ASSUME NEW q \in Queries, Finish(q)
      PROVE  TypeOK' /\ Budget'
  <2>1. Budget' /\ permits' \in [Sessions -> 0 .. SessionPermits]
    BY <1>7, ReleaseKeepsBudget DEF Finish
  <2>2. pc' \in [Queries -> Steps]
    BY <1>7, GotoType DEF Finish
  <2>. QED
    BY <1>7, <2>1, <2>2 DEF TypeOK, Finish, Wake
<1>8. ASSUME NEW q \in Queries, Timeout(q)
      PROVE  TypeOK' /\ Budget'
  <2>1. CASE Abandoned(q)
    <3>1. Budget'
      BY <1>8, <2>1, LeavesKeepsBudget DEF Timeout, Abandoned
    <3>2. pc' \in [Queries -> Steps]
      BY <2>1, GotoType DEF Abandoned
    <3>. QED
      BY <1>8, <2>1, <3>1, <3>2 DEF TypeOK, Timeout, Abandoned, Unlocked
  <2>2. CASE Interrupted(q)
    <3>1. Budget'
      BY <1>8, <2>2, StaysKeepsBudget DEF Timeout, Interrupted
    <3>2. pc' \in [Queries -> Steps]
      BY <2>2, GotoType DEF Interrupted
    <3>. QED
      BY <1>8, <2>2, <3>1, <3>2 DEF TypeOK, Timeout, Interrupted
  <2>. QED
    BY <1>8, <2>1, <2>2 DEF Timeout
<1>9. CASE UNCHANGED vars
  <2>1. Budget'
    BY <1>9, FewerKeepBudget DEF vars, InFlight
  <2>. QED
    BY <1>9, <2>1 DEF TypeOK, vars
<1>. QED
  BY <1>1, <1>2, <1>3, <1>4, <1>5, <1>6, <1>7, <1>8, <1>9 DEF Next, Process

\* Hence it always holds.
LEMMA IInvAlways == Spec => []IInv
BY InitIInv, NextIInv, PTL DEF Spec

\* Every variable has its type: no semaphore goes below zero or above its
\* limit (Controller, QueryPool).
THEOREM TypeCorrect == Spec => []TypeOK
<1>1. IInv => TypeOK
  BY DEF IInv
<1>. QED
  BY <1>1, IInvAlways, PTL

\* At most concurrency.session queries of a session are in flight, whether the
\* consumer or process_query_now took them, and whatever callers give up.
THEOREM SessionsStaySerial == Spec => []SessionSerial
<1>1. IInv => SessionSerial
  <2>. SUFFICES ASSUME IInv, NEW s \in Sessions
                PROVE  Cardinality(InFlight(s)) <= SessionPermits
    BY DEF SessionSerial
  <2>1. permits[s] \in 0 .. SessionPermits /\ SessionPermits \in Nat /\ Cardinality(InFlight(s)) \in Nat
    BY InFlightFinite, LimitAssumption DEF IInv, TypeOK
  <2>. QED
    BY <2>1 DEF IInv, Budget
<1>. QED
  BY <1>1, IInvAlways, PTL

-----------------------------------------------------------------------------
(* The consumer's sleep *)

\* A query that is in the pool after one was taken out was there before.
LEMMA TakenOut ==
  ASSUME TypeOK, NEW i \in DOMAIN queries, queries' = RemoveAt(queries, i)
  PROVE  \A k \in DOMAIN queries' : \E j \in DOMAIN queries : queries'[k] = queries[j]
BY RemoveAtSubset DEF TypeOK

\* A step that neither adds to the pool nor frees a session makes no query
\* eligible.
LEMMA NothingBecomesEligible ==
  ASSUME ~SomeEligible,
         \A k \in DOMAIN queries' : \E j \in DOMAIN queries : queries'[k] = queries[j],
         \A k \in DOMAIN queries' :
           permits'[SessionOf[queries'[k]]] > 0 => permits[SessionOf[queries'[k]]] > 0
  PROVE  ~SomeEligible'
BY DEF SomeEligible, Eligible

\* The consumer never sleeps while it could take a query: every step that adds
\* a query or frees a session wakes it (add_query, _finish_selected_query).
THEOREM NoWakeupIsLost == Spec => []NoLostWakeup
<1>1. Init => NoLostWakeup
  BY DEF Init, NoLostWakeup
<1>2. NoLostWakeup /\ IInv /\ [Next]_vars => NoLostWakeup'
  <2>. SUFFICES ASSUME NoLostWakeup, TypeOK, TypeOK', [Next]_vars, asleep'
                PROVE  ~SomeEligible'
    BY NextIInv DEF NoLostWakeup, IInv
  <2>1. CASE Consume
    <3>1. Sleep
      BY <2>1 DEF Consume, Select
    <3>. QED
      BY <3>1 DEF Sleep, SomeEligible, Eligible
  <2>2. ASSUME NEW q \in Queries, EnterNow(q)
        PROVE  ~SomeEligible'
    <3>1. PICK i \in DOMAIN queries : queries' = RemoveAt(queries, i)
      BY <2>2 DEF EnterNow
    <3>2. ~SomeEligible /\ permits' = permits
      BY <2>2 DEF EnterNow, NoLostWakeup
    <3>3. \A k \in DOMAIN queries' : \E j \in DOMAIN queries : queries'[k] = queries[j]
      BY <3>1, TakenOut
    <3>. QED
      BY <3>2, <3>3, NothingBecomesEligible
  <2>3. ASSUME NEW q \in Queries, AcquireSession(q)
        PROVE  ~SomeEligible'
    <3>1. ~SomeEligible /\ queries' = queries
      BY <2>3 DEF AcquireSession, NoLostWakeup
    <3>2. ASSUME NEW k \in DOMAIN queries, permits'[SessionOf[queries[k]]] > 0
          PROVE  permits[SessionOf[queries[k]]] > 0
      <4>1. queries[k] \in Queries
        BY LenProperties DEF TypeOK
      <4>2. SessionOf[queries[k]] \in Sessions
        BY <4>1 DEF Sessions
      <4>. QED
        BY <2>3, <3>2, <4>2, LimitAssumption DEF AcquireSession, Take, TypeOK
    <3>. QED
      BY <3>1, <3>2, NothingBecomesEligible
  <2>4. ASSUME NEW q \in Queries, AddQuery(q) \/ Finish(q)
        PROVE  FALSE
    BY <2>4 DEF AddQuery, Finish, Wake
  <2>5. ASSUME UNCHANGED <<queries, permits, asleep>>
        PROVE  ~SomeEligible'
    BY <2>5 DEF NoLostWakeup, SomeEligible, Eligible
  <2>. QED
    BY <2>1, <2>2, <2>3, <2>4, <2>5
    DEF Next, Process, Arrive, RunPipeline, PipelineEnded, Timeout, vars
<1>. QED
  BY <1>1, <1>2, IInvAlways, PTL DEF Spec

-----------------------------------------------------------------------------
(* The order of a session *)

\* An empty pool has no query twice.
LEMMA InitPooled == Init => Pooled
BY DEF Init, Pooled

\* Nor does any step put one there a second time.
LEMMA NextPooled == Pooled /\ IInv /\ [Next]_vars => Pooled'
<1>. SUFFICES ASSUME Pooled, TypeOK, TypeOK', [Next]_vars
              PROVE  Pooled'
  BY NextIInv DEF IInv
<1>1. ASSUME NEW i \in DOMAIN queries, queries' = RemoveAt(queries, i),
             NEW q \in Queries, NEW step \in Steps \ {"absent", "adding"}, Goto(q, step)
      PROVE  Pooled'
  <2>1. /\ DOMAIN queries = 1 .. Len(queries) /\ Len(queries) \in Nat
        /\ \A k \in DOMAIN queries : queries[k] \in Queries
    BY LenProperties DEF TypeOK
  <2>2. \A k, l \in DOMAIN queries' : queries'[k] = queries'[l] => k = l
    BY <1>1, RemoveAtDistinct DEF TypeOK, Pooled
  <2>3. ASSUME NEW k \in DOMAIN queries'
        PROVE  pc'[queries'[k]] \notin {"absent", "adding"}
    <3>1. PICK j \in DOMAIN queries : queries'[k] = queries[j]
      BY <1>1, TakenOut
    <3>. QED
      BY <1>1, <3>1, <2>1 DEF Pooled, TypeOK, Goto
  <2>. QED
    BY <2>2, <2>3 DEF Pooled
<1>2. ASSUME NEW q \in Queries, AddQuery(q)
      PROVE  Pooled'
  <2>1. /\ DOMAIN queries = 1 .. Len(queries) /\ Len(queries) \in Nat
        /\ \A k \in DOMAIN queries : queries[k] \in Queries
    BY LenProperties DEF TypeOK
  <2>2. /\ DOMAIN queries' = 1 .. Len(queries) + 1
        /\ \A k \in 1 .. Len(queries) : queries'[k] = queries[k]
        /\ queries'[Len(queries) + 1] = q
    BY <1>2, <2>1, AppendProperties, LenProperties DEF TypeOK, AddQuery
  <2>3. \A k \in DOMAIN queries : queries[k] # q
    BY <1>2 DEF AddQuery, Pooled
  <2>4. ASSUME NEW k \in DOMAIN queries', NEW l \in DOMAIN queries', queries'[k] = queries'[l]
        PROVE  k = l
    BY <2>1, <2>2, <2>3, <2>4 DEF Pooled
  <2>5. ASSUME NEW k \in DOMAIN queries'
        PROVE  pc'[queries'[k]] \notin {"absent", "adding"}
    <3>1. pc' = [pc EXCEPT ![q] = "queued"]
      BY <1>2 DEF AddQuery, Goto
    <3>2. CASE k \in DOMAIN queries
      BY <2>1, <2>2, <2>3, <3>1, <3>2 DEF Pooled, TypeOK
    <3>3. CASE k = Len(queries) + 1
      BY <2>2, <3>1, <3>3 DEF TypeOK
    <3>. QED
      BY <2>1, <2>2, <3>2, <3>3
  <2>. QED
    BY <2>4, <2>5 DEF Pooled
<1>3. ASSUME queries' = queries,
             \A q \in Queries : pc'[q] \in {"absent", "adding"} => pc[q] \in {"absent", "adding"}
      PROVE  Pooled'
  <2>1. \A k \in DOMAIN queries : queries[k] \in Queries
    BY LenProperties DEF TypeOK
  <2>. QED
    BY <1>3, <2>1 DEF Pooled
<1>4. ASSUME NEW q \in Queries, NEW step \in {"selected", "running", "finishing", "done"},
             Goto(q, step), queries' = queries
      PROVE  Pooled'
  BY <1>3, <1>4 DEF TypeOK, Goto
<1>5. CASE Consume
  <2>1. CASE Select
    <3>1. PICK i \in DOMAIN queries :
            Goto(queries[i], "selected") /\ queries' = RemoveAt(queries, i)
      BY <2>1, Zenon DEF Select
    <3>2. queries[i] \in Queries
      BY LenProperties DEF TypeOK
    <3>. QED
      BY <3>1, <3>2, <1>1 DEF Steps
  <2>2. CASE Sleep
    BY <2>2, <1>3 DEF Sleep
  <2>. QED
    BY <1>5, <2>1, <2>2 DEF Consume
<1>6. ASSUME NEW q \in Queries, Arrive(q)
      PROVE  Pooled'
  BY <1>3, <1>6 DEF Arrive, Goto, TypeOK
<1>7. ASSUME NEW q \in Queries, EnterNow(q)
      PROVE  Pooled'
  BY <1>1, <1>7 DEF EnterNow, Steps
<1>8. ASSUME NEW q \in Queries,
             AcquireSession(q) \/ RunPipeline(q) \/ PipelineEnded(q) \/ Finish(q) \/ Timeout(q)
      PROVE  Pooled'
  BY <1>4, <1>8
  DEF AcquireSession, RunPipeline, PipelineEnded, Finish, Timeout, Abandoned, Interrupted
<1>9. CASE UNCHANGED vars
  BY <1>3, <1>9 DEF vars
<1>. QED
  BY <1>2, <1>5, <1>6, <1>7, <1>8, <1>9 DEF Next, Process

\* The consumer takes the queries of a session in the order in which they
\* arrived, also when it skips those of a session that is busy
\* (Controller.consumer).
THEOREM SessionsKeepOrder == Spec => SessionOrder
<1>. DEFINE InOrder ==
       \A q \in Consumed : pc[q] = "queued" /\ pc'[q] = "selected" =>
         \A i, j \in DOMAIN queries :
           i < j /\ queries[j] = q /\ SessionOf[queries[i]] = SessionOf[q]
           => queries[i] \in Immediate
<1>1. IInv /\ Pooled /\ [Next]_vars => [InOrder]_vars
  <2>. SUFFICES ASSUME TypeOK, Pooled, Next, NEW q \in Consumed,
                       pc[q] = "queued", pc'[q] = "selected",
                       NEW i \in DOMAIN queries, NEW j \in DOMAIN queries,
                       i < j, queries[j] = q, SessionOf[queries[i]] = SessionOf[q]
                PROVE  queries[i] \in Immediate
    BY DEF IInv
  <2>1. /\ DOMAIN queries = 1 .. Len(queries) /\ Len(queries) \in Nat
        /\ \A k \in DOMAIN queries : queries[k] \in Queries
    BY LenProperties DEF TypeOK
  <2>2. q \in Queries /\ q \notin Immediate
    BY DEF Consumed
  <2>3. ASSUME NEW r \in Queries, NEW step \in Steps, Goto(r, step)
        PROVE  r = q /\ step = "selected"
    BY <2>2, <2>3 DEF Goto, TypeOK
  <2>4. ~UNCHANGED pc
    OBVIOUS
  <2>5. ASSUME NEW r \in Queries, Arrive(r) \/ Process(r) \/ Timeout(r)
        PROVE  FALSE
    BY <2>2, <2>3, <2>5
    DEF Steps, Process, Arrive, AddQuery, EnterNow, AcquireSession, RunPipeline, PipelineEnded,
        Finish, Timeout, Abandoned, Interrupted
  <2>6. Select
    BY <2>4, <2>5 DEF Next, Consume, Sleep
  <2>7. PICK k \in DOMAIN queries : FirstEligible(k) /\ Goto(queries[k], "selected")
    BY <2>6, Zenon DEF Select
  <2>8. queries[k] = q
    BY <2>1, <2>3, <2>7 DEF Steps
  <2>9. k = j
    BY <2>8 DEF Pooled
  <2>10. ~Eligible(queries[i]) /\ Eligible(q)
    BY <2>1, <2>7, <2>8, <2>9 DEF FirstEligible
  <2>. QED
    BY <2>1, <2>10 DEF Eligible, Consumed
<1>2. Spec => []Pooled
  BY InitPooled, NextPooled, IInvAlways, PTL DEF Spec
<1>3. Spec => [][InOrder]_vars
  BY <1>1, <1>2, IInvAlways, PTL DEF Spec
<1>. QED
  BY <1>3 DEF SessionOrder

-----------------------------------------------------------------------------
(* Messages and their queries *)

Timers == \A s \in Sessions : timer[s] <=> buffer[s] # <<>>

\* A buffer holds messages of its conversation.
OwnSession == \A s \in Sessions : \A i \in DOMAIN buffer[s] : SessionOf[buffer[s][i]] = s

\* A query that has not arrived is made of nothing yet.
NotMade == \A q \in Queries : pc[q] = "absent" => parts[q] = <<>>

\* InOnePlace, without the cardinality.
OneHolder ==
  \A m \in Buffered : \A q, r \in Queries : In(m, parts[q]) /\ In(m, parts[r]) => q = r

NotBoth ==
  \A m \in Buffered : \A q \in Queries : In(m, parts[q]) => ~In(m, buffer[SessionOf[m]])

ChatInv ==
  /\ buffer \in [Sessions -> Seq(Buffered)] /\ timer \in [Sessions -> BOOLEAN]
  /\ parts \in [Queries -> Seq(Queries)]
  /\ Timers /\ OwnSession /\ NotMade /\ OneHolder /\ NotBoth

LEMMA InitChatInv == ChatInit => ChatInv
<1>. SUFFICES ASSUME ChatInit PROVE ChatInv
  OBVIOUS
<1>1. timer \in [Sessions -> BOOLEAN]
  BY DEF ChatInit
<1>2. buffer \in [Sessions -> Seq(Buffered)] /\ parts \in [Queries -> Seq(Queries)]
  BY DEF ChatInit
<1>3. Timers /\ OwnSession /\ NotMade
  BY DEF ChatInit, Timers, OwnSession, NotMade
<1>4. OneHolder /\ NotBoth
  BY DEF ChatInit, OneHolder, NotBoth, In
<1>. QED
  BY <1>1, <1>2, <1>3, <1>4 DEF ChatInv

\* A query that has arrived does not go back.
LEMMA StaysMade ==
  ASSUME TypeOK, NotMade, UNCHANGED parts, [Next]_vars
  PROVE  NotMade'
<1>1. ASSUME NEW q \in Queries, pc'[q] = "absent" PROVE pc[q] = "absent"
  <2>1. CASE Select
    <3>1. PICK i \in DOMAIN queries : Goto(queries[i], "selected")
      BY <2>1, Zenon DEF Select
    <3>. QED
      BY <1>1, <3>1 DEF Goto, TypeOK
  <2>. QED
    BY <1>1, <2>1
       DEF TypeOK, Next, Consume, Sleep, Process, Arrive, AddQuery, EnterNow, AcquireSession, RunPipeline,
           PipelineEnded, Finish, Timeout, Abandoned, Interrupted, Goto, vars
<1>. QED
  BY <1>1 DEF NotMade

\* A query is made of messages that wait in the buffer, or have just come.
LEMMA FlushKeepsInv ==
  ASSUME TypeOK, ChatInv, NEW s \in Sessions, NEW messages \in Seq(Buffered), messages # <<>>,
         \A i \in DOMAIN messages : SessionOf[messages[i]] = s,
         \A i \in DOMAIN messages : \A q \in Queries : ~In(messages[i], parts[q]),
         Flush(s, messages)
  PROVE  ChatInv' /\ [Next]_vars
<1> DEFINE h == Head(messages)
<1>1. h \in Buffered /\ h \in Queries /\ messages \in Seq(Queries)
  BY BufferAssumption DEF Consumed
<1>2. pc[h] = "absent" /\ pc' = [pc EXCEPT ![h] = "adding"] /\ Arrive(h)
  BY DEF Flush, Arrive, Goto
<1>3. buffer' = [buffer EXCEPT ![s] = <<>>] /\ timer' = [timer EXCEPT ![s] = FALSE]
      /\ parts' = [parts EXCEPT ![h] = messages]
  BY DEF Flush, Popped
<1>4. buffer' \in [Sessions -> Seq(Buffered)]
  BY <1>3 DEF ChatInv
<1>5. timer' \in [Sessions -> BOOLEAN] /\ parts' \in [Queries -> Seq(Queries)]
  BY <1>1, <1>3 DEF ChatInv
<1>6. Timers' /\ OwnSession'
  BY <1>3 DEF ChatInv, Timers, OwnSession
<1>7. NotMade'
  BY <1>1, <1>2, <1>3 DEF ChatInv, NotMade, TypeOK
<1>8. OneHolder'
  <2>. SUFFICES ASSUME NEW m \in Buffered, NEW q \in Queries, NEW r \in Queries,
                       In(m, parts'[q]), In(m, parts'[r]), r # h
                PROVE  q = r
    BY <1>1 DEF OneHolder, In
  <2>1. In(m, parts[r])
    BY <1>1, <1>3 DEF ChatInv
  <2>2. ~In(m, messages)
    BY <2>1 DEF In
  <2>3. q # h
    BY <1>1, <1>3, <2>2 DEF ChatInv
  <2>4. In(m, parts[q])
    BY <1>1, <1>3, <2>3 DEF ChatInv
  <2>. QED
    BY <2>1, <2>4 DEF ChatInv, OneHolder
<1>9. NotBoth'
  <2>. SUFFICES ASSUME NEW m \in Buffered, NEW q \in Queries, In(m, parts'[q])
                PROVE  ~In(m, buffer'[SessionOf[m]])
    BY DEF NotBoth, In
  <2>1. CASE q = h
    <3>1. SessionOf[m] = s
      BY <1>1, <1>3, <2>1 DEF ChatInv, In
    <3>. QED
      BY <1>3, <3>1 DEF ChatInv, In
  <2>2. CASE q # h
    <3>1. In(m, parts[q])
      BY <1>1, <1>3, <2>2 DEF ChatInv
    <3>2. ~In(m, buffer[SessionOf[m]])
      BY <3>1 DEF ChatInv, NotBoth
    <3>. QED
      BY <1>3, <3>2 DEF ChatInv, In
  <2>. QED
    BY <2>1, <2>2
<1>. QED
  BY <1>1, <1>2, <1>4, <1>5, <1>6, <1>7, <1>8, <1>9 DEF ChatInv, Next

LEMMA AddMessageKeepsInv ==
  ASSUME TypeOK, ChatInv, NEW m \in Queries, AddMessage(m)
  PROVE  ChatInv' /\ [Next]_vars
<1> DEFINE s == SessionOf[m]
           messages == Append(buffer[s], m)
<1>1. m \in Buffered /\ s \in Sessions /\ ~In(m, buffer[s]) /\ \A q \in Queries : ~In(m, parts[q])
  BY DEF AddMessage, Received, Holders, Sessions
<1>2. buffer[s] \in Seq(Buffered)
  BY <1>1 DEF ChatInv
<1>3. messages \in Seq(Buffered) /\ messages # <<>>
      /\ DOMAIN messages = 1 .. Len(buffer[s]) + 1 /\ DOMAIN buffer[s] = 1 .. Len(buffer[s])
      /\ messages[Len(buffer[s]) + 1] = m
      /\ \A i \in DOMAIN buffer[s] : messages[i] = buffer[s][i]
  BY <1>1, <1>2
<1>4. Len(buffer[s]) \in Nat
  BY <1>2
<1>5. \A i \in DOMAIN messages : messages[i] = m \/ \E j \in DOMAIN buffer[s] : messages[i] = buffer[s][j]
  BY <1>3, <1>4
<1>6. \A i \in DOMAIN messages : SessionOf[messages[i]] = s
  BY <1>1, <1>5 DEF ChatInv, OwnSession
<1>7. CASE Flush(s, messages)
  <2>1. \A i \in DOMAIN messages : \A q \in Queries : ~In(messages[i], parts[q])
    <3>. SUFFICES ASSUME NEW i \in DOMAIN messages, NEW q \in Queries, In(messages[i], parts[q])
                  PROVE  FALSE
      OBVIOUS
    <3>1. PICK j \in DOMAIN buffer[s] : messages[i] = buffer[s][j]
      BY <1>1, <1>5
    <3>2. messages[i] \in Buffered /\ SessionOf[messages[i]] = s /\ In(messages[i], buffer[s])
      BY <1>3, <1>6, <3>1 DEF In
    <3>. QED
      BY <3>2 DEF ChatInv, NotBoth
  <2>. QED
    BY <1>1, <1>3, <1>6, <1>7, <2>1, FlushKeepsInv
<1>8. CASE /\ buffer' = [buffer EXCEPT ![s] = messages]
           /\ timer' = Restarted(s)
           /\ UNCHANGED <<vars, parts>>
  <2>1. buffer' \in [Sessions -> Seq(Buffered)]
    BY <1>1, <1>3, <1>8 DEF ChatInv
  <2>2. timer' \in [Sessions -> BOOLEAN] /\ parts' \in [Queries -> Seq(Queries)]
    BY <1>8 DEF ChatInv, Restarted
  <2>3. Timers' /\ OwnSession'
    BY <1>1, <1>3, <1>6, <1>8 DEF ChatInv, Timers, OwnSession, Restarted
  <2>4. NotMade' /\ OneHolder'
    BY <1>8 DEF ChatInv, NotMade, OneHolder, vars
  <2>5. NotBoth'
    <3>. SUFFICES ASSUME NEW x \in Buffered, NEW q \in Queries, In(x, parts[q]), In(x, buffer'[SessionOf[x]])
                  PROVE  FALSE
      BY <1>8 DEF NotBoth
    <3>1. ~In(x, buffer[SessionOf[x]])
      BY DEF ChatInv, NotBoth
    <3>2. SessionOf[x] = s /\ In(x, messages)
      BY <1>1, <1>8, <3>1 DEF ChatInv
    <3>3. x = m
      BY <1>5, <3>1, <3>2 DEF In
    <3>. QED
      BY <1>1, <3>3
  <2>. QED
    BY <1>8, <2>1, <2>2, <2>3, <2>4, <2>5 DEF ChatInv, vars
<1>. QED
  BY <1>7, <1>8 DEF AddMessage

LEMMA NextChatInv == TypeOK /\ ChatInv /\ [ChatNext]_chatVars => ChatInv' /\ [Next]_vars
<1> SUFFICES ASSUME TypeOK, ChatInv, [ChatNext]_chatVars PROVE ChatInv' /\ [Next]_vars
  OBVIOUS
<1>1. ASSUME NEW m \in Queries, AddMessage(m) PROVE ChatInv' /\ [Next]_vars
  BY <1>1, AddMessageKeepsInv
<1>2. ASSUME NEW m \in Queries, PassOn(m) PROVE ChatInv' /\ [Next]_vars
  <2>1. m \notin Buffered /\ pc' = [pc EXCEPT ![m] = "adding"] /\ parts' = [parts EXCEPT ![m] = <<m>>]
        /\ UNCHANGED <<buffer, timer>> /\ Arrive(m) /\ parts[m] = <<>>
    BY <1>2 DEF PassOn, Arrive, Goto, ChatInv, NotMade
  <2>2. parts' \in [Queries -> Seq(Queries)]
    BY <2>1 DEF ChatInv
  <2>3. NotMade'
    BY <2>1 DEF ChatInv, NotMade, TypeOK
  <2>4. \A x \in Buffered : \A q \in Queries : In(x, parts'[q]) => In(x, parts[q])
    BY <2>1 DEF ChatInv, In
  <2>5. OneHolder' /\ NotBoth'
    BY <2>1, <2>4 DEF ChatInv, OneHolder, NotBoth
  <2>6. Timers' /\ OwnSession'
    BY <2>1 DEF ChatInv, Timers, OwnSession
  <2>. QED
    BY <2>1, <2>2, <2>3, <2>5, <2>6 DEF ChatInv, Next
<1>3. ASSUME NEW s \in Sessions, TimerFires(s) PROVE ChatInv' /\ [Next]_vars
  <2>1. buffer[s] \in Seq(Buffered) /\ buffer[s] # <<>> /\ Flush(s, buffer[s])
    BY <1>3 DEF TimerFires, ChatInv, Timers
  <2>2. ASSUME NEW i \in DOMAIN buffer[s]
        PROVE  SessionOf[buffer[s][i]] = s /\ \A q \in Queries : ~In(buffer[s][i], parts[q])
    <3>1. SessionOf[buffer[s][i]] = s /\ buffer[s][i] \in Buffered /\ In(buffer[s][i], buffer[s])
      BY <2>1 DEF ChatInv, OwnSession, In
    <3>. QED
      BY <3>1 DEF ChatInv, NotBoth
  <2>. QED
    BY <2>1, <2>2, FlushKeepsInv
<1>4. CASE Dispatch \/ UNCHANGED chatVars
  <2>1. UNCHANGED <<buffer, timer, parts>> /\ [Next]_vars
    BY <1>4 DEF Dispatch, Next, chatVars
  <2>2. NotMade'
    BY <2>1, StaysMade DEF ChatInv
  <2>. QED
    BY <2>1, <2>2 DEF ChatInv, Timers, OwnSession, OneHolder, NotBoth
<1>. QED
  BY <1>1, <1>2, <1>3, <1>4 DEF ChatNext

LEMMA ChatInvAlways == ChatSpec => [](IInv /\ ChatInv)
<1>1. IInv /\ ChatInv /\ [ChatNext]_chatVars => IInv' /\ ChatInv'
  BY NextChatInv, NextIInv DEF IInv
<1>2. ChatInit => IInv /\ ChatInv
  BY InitChatInv, InitIInv DEF ChatInit
<1>. QED
  BY <1>1, <1>2, PTL DEF ChatSpec

\* What the aggregator sends is handled by the dispatch as any query is: every
\* theorem above holds of the whole way of a message.
THEOREM ChatImplementsDispatch == ChatSpec => Spec
<1>1. IInv /\ ChatInv /\ [ChatNext]_chatVars => [Next]_vars
  BY NextChatInv DEF IInv
<1>2. ChatInit => Init
  BY DEF ChatInit
<1>. QED
  BY <1>1, <1>2, ChatInvAlways, PTL DEF ChatSpec, Spec

\* The variables of the aggregator and of the dispatch keep their types.
THEOREM ChatTypeCorrect == ChatSpec => []ChatTypeOK
<1>1. IInv /\ ChatInv => ChatTypeOK
  BY DEF IInv, ChatInv, ChatTypeOK
<1>. QED
  BY <1>1, ChatInvAlways, PTL

\* A message is in the buffer of its conversation or in one query.
THEOREM NoMessageTwice == ChatSpec => []InOnePlace
<1>1. ChatInv => InOnePlace
  <2>. SUFFICES ASSUME ChatInv, NEW m \in Buffered
                PROVE  /\ Cardinality(Holders(m)) <= 1
                       /\ Holders(m) # {} => ~In(m, buffer[SessionOf[m]])
    BY DEF InOnePlace
  <2>1. \A q, r \in Holders(m) : q = r
    BY DEF ChatInv, OneHolder, Holders
  <2>2. Cardinality(Holders(m)) <= 1
    <3>1. CASE Holders(m) = {}
      BY <3>1, FS_EmptySet
    <3>2. CASE Holders(m) # {}
      <4>1. PICK q : Holders(m) = {q}
        BY <2>1, <3>2
      <4>2. Cardinality(Holders(m)) = 1
        BY <4>1, FS_Singleton, Zenon
      <4>. QED
        BY <4>2
    <3>. QED
      BY <3>1, <3>2
  <2>3. Holders(m) # {} => ~In(m, buffer[SessionOf[m]])
    BY DEF ChatInv, NotBoth, Holders
  <2>. QED
    BY <2>2, <2>3
<1>. QED
  BY <1>1, ChatInvAlways, PTL

\* What waits in a buffer has a timer.
THEOREM NothingWaitsForEver == ChatSpec => []FlushScheduled
<1>1. ChatInv => FlushScheduled
  BY DEF ChatInv, Timers, FlushScheduled
<1>. QED
  BY <1>1, ChatInvAlways, PTL
=============================================================================
