-------------------------- MODULE RuntimeHost_proofs --------------------------
(***************************************************************************)
(* Proofs about the runtime's task host, for every set of requests: its    *)
(* lanes are exclusive, in order and never stuck, and it keeps the         *)
(* contract that BroadcastExecution is composed with.                      *)
(*                                                                         *)
(* None of this is inductive by itself.  The next task of a lane may start *)
(* because only tasks of that lane are in its queue; the outcome recorded  *)
(* for a task is the one the contract allows because the registry, the     *)
(* queue and the runner agree on where the task is.  IInv says how.        *)
(***************************************************************************)
EXTENDS RuntimeHost, SequenceLemmas

Working == {"prepare", "ready", "entered"}

\* The registry and the runner agree.
Agree ==
  \A k \in Keys :
    /\ stat[k] = "running" <=> phase[k] \in Working
    /\ phase[k] = "finally" => stat[k] \in Ends
    /\ phase[k] \in {"ready", "entered"} => k \in SendKeys

\* The registry and the queues agree.
Queues ==
  /\ \A l \in Lanes : \A i \in DOMAIN queued[l] :
       LaneOf(queued[l][i]) = l /\ stat[queued[l][i]] = "queued"
  /\ \A k \in Keys : stat[k] = "queued" =>
       k \in requests /\ \E i \in DOMAIN queued[LaneOf(k)] : queued[LaneOf(k)][i] = k

\* A task waits at one place.
OnePlace == \A l \in Lanes : \A i, j \in DOMAIN queued[l] : queued[l][i] = queued[l][j] => i = j

\* Who occupies a lane is being executed, who waits does so for him, and after
\* shutdown nobody waits.
Occupied ==
  \A l \in Lanes :
    /\ active[l] # None => LaneOf(active[l]) = l /\ Executing(active[l])
    /\ queued[l] # <<>> => active[l] # None /\ ~shuttingDown

IInv == TypeOK /\ Agree /\ Queues /\ OnePlace /\ Occupied /\ LaneExclusive

-----------------------------------------------------------------------------
\* Every task has a lane.
LEMMA LaneType == \A k : LaneOf(k) \in Lanes
BY DEF LaneOf, Lanes

\* The invariant holds of a host that has just been constructed.
LEMMA InitIInv == Init => IInv
<1>. SUFFICES ASSUME Init PROVE IInv
  OBVIOUS
<1>1. TypeOK
  <2>1. <<>> \in Seq(Keys)
    BY EmptySeq
  <2>2. stat \in [Keys -> {"none"} \cup Active \cup Ends] /\ phase \in [Keys -> Phases]
    BY DEF Init, Phases
  <2>. QED
    BY <2>1, <2>2 DEF Init, TypeOK
<1>2. Agree /\ LaneExclusive
  BY LaneType DEF Init, Agree, LaneExclusive, Executing, Working
<1>3. Queues /\ OnePlace /\ Occupied
  BY LaneType DEF Init, Queues, OnePlace, Occupied
<1>. QED
  BY <1>1, <1>2, <1>3 DEF IInv

-----------------------------------------------------------------------------
(* One step *)

\* createTask keeps the invariant.
LEMMA CreateTaskStep ==
  ASSUME IInv, NEW k \in Keys, CreateTask(k)
  PROVE  IInv'
<1>. DEFINE l == LaneOf(k)
<1>0. l \in Lanes
  BY LaneType
<1>. USE DEF IInv
<1>1. CASE LaneFree(l)
  <2>1. /\ active' = [active EXCEPT ![l] = k]
        /\ stat' = [stat EXCEPT ![k] = "running"]
        /\ phase' = [phase EXCEPT ![k] = "prepare"]
        /\ requests' = requests \cup {k}
        /\ UNCHANGED <<queued, flagged, shuttingDown>>
        /\ stat[k] = "none" /\ active[l] = None
    BY <1>1 DEF CreateTask, LaneFree
  <2>2. TypeOK'
    <3>1. arrived' \in [Lanes -> Seq(Keys)]
      BY <1>0, AppendProperties DEF CreateTask, TypeOK
    <3>. QED
      BY <2>1, <3>1 DEF TypeOK, Active, Phases
  <2>3. Agree'
    BY <2>1 DEF TypeOK, Agree, Working
  <2>4. Queues' /\ OnePlace'
    BY <2>1, LaneType DEF TypeOK, Queues, OnePlace
  <2>5. Occupied'
    BY <2>1, <1>0, KeyAssumption, LaneType DEF TypeOK, Occupied, Executing
  <2>6. LaneExclusive'
    BY <2>1, <1>0, KeyAssumption, LaneType DEF TypeOK, LaneExclusive, Executing
  <2>. QED
    BY <2>2, <2>3, <2>4, <2>5, <2>6
<1>2. CASE ~LaneFree(l)
  <2>1. /\ queued' = [queued EXCEPT ![l] = Append(@, k)]
        /\ stat' = [stat EXCEPT ![k] = "queued"]
        /\ requests' = requests \cup {k}
        /\ UNCHANGED <<active, phase, flagged, shuttingDown>>
        /\ stat[k] = "none" /\ active[l] # None /\ ~shuttingDown
    BY <1>2 DEF CreateTask, LaneFree, Admitted
  <2>2. TypeOK'
    <3>1. arrived' \in [Lanes -> Seq(Keys)] /\ queued' \in [Lanes -> Seq(Keys)]
      BY <2>1, <1>0, AppendProperties DEF CreateTask, TypeOK
    <3>. QED
      BY <2>1, <3>1 DEF TypeOK, Active
  <2>3. Agree'
    <3>1. phase[k] = "idle"
      BY <2>1 DEF TypeOK, Agree, Working, Phases, Ends
    <3>. QED
      BY <2>1, <3>1 DEF TypeOK, Agree, Working
  <2>4. /\ DOMAIN queued[l] = 1 .. Len(queued[l]) /\ Len(queued[l]) \in Nat
        /\ DOMAIN queued'[l] = 1 .. Len(queued[l]) + 1
        /\ \A i \in 1 .. Len(queued[l]) : queued'[l][i] = queued[l][i]
        /\ queued'[l][Len(queued[l]) + 1] = k
    BY <2>1, <1>0, AppendProperties, LenProperties DEF TypeOK
  <2>5. \A m \in Lanes \ {l} : queued'[m] = queued[m]
    BY <2>1 DEF TypeOK
  <2>6. \A i \in DOMAIN queued[l] : queued[l][i] # k
    BY <2>1, <1>0 DEF Queues
  <2>7. Queues'
    <3>1. ASSUME NEW m \in Lanes, NEW i \in DOMAIN queued'[m]
          PROVE  LaneOf(queued'[m][i]) = m /\ stat'[queued'[m][i]] = "queued"
      <4>1. CASE m = l /\ i = Len(queued[l]) + 1
        BY <4>1, <2>1, <2>4 DEF TypeOK
      <4>2. CASE m = l /\ i # Len(queued[l]) + 1
        <5>1. i \in DOMAIN queued[l] /\ queued'[l][i] = queued[l][i]
          BY <4>2, <2>4
        <5>2. queued[l][i] \in Keys
          BY <1>0, <5>1, LenProperties DEF TypeOK
        <5>. QED
          BY <4>2, <5>1, <5>2, <1>0, <2>1 DEF TypeOK, Queues
      <4>3. CASE m # l
        <5>1. queued[m][i] \in Keys
          BY <4>3, <2>5, LenProperties DEF TypeOK
        <5>. QED
          BY <4>3, <5>1, <2>1, <2>5 DEF TypeOK, Queues
      <4>. QED
        BY <4>1, <4>2, <4>3
    <3>2. ASSUME NEW h \in Keys, stat'[h] = "queued"
          PROVE  h \in requests' /\ \E i \in DOMAIN queued'[LaneOf(h)] : queued'[LaneOf(h)][i] = h
      <4>1. CASE h = k
        BY <4>1, <2>1, <2>4
      <4>2. CASE h # k
        <5>1. /\ h \in requests
              /\ \E i \in DOMAIN queued[LaneOf(h)] : queued[LaneOf(h)][i] = h
          BY <3>2, <4>2, <2>1 DEF TypeOK, Queues
        <5>. QED
          BY <5>1, <2>1, <2>4, <2>5, LaneType
      <4>. QED
        BY <4>1, <4>2
    <3>. QED
      BY <3>1, <3>2 DEF Queues
  <2>8. OnePlace'
    <3>. SUFFICES ASSUME NEW m \in Lanes, NEW i \in DOMAIN queued'[m], NEW j \in DOMAIN queued'[m],
                         queued'[m][i] = queued'[m][j]
                  PROVE  i = j
      BY DEF OnePlace
    <3>1. CASE m = l
      BY <3>1, <2>4, <2>6, <1>0 DEF OnePlace
    <3>2. CASE m # l
      BY <3>2, <2>5 DEF OnePlace
    <3>. QED
      BY <3>1, <3>2
  <2>9. Occupied' /\ LaneExclusive'
    BY <2>1, <2>5 DEF Occupied, LaneExclusive, Executing
  <2>. QED
    BY <2>2, <2>3, <2>7, <2>8, <2>9
<1>. QED
  BY <1>1, <1>2

\* A task leaves its queue when its status says so, and the others stay.
LEMMA LeavesQueue ==
  ASSUME IInv, NEW l \in Lanes, NEW i \in DOMAIN queued[l],
         queued' = [queued EXCEPT ![l] = RemoveAt(@, i)],
         stat'[queued[l][i]] # "queued",
         \A k \in Keys \ {queued[l][i]} : stat'[k] = "queued" <=> stat[k] = "queued",
         \A k \in Keys : stat[k] = "queued" /\ k # queued[l][i] => k \in requests'
  PROVE  queued' \in [Lanes -> Seq(Keys)] /\ Queues' /\ OnePlace'
<1>. USE DEF IInv
<1>. DEFINE x == queued[l][i]
            r == RemoveAt(queued[l], i)
<1>1. queued[l] \in Seq(Keys)
  BY DEF TypeOK
<1>2. queued'[l] = r /\ \A m \in Lanes \ {l} : queued'[m] = queued[m]
  BY DEF TypeOK
<1>3. r \in Seq(Keys) /\ \A k \in DOMAIN r : \E j \in DOMAIN queued[l] : r[k] = queued[l][j]
  BY <1>1, RemoveAtRemains, RemoveAtSubset
<1>4. /\ \A k, h \in DOMAIN r : r[k] = r[h] => k = h
      /\ \A k \in DOMAIN r : r[k] # x
      /\ \A j \in DOMAIN queued[l] \ {i} : \E k \in DOMAIN r : r[k] = queued[l][j]
  BY <1>1, RemoveAtDistinct DEF OnePlace
<1>. HIDE DEF r
<1>5. queued' \in [Lanes -> Seq(Keys)]
  BY <1>2, <1>3 DEF TypeOK
<1>6. OnePlace'
  <2>. SUFFICES ASSUME NEW m \in Lanes, NEW j \in DOMAIN queued'[m], NEW n \in DOMAIN queued'[m],
                       queued'[m][j] = queued'[m][n]
                PROVE  j = n
    BY DEF OnePlace
  <2>1. CASE m = l
    BY <2>1, <1>2, <1>4
  <2>2. CASE m # l
    BY <2>2, <1>2 DEF OnePlace
  <2>. QED
    BY <2>1, <2>2
<1>7. ASSUME NEW m \in Lanes, NEW j \in DOMAIN queued'[m]
      PROVE  LaneOf(queued'[m][j]) = m /\ stat'[queued'[m][j]] = "queued"
  <2>1. PICK n \in DOMAIN queued[m] : queued'[m][j] = queued[m][n]
    BY <1>2, <1>3
  <2>2. queued[m][n] \in Keys
    BY LenProperties DEF TypeOK
  <2>3. LaneOf(queued[m][n]) = m /\ stat[queued[m][n]] = "queued" /\ LaneOf(x) = l
    BY DEF Queues
  <2>4. queued'[m][j] # x
    <3>1. CASE m = l
      BY <3>1, <1>2, <1>4
    <3>2. CASE m # l
      BY <3>2, <2>1, <2>3
    <3>. QED
      BY <3>1, <3>2
  <2>. QED
    BY <2>1, <2>2, <2>3, <2>4
<1>8. ASSUME NEW k \in Keys, stat'[k] = "queued"
      PROVE  k \in requests' /\ \E j \in DOMAIN queued'[LaneOf(k)] : queued'[LaneOf(k)][j] = k
  <2>1. k # x /\ stat[k] = "queued" /\ k \in requests'
    BY <1>8
  <2>2. PICK n \in DOMAIN queued[LaneOf(k)] : queued[LaneOf(k)][n] = k
    BY <2>1 DEF Queues
  <2>3. CASE LaneOf(k) = l
    <3>1. n \in DOMAIN queued[l] \ {i} /\ queued[l][n] = k
      BY <2>1, <2>2, <2>3
    <3>2. \E j \in DOMAIN r : r[j] = k
      BY <3>1, <1>4
    <3>. QED
      BY <2>1, <2>3, <3>2, <1>2
  <2>4. CASE LaneOf(k) # l
    BY <2>1, <2>2, <2>4, <1>2, LaneType
  <2>. QED
    BY <2>3, <2>4
<1>. QED
  BY <1>5, <1>6, <1>7, <1>8 DEF Queues

\* What Finally does, with and without another task in the lane.
LEMMA FinallyLast ==
  ASSUME IInv, NEW k \in Keys, Finally(k), queued[LaneOf(k)] = <<>>
  PROVE  /\ active[LaneOf(k)] = k /\ active' = [active EXCEPT ![LaneOf(k)] = None]
         /\ phase' = [phase EXCEPT ![k] = "idle"]
         /\ UNCHANGED <<stat, queued>>
<1>1. active[LaneOf(k)] = k
  BY DEF IInv, LaneExclusive, Executing, Finally
<1>. QED
  BY <1>1 DEF Finally

LEMMA FinallyNext ==
  ASSUME IInv, NEW k \in Keys, Finally(k), queued[LaneOf(k)] # <<>>
  PROVE  LET l == LaneOf(k)
             x == queued[l][1]
         IN  /\ 1 \in DOMAIN queued[l] /\ ~shuttingDown
             /\ x \in Keys /\ x # k /\ LaneOf(x) = l /\ stat[x] = "queued"
             /\ active[l] = k /\ active' = [active EXCEPT ![l] = x]
             /\ queued' = [queued EXCEPT ![l] = RemoveAt(@, 1)]
             /\ \E drop \in BOOLEAN :
                  /\ stat' = [stat EXCEPT ![x] = IF drop THEN "cancelled" ELSE "running"]
                  /\ phase' = [phase EXCEPT ![k] = "idle",
                                            ![x] = IF drop THEN "finally" ELSE "prepare"]
<1>. DEFINE l == LaneOf(k)
            x == queued[l][1]
<1>1. active[l] = k
  BY DEF IInv, LaneExclusive, Executing, Finally
<1>2. 1 \in DOMAIN queued[l] /\ x \in Keys
  BY EmptySeq, LenProperties, LaneType DEF IInv, TypeOK
<1>3. LaneOf(x) = l /\ stat[x] = "queued" /\ x \in requests
  BY <1>2, LaneType DEF IInv, Queues
<1>4. stat[k] \in Ends /\ ~shuttingDown
  BY LaneType DEF IInv, Agree, Occupied, Finally
<1>5. x # k
  BY <1>3, <1>4 DEF Ends
<1>6. StartAfter(k, x)
  BY <1>1, <1>4 DEF Finally, NextInLane
<1>7. active' = [active EXCEPT ![l] = x] /\ queued' = [queued EXCEPT ![l] = RemoveAt(@, 1)]
  BY <1>1 DEF Finally, NextInLane
<1>8. \E drop \in BOOLEAN :
        /\ stat' = [stat EXCEPT ![x] = IF drop THEN "cancelled" ELSE "running"]
        /\ phase' = [phase EXCEPT ![k] = "idle", ![x] = IF drop THEN "finally" ELSE "prepare"]
  <2>. DEFINE drop == x \in flagged \ {k} \/ stat[x] = "cancelled"
  <2>1. drop \in BOOLEAN
    OBVIOUS
  <2>. QED
    BY <1>3, <1>6, <2>1 DEF StartAfter
<1>. QED
  BY <1>1, <1>2, <1>3, <1>4, <1>5, <1>7, <1>8

\* The end of a task keeps the invariant, whether or not it starts another one.
LEMMA FinallyStep ==
  ASSUME IInv, NEW k \in Keys, Finally(k)
  PROVE  IInv'
<1>. DEFINE l == LaneOf(k)
            x == queued[l][1]
<1>0. /\ l \in Lanes
      /\ phase[k] = "finally" /\ stat[k] \in Ends
      /\ flagged' = flagged \ {k} /\ requests' = requests \ {k}
      /\ UNCHANGED <<shuttingDown, arrived>>
  BY LaneType DEF IInv, Agree, Finally
<1>1. CASE queued[l] = <<>>
  <2>1. /\ active[l] = k /\ active' = [active EXCEPT ![l] = None]
        /\ phase' = [phase EXCEPT ![k] = "idle"]
        /\ UNCHANGED <<stat, queued>>
    BY <1>1, FinallyLast
  <2>2. TypeOK'
    BY <1>0, <2>1 DEF IInv, TypeOK, Phases
  <2>3. Agree' /\ OnePlace'
    BY <1>0, <2>1 DEF IInv, TypeOK, Agree, OnePlace, Working, Ends
  <2>4. Queues'
    BY <1>0, <2>1 DEF IInv, Queues, Ends
  <2>5. Occupied' /\ LaneExclusive'
    BY <1>0, <1>1, <2>1, KeyAssumption, LaneType
    DEF IInv, TypeOK, Occupied, LaneExclusive, Executing
  <2>. QED
    BY <2>2, <2>3, <2>4, <2>5 DEF IInv
<1>2. CASE queued[l] # <<>>
  <2>1. /\ 1 \in DOMAIN queued[l] /\ ~shuttingDown
        /\ x \in Keys /\ x # k /\ LaneOf(x) = l /\ stat[x] = "queued"
        /\ active[l] = k /\ active' = [active EXCEPT ![l] = x]
        /\ queued' = [queued EXCEPT ![l] = RemoveAt(@, 1)]
    BY <1>2, FinallyNext
  <2>2. PICK drop \in BOOLEAN :
          /\ stat' = [stat EXCEPT ![x] = IF drop THEN "cancelled" ELSE "running"]
          /\ phase' = [phase EXCEPT ![k] = "idle", ![x] = IF drop THEN "finally" ELSE "prepare"]
    BY <1>2, FinallyNext
  <2>3. /\ stat'[x] \in {"cancelled", "running"} /\ \A h \in Keys \ {x} : stat'[h] = stat[h]
        /\ stat'[x] = "running" <=> phase'[x] = "prepare"
        /\ phase'[x] \in {"finally", "prepare"} /\ phase'[k] = "idle"
        /\ \A h \in Keys \ {x, k} : phase'[h] = phase[h]
    BY <2>1, <2>2 DEF IInv, TypeOK
  <2>4. queued' \in [Lanes -> Seq(Keys)] /\ Queues' /\ OnePlace'
    <3>1. \A h \in Keys : stat[h] = "queued" /\ h # x => h \in requests'
      BY <1>0 DEF IInv, Queues, Ends
    <3>2. stat'[x] # "queued" /\ \A h \in Keys \ {x} : stat'[h] = "queued" <=> stat[h] = "queued"
      BY <2>3
    <3>. QED
      BY <1>0, <2>1, <3>1, <3>2, LeavesQueue, Zenon
  <2>5. TypeOK'
    BY <1>0, <2>1, <2>2, <2>4 DEF IInv, TypeOK, Active, Ends, Phases
  <2>6. Agree'
    BY <1>0, <2>1, <2>3 DEF IInv, Agree, Working, Ends
  <2>7. Occupied'
    <3>1. ASSUME NEW m \in Lanes \ {l}
          PROVE  /\ active'[m] = active[m] /\ queued'[m] = queued[m]
                 /\ active[m] # None => active[m] \in Keys \ {x, k}
      BY <1>0, <2>1 DEF IInv, TypeOK, Occupied
    <3>2. active'[l] = x /\ phase'[x] # "idle"
      BY <1>0, <2>1, <2>3 DEF IInv, TypeOK, Executing
    <3>3. ASSUME NEW m \in Lanes \ {l}
          PROVE  /\ active'[m] # None => LaneOf(active'[m]) = m /\ phase'[active'[m]] # "idle"
                 /\ queued'[m] # <<>> => active'[m] # None /\ ~shuttingDown'
      BY <1>0, <2>3, <3>1 DEF IInv, Occupied, Executing
    <3>. QED
      BY <1>0, <2>1, <3>2, <3>3, KeyAssumption DEF Occupied, Executing
  <2>8. LaneExclusive'
    BY <1>0, <2>1, <2>3, LaneType DEF IInv, TypeOK, LaneExclusive, Executing
  <2>. QED
    BY <2>4, <2>5, <2>6, <2>7, <2>8 DEF IInv
<1>. QED
  BY <1>1, <1>2

\* The cancellation of a task that waits, spelled out.
LEMMA CancelQueuedFacts ==
  ASSUME IInv, NEW k \in Keys, CancelTask(k), InQueue(k)
  PROVE  /\ stat[k] = "queued" /\ phase[k] = "idle"
         /\ stat' = [stat EXCEPT ![k] = "cancelled"]
         /\ requests' = requests \ {k}
         /\ \E i \in DOMAIN queued[LaneOf(k)] :
              /\ queued[LaneOf(k)][i] = k
              /\ queued' = [queued EXCEPT ![LaneOf(k)] = RemoveAt(@, i)]
         /\ UNCHANGED <<phase, active, flagged, shuttingDown, arrived>>
<1>. DEFINE i == CHOOSE n \in Positions(k) : TRUE
<1>1. i \in DOMAIN queued[LaneOf(k)] /\ queued[LaneOf(k)][i] = k
  BY DEF InQueue, Positions
<1>2. stat[k] = "queued"
  BY <1>1, LaneType DEF IInv, Queues
<1>3. phase[k] = "idle"
  BY <1>2 DEF IInv, TypeOK, Agree, Working, Phases, Ends
<1>. QED
  BY <1>1, <1>2, <1>3 DEF CancelTask, Unqueued

\* That of a task that is being executed: only the flag is set.
LEMMA CancelRunningFacts ==
  ASSUME IInv, NEW k \in Keys, CancelTask(k), ~InQueue(k)
  PROVE  /\ flagged' = flagged \cup {k}
         /\ UNCHANGED <<stat, queued, requests, phase, active, shuttingDown, arrived>>
<1>1. stat[k] = "running"
  BY DEF IInv, Queues, InQueue, Positions, CancelTask, Active
<1>2. stat' = stat
  BY <1>1 DEF IInv, TypeOK, CancelTask, Flag
<1>. QED
  BY <1>2 DEF CancelTask, Flag

\* cancelTask keeps the invariant.
LEMMA CancelTaskStep ==
  ASSUME IInv, NEW k \in Keys, CancelTask(k)
  PROVE  IInv'
<1>1. CASE InQueue(k)
  <2>1. /\ stat[k] = "queued" /\ phase[k] = "idle"
        /\ stat' = [stat EXCEPT ![k] = "cancelled"]
        /\ requests' = requests \ {k}
        /\ UNCHANGED <<phase, active, flagged, shuttingDown, arrived>>
    BY <1>1, CancelQueuedFacts
  <2>2. PICK i \in DOMAIN queued[LaneOf(k)] :
          /\ queued[LaneOf(k)][i] = k
          /\ queued' = [queued EXCEPT ![LaneOf(k)] = RemoveAt(@, i)]
    BY <1>1, CancelQueuedFacts
  <2>3. queued' \in [Lanes -> Seq(Keys)] /\ Queues' /\ OnePlace'
    <3>1. stat'[k] # "queued" /\ \A h \in Keys \ {k} : stat'[h] = "queued" <=> stat[h] = "queued"
      BY <2>1 DEF IInv, TypeOK
    <3>2. \A h \in Keys : stat[h] = "queued" /\ h # k => h \in requests'
      BY <2>1 DEF IInv, Queues
    <3>. QED
      BY <2>2, <3>1, <3>2, LaneType, LeavesQueue
  <2>4. TypeOK'
    BY <2>1, <2>3 DEF IInv, TypeOK, Ends
  <2>5. Agree'
    BY <2>1 DEF IInv, TypeOK, Agree, Working
  <2>6. Occupied'
    <3>1. \A l \in Lanes : queued'[l] # <<>> => queued[l] # <<>>
      BY <2>2, EmptySeq DEF IInv, TypeOK
    <3>. QED
      BY <2>1, <3>1 DEF IInv, Occupied, Executing
  <2>7. LaneExclusive'
    BY <2>1 DEF IInv, LaneExclusive, Executing
  <2>. QED
    BY <2>3, <2>4, <2>5, <2>6, <2>7 DEF IInv
<1>2. CASE ~InQueue(k)
  <2>1. /\ flagged' = flagged \cup {k}
        /\ UNCHANGED <<stat, queued, requests, phase, active, shuttingDown, arrived>>
    BY <1>2, CancelRunningFacts
  <2>. QED
    BY <2>1 DEF IInv, TypeOK, Agree, Queues, OnePlace, Occupied, LaneExclusive, Executing
<1>. QED
  BY <1>1, <1>2

\* shutdown keeps the invariant.
LEMMA ShutdownStep ==
  ASSUME IInv, Shutdown
  PROVE  IInv'
<1>. USE DEF IInv
<1>1. /\ \A l \in Lanes : queued'[l] = <<>>
      /\ \A k \in Keys : stat'[k] = IF stat[k] = "queued" THEN "interrupted" ELSE stat[k]
      /\ UNCHANGED <<phase, active, arrived>>
  BY DEF Shutdown, Waiting
<1>2. TypeOK'
  <2>1. queued' \in [Lanes -> Seq(Keys)]
    BY EmptySeq DEF Shutdown
  <2>2. stat' \in [Keys -> {"none"} \cup Active \cup Ends]
    BY DEF Shutdown, TypeOK, Waiting, Ends
  <2>. QED
    BY <2>1, <2>2 DEF Shutdown, TypeOK
<1>3. Agree'
  BY <1>1 DEF Agree, Ends, Working
<1>4. Queues' /\ OnePlace'
  BY <1>1, LaneType DEF Queues, OnePlace
<1>5. Occupied' /\ LaneExclusive'
  BY <1>1 DEF Occupied, LaneExclusive, Executing
<1>. QED
  BY <1>2, <1>3, <1>4, <1>5

\* A restart establishes it anew.
LEMMA RestartStep ==
  ASSUME Restart
  PROVE  IInv'
<1>1. TypeOK'
  <2>1. <<>> \in Seq(Keys)
    BY EmptySeq
  <2>2. /\ stat' \in [Keys -> {"none"} \cup Active \cup Ends] /\ phase' \in [Keys -> Phases]
        /\ queued' \in [Lanes -> Seq(Keys)] /\ arrived' \in [Lanes -> Seq(Keys)]
    BY <2>1 DEF Restart, Phases
  <2>. QED
    BY <2>2 DEF Restart, TypeOK
<1>2. Agree' /\ LaneExclusive'
  BY LaneType DEF Restart, Agree, LaneExclusive, Executing, Working
<1>3. Queues' /\ OnePlace' /\ Occupied'
  BY LaneType DEF Restart, Queues, OnePlace, Occupied
<1>. QED
  BY <1>1, <1>2, <1>3 DEF IInv

\* A step of the runner to the next phase, and to the end of the task.
LEMMA PhaseStep ==
  ASSUME IInv, NEW k \in Keys, Prepared(k) \/ PressEnter(k)
  PROVE  IInv'
<1>1. PICK p \in {"ready", "entered"} :
        phase' = [phase EXCEPT ![k] = p] /\ phase[k] \in Working /\ k \in SendKeys
  BY DEF Prepared, PressEnter, Working, IInv, Agree
<1>2. UNCHANGED <<stat, requests, flagged, active, queued, shuttingDown, arrived>>
  BY DEF Prepared, PressEnter, InRunner
<1>3. TypeOK' /\ Agree'
  BY <1>1, <1>2 DEF IInv, TypeOK, Phases, Agree, Working
<1>4. Occupied' /\ LaneExclusive'
  BY <1>1, <1>2 DEF IInv, TypeOK, Working, Occupied, LaneExclusive, Executing
<1>. QED
  BY <1>2, <1>3, <1>4 DEF IInv, Queues, OnePlace

LEMMA EndStep ==
  ASSUME IInv, NEW k \in Keys, NEW outcome \in Ends, phase[k] \in Working, EndTask(k, outcome)
  PROVE  IInv'
<1>1. /\ stat' = [stat EXCEPT ![k] = outcome] /\ phase' = [phase EXCEPT ![k] = "finally"]
      /\ UNCHANGED <<requests, flagged, active, queued, shuttingDown, arrived>>
      /\ stat[k] = "running" /\ outcome \notin Active
  BY DEF EndTask, InRunner, IInv, Agree, Ends, Active
<1>2. TypeOK' /\ Agree'
  BY <1>1 DEF IInv, TypeOK, Phases, Agree, Working, Active
<1>3. Occupied' /\ LaneExclusive'
  BY <1>1 DEF IInv, TypeOK, Working, Occupied, LaneExclusive, Executing
<1>4. Queues' /\ OnePlace'
  <2>1. \A l \in Lanes : \A i \in DOMAIN queued[l] : queued[l][i] \in Keys
    BY LenProperties DEF IInv, TypeOK
  <2>. QED
    BY <1>1, <2>1 DEF IInv, TypeOK, Queues, OnePlace, Active
<1>. QED
  BY <1>2, <1>3, <1>4 DEF IInv

\* How a task may end, by where it is in the runner.
LEMMA RunnerEnds ==
  ASSUME IInv, NEW k \in Keys, Fail(k) \/ CheckCancelled(k) \/ EndPaste(k) \/ EndSend(k)
  PROVE  \E outcome \in Ends :
           /\ EndTask(k, outcome)
           /\ \/ /\ phase[k] \in {"prepare", "ready"}
                 /\ k \in SendKeys => outcome \in {"failed", "cancelled", "refused"}
              \/ /\ phase[k] = "entered"
                 /\ \/ outcome \in {"unverified", "late_cancel"}
                    \/ PostSendVerify /\ outcome \in {"sent", "refused"}
<1>1. CASE Fail(k)
  BY <1>1 DEF Fail, Overridden, Ends
<1>2. CASE CheckCancelled(k)
  BY <1>2 DEF CheckCancelled, Ends
<1>3. CASE EndPaste(k)
  BY <1>3 DEF EndPaste, Overridden, Ends
<1>4. CASE EndSend(k)
  BY <1>4 DEF EndSend, Overridden, Ends
<1>. QED
  BY <1>1, <1>2, <1>3, <1>4

\* The invariant is inductive.
LEMMA NextIInv == IInv /\ [Next]_vars => IInv'
<1>. SUFFICES ASSUME IInv, [Next]_vars
              PROVE  IInv'
  OBVIOUS
<1>1. ASSUME NEW k \in Keys, Run(k)
      PROVE  IInv'
  <2>1. CASE Fail(k) \/ CheckCancelled(k) \/ EndPaste(k) \/ EndSend(k)
    <3>1. PICK outcome \in Ends : EndTask(k, outcome) /\ phase[k] \in Working
      BY <2>1, RunnerEnds DEF Working
    <3>. QED
      BY <3>1, EndStep
  <2>. QED
    BY <1>1, <2>1, PhaseStep, FinallyStep DEF Run
<1>2. CASE UNCHANGED vars
  BY <1>2 DEF vars, IInv, TypeOK, Agree, Queues, OnePlace, Occupied, LaneExclusive, Executing
<1>. QED
  BY <1>1, <1>2, CreateTaskStep, CancelTaskStep, ShutdownStep, RestartStep DEF Next

\* Hence it always holds.
LEMMA IInvAlways == Spec => []IInv
BY InitIInv, NextIInv, PTL DEF Spec

-----------------------------------------------------------------------------
(* Theorems *)

\* Every variable has its type; a cancellation never makes a status of its own
\* (RuntimeHost.cancelTask).
THEOREM TypeCorrect == Spec => []TypeOK
<1>1. IInv => TypeOK
  BY DEF IInv
<1>. QED
  BY <1>1, IInvAlways, PTL

\* In each lane at most one task drives the desktop, however tasks are
\* cancelled, fail or are interrupted (ExecutionLaneTaskQueue).
THEOREM LanesAreExclusive == Spec => []LaneExclusive
<1>1. IInv => LaneExclusive
  BY DEF IInv
<1>. QED
  BY <1>1, IInvAlways, PTL

\* A task waits only behind one that is being executed, and whose end will
\* start it (ExecutionLaneTaskQueue.finish, RuntimeHost.startNextTask).
THEOREM LanesAreServed == Spec => []LaneServed
<1>1. IInv => LaneServed
  <2>. SUFFICES ASSUME IInv, NEW l \in Lanes, queued[l] # <<>>
                PROVE  \E k \in Keys : LaneOf(k) = l /\ Executing(k)
    BY DEF LaneServed
  <2>1. active[l] \in Keys /\ LaneOf(active[l]) = l /\ Executing(active[l])
    BY DEF IInv, TypeOK, Occupied
  <2>. QED
    BY <2>1
<1>. QED
  BY <1>1, IInvAlways, PTL

-----------------------------------------------------------------------------
(* The order of a lane *)

\* arrived holds every task of the registry, in its lane.
Arrivals ==
  /\ \A l \in Lanes : \A p \in DOMAIN arrived[l] :
       stat[arrived[l][p]] # "none" /\ LaneOf(arrived[l][p]) = l
  /\ FirstCome

\* Those who wait do so in the order of arrival.
WaitInOrder ==
  \A l \in Lanes : \A i, j \in DOMAIN queued[l], p, q \in DOMAIN arrived[l] :
    i < j /\ arrived[l][p] = queued[l][i] /\ arrived[l][q] = queued[l][j] => p < q

OInv == Arrivals /\ WaitInOrder

\* A step that neither starts nor adds a task keeps the order of those who
\* remain.
LEMMA OrderKept ==
  ASSUME IInv, OInv, arrived' = arrived,
         \A k \in Keys : stat'[k] = "queued" => stat[k] = "queued",
         \A k \in Keys : stat'[k] = "none" => stat[k] = "none",
         \A k \in Keys : phase'[k] = "idle" \/ phase[k] # "idle",
         queued' = queued
  PROVE  OInv'
<1>1. \A l \in Lanes : \A p \in DOMAIN arrived[l] : arrived[l][p] \in Keys
  BY LenProperties DEF IInv, TypeOK
<1>2. FirstCome'
  BY <1>1 DEF OInv, Arrivals, FirstCome, Executing
<1>. QED
  BY <1>1, <1>2 DEF OInv, Arrivals, WaitInOrder

\* Nor does a task that leaves its queue disturb the order of the others.
LEMMA OrderRemoved ==
  ASSUME IInv, OInv, arrived' = arrived, NEW l \in Lanes, NEW n \in DOMAIN queued[l],
         queued' = [queued EXCEPT ![l] = RemoveAt(@, n)]
  PROVE  WaitInOrder'
<1>. SUFFICES ASSUME NEW m \in Lanes, NEW i \in DOMAIN queued'[m], NEW j \in DOMAIN queued'[m],
                     NEW p \in DOMAIN arrived[m], NEW q \in DOMAIN arrived[m], i < j,
                     arrived[m][p] = queued'[m][i], arrived[m][q] = queued'[m][j]
              PROVE  p < q
  BY DEF WaitInOrder
<1>1. queued[l] \in Seq(Keys) /\ queued'[l] = RemoveAt(queued[l], n)
      /\ \A h \in Lanes \ {l} : queued'[h] = queued[h]
  BY DEF IInv, TypeOK
<1>2. PICK a, b \in DOMAIN queued[m] :
        a < b /\ queued'[m][i] = queued[m][a] /\ queued'[m][j] = queued[m][b]
  <2>1. CASE m = l
    BY <2>1, <1>1, RemoveAtOrder
  <2>2. CASE m # l
    BY <2>2, <1>1
  <2>. QED
    BY <2>1, <2>2
<1>. QED
  BY <1>2 DEF OInv, WaitInOrder

\* createTask: the new task is the last, and starts only when nobody waits.
LEMMA CreateOrder ==
  ASSUME IInv, OInv, NEW k \in Keys, CreateTask(k)
  PROVE  OInv'
<1>. DEFINE l == LaneOf(k)
            N == Len(arrived[l])
<1>0. l \in Lanes /\ stat[k] = "none" /\ arrived' = [arrived EXCEPT ![l] = Append(@, k)]
  BY LaneType DEF CreateTask
<1>1. /\ N \in Nat /\ DOMAIN arrived[l] = 1 .. N /\ DOMAIN arrived'[l] = 1 .. N + 1
      /\ \A p \in 1 .. N : arrived'[l][p] = arrived[l][p]
      /\ arrived'[l][N + 1] = k
      /\ \A m \in Lanes \ {l} : arrived'[m] = arrived[m]
  BY <1>0, AppendProperties, LenProperties DEF IInv, TypeOK
<1>2. /\ \A m \in Lanes : \A p \in DOMAIN arrived[m] : arrived[m][p] \in Keys \ {k}
      /\ \A m \in Lanes : \A i \in DOMAIN queued[m] : queued[m][i] \in Keys \ {k}
  <2>1. /\ \A m \in Lanes : \A p \in DOMAIN arrived[m] : arrived[m][p] \in Keys
        /\ \A m \in Lanes : \A i \in DOMAIN queued[m] : queued[m][i] \in Keys
    BY LenProperties DEF IInv, TypeOK
  <2>. QED
    BY <2>1, <1>0 DEF OInv, Arrivals, IInv, Queues
<1>3. /\ \A h \in Keys \ {k} : stat'[h] = stat[h] /\ phase'[h] = phase[h]
      /\ stat'[k] \in {"running", "queued"}
      /\ stat'[k] = "queued" => phase'[k] = "idle"
  <2>1. phase[k] = "idle"
    BY <1>0 DEF IInv, TypeOK, Agree, Working, Phases, Ends
  <2>2. CASE LaneFree(l)
    BY <2>2 DEF IInv, TypeOK, CreateTask
  <2>3. CASE ~LaneFree(l)
    BY <2>1, <2>3 DEF IInv, TypeOK, CreateTask
  <2>. QED
    BY <2>2, <2>3
<1>4. stat'[k] = "running" => queued[l] = <<>>
  <2>1. CASE LaneFree(l)
    BY <2>1, <1>0 DEF IInv, Occupied, LaneFree
  <2>2. CASE ~LaneFree(l)
    BY <2>2 DEF IInv, TypeOK, CreateTask
  <2>. QED
    BY <2>1, <2>2
<1>5. ASSUME NEW m \in Lanes, NEW p \in DOMAIN arrived'[m]
      PROVE  stat'[arrived'[m][p]] # "none" /\ LaneOf(arrived'[m][p]) = m
  <2>1. CASE m = l /\ p = N + 1
    BY <2>1, <1>1, <1>3
  <2>2. CASE ~(m = l /\ p = N + 1)
    <3>1. p \in DOMAIN arrived[m] /\ arrived'[m][p] = arrived[m][p]
      BY <2>2, <1>1
    <3>. QED
      BY <3>1, <1>2, <1>3 DEF OInv, Arrivals
  <2>. QED
    BY <2>1, <2>2
<1>6. ASSUME NEW m \in Lanes, NEW i \in DOMAIN arrived'[m], NEW j \in DOMAIN arrived'[m],
             i < j, phase'[arrived'[m][j]] # "idle"
      PROVE  stat'[arrived'[m][i]] # "queued"
  <2>1. i \in DOMAIN arrived[m] /\ arrived'[m][i] = arrived[m][i]
    BY <1>1, <1>6
  <2>2. CASE m = l /\ j = N + 1
    <3>1. stat'[k] = "running" /\ queued[l] = <<>>
      BY <2>2, <1>1, <1>3, <1>4, <1>6
    <3>2. stat[arrived[m][i]] # "queued"
      <4>1. LaneOf(arrived[m][i]) = l
        BY <2>1, <2>2 DEF OInv, Arrivals
      <4>2. ~ \E n \in DOMAIN queued[l] : queued[l][n] = arrived[m][i]
        BY <3>1
      <4>. QED
        BY <4>1, <4>2, <2>1, <1>2 DEF IInv, Queues
    <3>. QED
      BY <3>2, <2>1, <1>2, <1>3
  <2>3. CASE ~(m = l /\ j = N + 1)
    <3>1. j \in DOMAIN arrived[m] /\ arrived'[m][j] = arrived[m][j]
      BY <2>3, <1>1
    <3>. QED
      BY <2>1, <3>1, <1>2, <1>3, <1>6 DEF OInv, Arrivals, FirstCome, Executing
  <2>. QED
    BY <2>2, <2>3
<1>7. WaitInOrder'
  <2>. SUFFICES ASSUME NEW m \in Lanes, NEW i \in DOMAIN queued'[m], NEW j \in DOMAIN queued'[m],
                       NEW p \in DOMAIN arrived'[m], NEW q \in DOMAIN arrived'[m], i < j,
                       arrived'[m][p] = queued'[m][i], arrived'[m][q] = queued'[m][j]
                PROVE  p < q
    BY DEF WaitInOrder
  <2>1. CASE LaneFree(l) \/ m # l
    <3>1. queued'[m] = queued[m]
      BY <2>1 DEF IInv, TypeOK, CreateTask
    <3>2. /\ p \in DOMAIN arrived[m] /\ arrived'[m][p] = arrived[m][p]
          /\ q \in DOMAIN arrived[m] /\ arrived'[m][q] = arrived[m][q]
      <4>1. CASE m # l
        BY <4>1, <1>1
      <4>2. CASE m = l
        <5>1. arrived'[l][p] # k /\ arrived'[l][q] # k
          BY <4>2, <3>1, <1>2
        <5>. QED
          BY <4>2, <5>1, <1>0, <1>1
      <4>. QED
        BY <4>1, <4>2
    <3>. QED
      BY <3>1, <3>2 DEF OInv, WaitInOrder
  <2>2. CASE ~LaneFree(l) /\ m = l
    <3>. DEFINE L == Len(queued[l])
    <3>1. queued'[l] = Append(queued[l], k)
      BY <2>2, <1>0 DEF IInv, TypeOK, CreateTask
    <3>2. /\ L \in Nat /\ DOMAIN queued[l] = 1 .. L /\ DOMAIN queued'[l] = 1 .. L + 1
          /\ \A n \in 1 .. L : queued'[l][n] = queued[l][n]
          /\ queued'[l][L + 1] = k
      BY <3>1, <1>0, AppendProperties, LenProperties DEF IInv, TypeOK
    <3>3. i \in DOMAIN queued[l] /\ queued'[l][i] = queued[l][i] /\ queued[l][i] # k
      BY <2>2, <3>2, <1>2
    <3>4. p \in DOMAIN arrived[l] /\ arrived'[l][p] = arrived[l][p]
      BY <2>2, <3>3, <1>1
    <3>5. CASE j = L + 1
      <4>1. arrived'[l][q] = k
        BY <2>2, <3>2, <3>5
      <4>2. q = N + 1
        BY <4>1, <2>2, <1>0, <1>1, <1>2
      <4>. QED
        BY <4>2, <3>4, <1>1
    <3>6. CASE j # L + 1
      <4>1. j \in DOMAIN queued[l] /\ queued'[l][j] = queued[l][j] /\ queued[l][j] # k
        BY <2>2, <3>2, <3>6, <1>2
      <4>2. q \in DOMAIN arrived[l] /\ arrived'[l][q] = arrived[l][q]
        BY <2>2, <4>1, <1>1
      <4>. QED
        BY <2>2, <3>3, <3>4, <4>1, <4>2, <1>0 DEF OInv, WaitInOrder
    <3>. QED
      BY <3>5, <3>6
  <2>. QED
    BY <2>1, <2>2
<1>. QED
  BY <1>5, <1>6, <1>7 DEF OInv, Arrivals, FirstCome, Executing

\* The end of a task: the first of the queue came before all others in it.
LEMMA FinallyOrder ==
  ASSUME IInv, OInv, NEW k \in Keys, Finally(k)
  PROVE  OInv'
<1>. DEFINE l == LaneOf(k)
            x == queued[l][1]
<1>0. l \in Lanes /\ arrived' = arrived
  BY LaneType DEF Finally
<1>1. CASE queued[l] = <<>>
  <2>1. phase' = [phase EXCEPT ![k] = "idle"] /\ UNCHANGED <<stat, queued>>
    BY <1>1, FinallyLast
  <2>2. \A h \in Keys : phase'[h] = "idle" \/ phase[h] # "idle"
    BY <2>1 DEF IInv, TypeOK
  <2>. QED
    BY <1>0, <2>1, <2>2, OrderKept
<1>2. CASE queued[l] # <<>>
  <2>1. /\ 1 \in DOMAIN queued[l]
        /\ x \in Keys /\ x # k /\ LaneOf(x) = l /\ stat[x] = "queued"
        /\ queued' = [queued EXCEPT ![l] = RemoveAt(@, 1)]
    BY <1>2, FinallyNext
  <2>2. PICK drop \in BOOLEAN :
          /\ stat' = [stat EXCEPT ![x] = IF drop THEN "cancelled" ELSE "running"]
          /\ phase' = [phase EXCEPT ![k] = "idle", ![x] = IF drop THEN "finally" ELSE "prepare"]
    BY <1>2, FinallyNext
  <2>3. /\ stat'[x] \in {"cancelled", "running"} /\ \A h \in Keys \ {x} : stat'[h] = stat[h]
        /\ \A h \in Keys \ {x} : phase'[h] = "idle" \/ phase[h] # "idle"
    BY <2>1, <2>2 DEF IInv, TypeOK
  <2>4. \A m \in Lanes : \A p \in DOMAIN arrived[m] : arrived[m][p] \in Keys
    BY LenProperties DEF IInv, TypeOK
  <2>5. ASSUME NEW m \in Lanes, NEW i \in DOMAIN arrived[m], NEW j \in DOMAIN arrived[m],
               i < j, phase'[arrived[m][j]] # "idle"
        PROVE  stat'[arrived[m][i]] # "queued"
    <3>1. CASE arrived[m][j] # x
      <4>1. phase[arrived[m][j]] # "idle"
        BY <3>1, <2>3, <2>4, <2>5
      <4>2. stat[arrived[m][i]] # "queued"
        BY <4>1, <2>5 DEF OInv, Arrivals, FirstCome, Executing
      <4>. QED
        BY <4>2, <2>3, <2>4
    <3>2. CASE arrived[m][j] = x
      <4>. SUFFICES ASSUME stat'[arrived[m][i]] = "queued" PROVE FALSE
        OBVIOUS
      <4>1. m = l
        BY <3>2, <2>1 DEF OInv, Arrivals
      <4>2. arrived[m][i] # x /\ stat[arrived[m][i]] = "queued" /\ LaneOf(arrived[m][i]) = l
        BY <4>1, <2>3, <2>4 DEF OInv, Arrivals
      <4>3. PICK n \in DOMAIN queued[l] : queued[l][n] = arrived[m][i]
        BY <4>2, <2>4 DEF IInv, Queues
      <4>4. 1 < n
        <5>1. n # 1
          BY <4>2, <4>3
        <5>2. n \in 1 .. Len(queued[l])
          BY <1>0, LenProperties DEF IInv, TypeOK
        <5>. QED
          BY <5>1, <5>2
      <4>5. j < i
        BY <1>0, <2>1, <3>2, <4>1, <4>3, <4>4 DEF OInv, WaitInOrder
      <4>. QED
        BY <4>5, <2>5, LenProperties DEF IInv, TypeOK
    <3>. QED
      BY <3>1, <3>2
  <2>6. \A m \in Lanes : \A p \in DOMAIN arrived[m] :
          stat'[arrived[m][p]] # "none" /\ LaneOf(arrived[m][p]) = m
    BY <2>3, <2>4 DEF OInv, Arrivals
  <2>7. WaitInOrder'
    BY <1>0, <2>1, OrderRemoved
  <2>. QED
    BY <1>0, <2>5, <2>6, <2>7 DEF OInv, Arrivals, FirstCome, Executing
<1>. QED
  BY <1>1, <1>2

\* cancelTask takes a task that waits out of its queue.
LEMMA CancelOrder ==
  ASSUME IInv, OInv, NEW k \in Keys, CancelTask(k)
  PROVE  OInv'
<1>1. CASE InQueue(k)
  <2>1. /\ stat[k] = "queued" /\ stat' = [stat EXCEPT ![k] = "cancelled"]
        /\ UNCHANGED <<phase, arrived>>
    BY <1>1, CancelQueuedFacts
  <2>2. WaitInOrder'
    BY <1>1, <2>1, CancelQueuedFacts, OrderRemoved, LaneType
  <2>3. \A l \in Lanes : \A p \in DOMAIN arrived[l] : arrived[l][p] \in Keys
    BY LenProperties DEF IInv, TypeOK
  <2>4. \A h \in Keys : /\ stat'[h] = "queued" => stat[h] = "queued"
                        /\ stat'[h] = "none" => stat[h] = "none"
    BY <2>1 DEF IInv, TypeOK
  <2>5. Arrivals'
    BY <2>1, <2>3, <2>4 DEF OInv, Arrivals, FirstCome, Executing
  <2>. QED
    BY <2>2, <2>5 DEF OInv
<1>2. CASE ~InQueue(k)
  BY <1>2, CancelRunningFacts, OrderKept
<1>. QED
  BY <1>1, <1>2

\* shutdown empties the queues.
LEMMA ShutdownOrder ==
  ASSUME IInv, OInv, Shutdown
  PROVE  OInv'
<1>1. /\ \A h \in Keys : stat'[h] # "queued" /\ (stat'[h] = "none" => stat[h] = "none")
      /\ \A l \in Lanes : queued'[l] = <<>>
      /\ UNCHANGED <<phase, arrived>>
  BY DEF Shutdown, Waiting
<1>2. \A l \in Lanes : \A p \in DOMAIN arrived[l] : arrived[l][p] \in Keys
  BY LenProperties DEF IInv, TypeOK
<1>3. WaitInOrder'
  BY <1>1 DEF WaitInOrder
<1>4. Arrivals'
  BY <1>1, <1>2 DEF OInv, Arrivals, FirstCome
<1>. QED
  BY <1>3, <1>4 DEF OInv

\* A step of the runner that is not the last starts no task.
LEMMA RunnerOrder ==
  ASSUME IInv, OInv, NEW k \in Keys, Run(k), ~Finally(k)
  PROVE  OInv'
<1>1. arrived' = arrived /\ queued' = queued
  BY DEF Run, Prepared, PressEnter, Fail, CheckCancelled, EndPaste, EndSend, EndTask, InRunner
<1>2. phase[k] # "idle" /\ \A h \in Keys \ {k} : phase'[h] = phase[h]
  BY DEF IInv, TypeOK, Run, Prepared, PressEnter, Fail, CheckCancelled, EndPaste, EndSend, EndTask
<1>3. CASE stat' = stat
  BY <1>1, <1>2, <1>3, OrderKept
<1>4. CASE \E outcome \in Ends : EndTask(k, outcome)
  <2>1. PICK outcome \in Ends : EndTask(k, outcome)
    BY <1>4
  <2>2. \A h \in Keys : /\ stat'[h] = "queued" => stat[h] = "queued"
                        /\ stat'[h] = "none" => stat[h] = "none"
    BY <2>1 DEF IInv, TypeOK, EndTask, Ends
  <2>. QED
    BY <1>1, <1>2, <2>2, OrderKept
<1>. QED
  BY <1>3, <1>4, RunnerEnds DEF Run, Prepared, PressEnter

\* The tasks of a lane start in the order in which they were accepted, also
\* when others were cancelled out of the middle of its queue
\* (ExecutionLaneTaskQueue.enqueue, finish, removeQueued).
THEOREM FirstComeFirstServed == Spec => []FirstCome
<1>1. Init => OInv
  BY DEF Init, OInv, Arrivals, FirstCome, WaitInOrder
<1>2. IInv /\ OInv /\ [Next]_vars => OInv'
  <2>. SUFFICES ASSUME IInv, OInv, [Next]_vars PROVE OInv'
    OBVIOUS
  <2>1. ASSUME NEW k \in Keys, CreateTask(k) PROVE OInv'
    BY <2>1, CreateOrder
  <2>2. ASSUME NEW k \in Keys, CancelTask(k) PROVE OInv'
    BY <2>2, CancelOrder
  <2>3. ASSUME NEW k \in Keys, Run(k) PROVE OInv'
    BY <2>3, FinallyOrder, RunnerOrder
  <2>4. CASE Shutdown
    BY <2>4, ShutdownOrder
  <2>5. CASE Restart
    BY <2>5 DEF Restart, OInv, Arrivals, FirstCome, WaitInOrder
  <2>6. CASE UNCHANGED vars
    BY <2>6 DEF vars, OInv, Arrivals, FirstCome, WaitInOrder, Executing
  <2>. QED
    BY <2>1, <2>2, <2>3, <2>4, <2>5, <2>6 DEF Next
<1>3. OInv => FirstCome
  BY DEF OInv, Arrivals
<1>. QED
  BY <1>1, <1>2, <1>3, IInvAlways, PTL DEF Spec

-----------------------------------------------------------------------------
(* Shutdown *)

\* Once shutdown began no task starts, not even one whose predecessor ends
\* (RuntimeHost.createTask, startNextTask).
THEOREM ShutdownStartsNothing == Spec => NoStartInShutdown
<1>1. ASSUME IInv, Next, NEW k \in Keys, shuttingDown, phase[k] = "idle"
      PROVE  phase'[k] = "idle"
  <2>1. ASSUME NEW h \in Keys, Prepared(h) \/ PressEnter(h)
        PROVE  phase'[k] = "idle"
    BY <1>1, <2>1 DEF IInv, TypeOK, Prepared, PressEnter
  <2>2. ASSUME NEW h \in Keys, Fail(h) \/ CheckCancelled(h) \/ EndPaste(h) \/ EndSend(h)
        PROVE  phase'[k] = "idle"
    BY <1>1, <2>2, RunnerEnds DEF IInv, TypeOK, EndTask
  <2>3. ASSUME NEW h \in Keys, Finally(h)
        PROVE  phase'[k] = "idle"
    <3>1. queued[LaneOf(h)] = <<>>
      BY <1>1, LaneType DEF IInv, Occupied
    <3>2. phase' = [phase EXCEPT ![h] = "idle"]
      BY <1>1, <2>3, <3>1, FinallyLast
    <3>. QED
      BY <1>1, <3>2 DEF IInv, TypeOK
  <2>. QED
    BY <1>1, <2>1, <2>2, <2>3
    DEF Next, Run, CreateTask, Admitted, CancelTask, Shutdown, Restart
<1>2. IInv /\ [Next]_vars =>
        [\A k \in Keys : shuttingDown /\ ~Executing(k) => ~Executing(k)']_vars
  BY <1>1 DEF Executing
<1>. QED
  BY <1>2, IInvAlways, PTL DEF Spec, NoStartInShutdown

-----------------------------------------------------------------------------
(* The contract *)

\* Seen(k) changes only with stat[k] and with phase[k].
LEMMA SeenSame ==
  ASSUME NEW k \in Keys, stat'[k] = stat[k],
         stat[k] = "running" => (phase'[k] = "entered" <=> phase[k] = "entered")
  PROVE  Seen(k)' = Seen(k)
BY DEF Seen

\* An outcome as the contract knows it.
SeenEnd(k, outcome) ==
  IF k \notin SendKeys THEN "pasted"
  ELSE IF outcome = "interrupted" THEN "refused" ELSE outcome

\* One task ends, and the others are seen as before.
LEMMA OneEnds ==
  ASSUME NEW k \in Keys,
         \A h \in Keys \ {k} : Seen(h)' = Seen(h),
         Seen(k)' \in Promised!Ends(k)
  PROVE  Promised!Next
<1>. DEFINE rt == [h \in Keys |-> Seen(h)]
<1>1. rt' = [rt EXCEPT ![k] = Seen(k)']
  OBVIOUS
<1>2. Promised!End(k)
  BY <1>1 DEF Promised!End
<1>. QED
  BY <1>2 DEF Promised!Next

\* Where every task is seen as before, the contract sees no step.
LEMMA AllSame ==
  ASSUME \A h \in Keys : Seen(h)' = Seen(h)
  PROVE  UNCHANGED [k \in Keys |-> Seen(k)]
OBVIOUS

\* A new host has no task, as the contract says.
LEMMA InitContract == Init => Promised!Init
BY DEF Init, Promised!Init, Seen, Ends

\* createTask is Accept.
LEMMA CreateContract ==
  ASSUME IInv, NEW k \in Keys, CreateTask(k)
  PROVE  Promised!Next
<1>. DEFINE rt == [h \in Keys |-> Seen(h)]
<1>1. stat[k] = "none" /\ \A h \in Keys \ {k} : stat'[h] = stat[h] /\ phase'[h] = phase[h]
  BY DEF IInv, TypeOK, CreateTask
<1>2. stat'[k] = "queued" \/ (stat'[k] = "running" /\ phase'[k] = "prepare")
  <2>1. CASE LaneFree(LaneOf(k))
    BY <2>1 DEF IInv, TypeOK, CreateTask
  <2>2. CASE ~LaneFree(LaneOf(k))
    BY <2>2 DEF IInv, TypeOK, CreateTask
  <2>. QED
    BY <2>1, <2>2
<1>3. Seen(k) = "none" /\ Seen(k)' = "running"
  BY <1>1, <1>2 DEF Seen, Ends
<1>4. rt' = [rt EXCEPT ![k] = "running"]
  BY <1>1, <1>3, SeenSame
<1>5. Promised!Accept(k)
  BY <1>3, <1>4 DEF Promised!Accept
<1>. QED
  BY <1>5 DEF Promised!Next

\* A task that waited ends before it began.
LEMMA QueuedEnds ==
  ASSUME NEW k \in Keys, stat[k] = "queued", stat'[k] = "cancelled"
  PROVE  Seen(k)' \in Promised!Ends(k)
<1>1. Seen(k) = "running"
  BY DEF Seen, Ends
<1>2. Seen(k)' = IF k \in SendKeys THEN "cancelled" ELSE "pasted"
  BY DEF Seen, Ends
<1>. QED
  BY <1>1, <1>2 DEF Promised!Ends, Promised!NotEntered

\* The end of a task is not seen, but it may drop the next one.
LEMMA FinallyContract ==
  ASSUME IInv, NEW k \in Keys, Finally(k)
  PROVE  Promised!Next \/ UNCHANGED [h \in Keys |-> Seen(h)]
<1>. DEFINE l == LaneOf(k)
<1>0. stat[k] \in Ends
  BY DEF IInv, Agree, Finally
<1>1. CASE queued[l] = <<>>
  <2>1. stat' = stat /\ phase' = [phase EXCEPT ![k] = "idle"]
    BY <1>1, FinallyLast
  <2>2. \A h \in Keys : Seen(h)' = Seen(h)
    BY <1>0, <2>1, SeenSame DEF IInv, TypeOK, Ends
  <2>. QED
    BY <2>2, AllSame
<1>2. CASE queued[l] # <<>>
  <2>1. PICK x \in Keys : x = queued[l][1] /\ x # k /\ stat[x] = "queued"
    BY <1>2, FinallyNext
  <2>2. PICK drop \in BOOLEAN :
          /\ stat' = [stat EXCEPT ![x] = IF drop THEN "cancelled" ELSE "running"]
          /\ phase' = [phase EXCEPT ![k] = "idle", ![x] = IF drop THEN "finally" ELSE "prepare"]
    BY <1>2, <2>1, FinallyNext
  <2>3. \A h \in Keys \ {x} : Seen(h)' = Seen(h)
    BY <1>0, <2>1, <2>2, SeenSame DEF IInv, TypeOK, Ends
  <2>4. CASE drop
    <3>1. stat'[x] = "cancelled"
      BY <2>1, <2>2, <2>4 DEF IInv, TypeOK
    <3>. QED
      BY <2>1, <2>3, <3>1, QueuedEnds, OneEnds
  <2>5. CASE ~drop
    <3>1. stat'[x] = "running" /\ phase'[x] = "prepare"
      BY <2>1, <2>2, <2>5 DEF IInv, TypeOK
    <3>2. Seen(x) = "running" /\ Seen(x)' = "running"
      BY <2>1, <3>1 DEF Seen, Ends
    <3>. QED
      BY <2>3, <3>2, AllSame
  <2>. QED
    BY <2>4, <2>5
<1>. QED
  BY <1>1, <1>2

\* cancelTask ends a task that waits, and is not seen otherwise.
LEMMA CancelContract ==
  ASSUME IInv, NEW k \in Keys, CancelTask(k)
  PROVE  Promised!Next \/ UNCHANGED [h \in Keys |-> Seen(h)]
<1>1. CASE InQueue(k)
  <2>1. /\ stat[k] = "queued" /\ stat' = [stat EXCEPT ![k] = "cancelled"]
        /\ phase' = phase
    BY <1>1, CancelQueuedFacts
  <2>2. stat'[k] = "cancelled" /\ \A h \in Keys \ {k} : Seen(h)' = Seen(h)
    BY <2>1, SeenSame DEF IInv, TypeOK
  <2>. QED
    BY <2>1, <2>2, QueuedEnds, OneEnds
<1>2. CASE ~InQueue(k)
  <2>1. stat' = stat /\ phase' = phase
    BY <1>2, CancelRunningFacts
  <2>. QED
    BY <2>1, SeenSame, AllSame
<1>. QED
  BY <1>1, <1>2

\* shutdown is Abandon.
LEMMA ShutdownContract ==
  ASSUME IInv, Shutdown
  PROVE  Promised!Next
<1>. DEFINE rt == [h \in Keys |-> Seen(h)]
<1>1. \A k \in Waiting : Seen(k) = "running" /\ Seen(k)' = IF k \in SendKeys THEN "refused" ELSE "pasted"
  BY DEF Shutdown, Waiting, Seen, Ends
<1>2. \A k \in Keys \ Waiting : Seen(k)' = Seen(k)
  BY SeenSame DEF Shutdown
<1>3. /\ Waiting \in SUBSET {k \in Keys : rt[k] = "running"}
      /\ rt' = [k \in Keys |-> IF k \notin Waiting THEN rt[k]
                              ELSE IF k \in SendKeys THEN "refused" ELSE "pasted"]
  BY <1>1, <1>2 DEF Waiting
<1>4. Promised!Abandon
  BY <1>3 DEF Promised!Abandon
<1>. QED
  BY <1>4 DEF Promised!Next

\* A restart is the Restart of the contract.
LEMMA RestartContract ==
  ASSUME Restart
  PROVE  Promised!Next
<1>1. [k \in Keys |-> Seen(k)]' = [k \in Keys |-> "none"]
  BY DEF Restart, Seen, Ends
<1>. QED
  BY <1>1 DEF Promised!Next, Promised!Restart

\* Only Enter is seen of what the runner does before a task ends.
LEMMA PhaseContract ==
  ASSUME IInv, NEW k \in Keys, Prepared(k) \/ PressEnter(k)
  PROVE  Promised!Next \/ UNCHANGED [h \in Keys |-> Seen(h)]
<1>. DEFINE rt == [h \in Keys |-> Seen(h)]
<1>0. stat' = stat /\ \A h \in Keys \ {k} : phase'[h] = phase[h]
  BY DEF Prepared, PressEnter, IInv, TypeOK
<1>1. CASE Prepared(k)
  <2>1. phase[k] = "prepare" /\ phase'[k] = "ready"
    BY <1>1 DEF Prepared, IInv, TypeOK
  <2>. QED
    BY <1>0, <2>1, SeenSame, AllSame
<1>2. CASE PressEnter(k)
  <2>1. phase[k] = "ready" /\ phase'[k] = "entered" /\ stat[k] = "running" /\ k \in SendKeys
    BY <1>2 DEF PressEnter, IInv, TypeOK, Agree, Working
  <2>2. Seen(k) = "running" /\ Seen(k)' = "entered"
    BY <1>0, <2>1 DEF Seen, Ends
  <2>3. rt' = [rt EXCEPT ![k] = "entered"]
    BY <1>0, <2>2, SeenSame
  <2>4. Promised!Enter(k)
    BY <2>1, <2>2, <2>3 DEF Promised!Enter
  <2>. QED
    BY <2>4 DEF Promised!Next
<1>. QED
  BY <1>1, <1>2

\* A task ends with an outcome that the contract allows where it is.
LEMMA EndContract ==
  ASSUME IInv, NEW k \in Keys, Fail(k) \/ CheckCancelled(k) \/ EndPaste(k) \/ EndSend(k)
  PROVE  Promised!Next
<1>1. PICK outcome \in Ends :
        /\ EndTask(k, outcome)
        /\ \/ /\ phase[k] \in {"prepare", "ready"}
              /\ k \in SendKeys => outcome \in {"failed", "cancelled", "refused"}
           \/ /\ phase[k] = "entered"
              /\ \/ outcome \in {"unverified", "late_cancel"}
                 \/ PostSendVerify /\ outcome \in {"sent", "refused"}
  BY RunnerEnds
<1>2. /\ stat'[k] = outcome /\ phase'[k] = "finally" /\ stat[k] = "running"
      /\ phase[k] = "entered" => k \in SendKeys
      /\ \A h \in Keys \ {k} : stat'[h] = stat[h] /\ phase'[h] = phase[h]
  BY <1>1 DEF EndTask, IInv, TypeOK, Agree, Working
<1>3. Seen(k)' = SeenEnd(k, outcome)
  BY <1>2 DEF Seen, SeenEnd, Ends
<1>4. Seen(k) = IF phase[k] = "entered" THEN "entered" ELSE "running"
  BY <1>2 DEF Seen, Ends
<1>5. Seen(k)' \in Promised!Ends(k)
  BY <1>1, <1>2, <1>3, <1>4
  DEF SeenEnd, Promised!Ends, Promised!Entered, Promised!NotEntered
<1>6. \A h \in Keys \ {k} : Seen(h)' = Seen(h)
  BY <1>2, SeenSame
<1>. QED
  BY <1>5, <1>6, OneEnds

\* The host implements the contract: whatever it does, each of its steps is
\* one that the clients of the runtime rely on, or none at all.
THEOREM HostKeepsContract == Spec => Contract
<1>1. IInv /\ [Next]_vars => [Promised!Next]_([k \in Keys |-> Seen(k)])
  <2>. SUFFICES ASSUME IInv, [Next]_vars
                PROVE  Promised!Next \/ UNCHANGED [k \in Keys |-> Seen(k)]
    OBVIOUS
  <2>1. CASE UNCHANGED vars
    <3>1. \A k \in Keys : Seen(k)' = Seen(k)
      BY <2>1, SeenSame DEF vars
    <3>. QED
      BY <3>1, AllSame
  <2>. QED
    BY <2>1, CreateContract, CancelContract, FinallyContract, ShutdownContract, RestartContract,
       PhaseContract, EndContract DEF Next, Run
<1>. QED
  BY <1>1, InitContract, IInvAlways, PTL DEF Spec, Contract, Promised!Spec
=============================================================================
