----------------------- MODULE LocalConnectors_proofs -----------------------
(***************************************************************************)
(* Proofs about the processes of local connectors, for any number of calls *)
(* and processes.                                                          *)
(*                                                                         *)
(* OneOfEach becomes inductive when it is known who holds the start lock   *)
(* of a role, and that there is no record of the role meanwhile: a process *)
(* that is neither recorded nor being started has been cut off.            *)
(***************************************************************************)
EXTENDS LocalConnectors, TLAPS

\* A call that waits for its process holds the lock of the role.
Locked == \A c \in Calls : Waits(c) => startLock[RoleOf(c)] = c

\* The record is gone before a process is started.
NoRecord == \A r \in Roles : startLock[r] # None => record[r] = None

\* A process that was not cut off is recorded or being started.
Known ==
  \A r \in Roles : \A p \in alive[r] \ left :
    \/ p = record[r]
    \/ \E c \in Calls : Waits(c) /\ RoleOf(c) = r /\ mine[c] = p

\* Those cut off live.
LeftLive == left \subseteq Living

\* A monitor that runs is enabled, or a call is about to say so.
MonitorShown ==
  Owned("monitor") => enabled \/ cutOff \/ \E c \in Calls : pc[c] = "settle"

\* A worker that runs is not shown as stopped, or a call is about to say so.
WorkerShown ==
  Owned("worker") => status # "stopped" \/ cutOff \/ \E c \in Calls : pc[c] = "protocol"

-----------------------------------------------------------------------------
(* Types *)

LEMMA InitAll == Init => TypeOK /\ Locked /\ NoRecord /\ Known /\ LeftLive /\ MonitorShown /\ WorkerShown
<1>. SUFFICES ASSUME Init
              PROVE  TypeOK /\ Locked /\ NoRecord /\ Known /\ LeftLive /\ MonitorShown /\ WorkerShown
  OBVIOUS
<1>1. TypeOK
  <2>1. enabled \in BOOLEAN /\ cutOff \in BOOLEAN
    BY Zenon DEF Init
  <2>. QED
    BY <2>1, CallAssumption DEF Init, TypeOK, Statuses, Steps
<1>2. Locked /\ NoRecord
  BY DEF Init, Locked, Waits, NoRecord
<1>3. Known /\ LeftLive
  BY DEF Init, Known, LeftLive
<1>4. MonitorShown /\ WorkerShown
  BY DEF Init, MonitorShown, WorkerShown, Owned, Roles
<1>. QED
  BY <1>1, <1>2, <1>3, <1>4

LEMMA RoleOfType == \A c : RoleOf(c) \in Roles
BY DEF RoleOf, Roles

\* What a call does when its worker is there.
LEMMA AfterWorker ==
  ASSUME NEW c \in Calls, AfterStart(c), RoleOf(c) = "worker"
  PROVE  UNCHANGED enabled /\ (Ensure(c) \/ Goto(c, "protocol"))
BY DEF AfterStart, state

LEMMA KilledType ==
  ASSUME TypeOK, NEW P, Killed(P)
  PROVE  alive' \in [Roles -> SUBSET Processes] /\ ready' \subseteq Processes /\ left' \subseteq Processes
BY DEF TypeOK, Killed

LEMMA LivingType == TypeOK => Living \subseteq Processes
BY DEF TypeOK, Living

LEMMA NextType == TypeOK /\ [Next]_vars => TypeOK'
<1> SUFFICES ASSUME TypeOK, [Next]_vars PROVE TypeOK'
  OBVIOUS
<1> USE CallAssumption
<1>1. ASSUME NEW c \in Calls, Begin(c) PROVE TypeOK'
  <2>1. CASE StartWorker(c) \/ StartMonitor(c)
    BY <1>1, <2>1 DEF TypeOK, Begin, StartWorker, StartMonitor, Ensure, Goto, Steps, Statuses, processes, locks, state
  <2>2. ASSUME NEW R \in SUBSET Roles, Stop(R),
               \E step \in {"done", "restart", "monitor"} : Goto(c, step),
               UNCHANGED <<locks, mine, cutOff, faults>>, status' \in Statuses, enabled' \in BOOLEAN
        PROVE  TypeOK'
    <3>1. record' \in [Roles -> Processes \cup {None}]
      BY <2>2 DEF Stop, TypeOK
    <3>2. alive' \in [Roles -> SUBSET Processes] /\ ready' \subseteq Processes /\ left' \subseteq Processes
      BY <2>2, KilledType DEF Stop
    <3>3. pc' \in [Calls -> Steps]
      BY <2>2 DEF Goto, Steps, TypeOK
    <3>. QED
      BY <2>2, <3>1, <3>2, <3>3 DEF TypeOK, locks
  <2>3. CASE StopWorker(c)
    BY <1>1, <2>2, <2>3 DEF Begin, StopWorker, Statuses
  <2>4. CASE StopMonitor(c)
    BY <1>1, <2>2, <2>4 DEF Begin, StopMonitor, TypeOK, Roles
  <2>5. CASE RestartWorker(c) \/ RestartMonitor(c)
    BY <1>1, <2>2, <2>5 DEF Begin, RestartWorker, RestartMonitor, TypeOK, Roles, state
  <2>. QED
    BY <1>1, <2>1, <2>3, <2>4, <2>5 DEF Begin
<1>2. ASSUME NEW c \in Calls, TakeOperation(c) PROVE TypeOK'
  BY <1>2 DEF TypeOK, TakeOperation, Ensure, Goto, Steps, Statuses, processes
<1>3. ASSUME NEW c \in Calls, AfterStart(c)
      PROVE  pc' \in [Calls -> Steps] /\ status' \in Statuses /\ enabled' \in BOOLEAN
  BY <1>3 DEF TypeOK, AfterStart, Ensure, Goto, Steps, Statuses, state
<1>4. ASSUME NEW c \in Calls, Existing(c) PROVE TypeOK'
  BY <1>3, <1>4 DEF TypeOK, Existing, processes, locks
<1>5. ASSUME NEW c \in Calls, PortInUse(c) PROVE TypeOK'
  BY <1>5 DEF TypeOK, PortInUse, Leave, Goto, Steps, Statuses
<1>6. ASSUME NEW c \in Calls, NEW p \in Processes, Spawn(c, p) PROVE TypeOK'
  <2>1. pc' \in [Calls -> Steps]
    BY <1>6 DEF TypeOK, Spawn, Steps
  <2>2. alive' \in [Roles -> SUBSET Processes]
    BY <1>6 DEF TypeOK, Spawn
  <2>. QED
    BY <1>6, <2>1, <2>2 DEF TypeOK, Spawn, state
<1>7. ASSUME NEW c \in Calls, Started(c) PROVE TypeOK'
  BY <1>3, <1>7 DEF TypeOK, Started, Unlock
<1>8. ASSUME NEW c \in Calls, StartFails(c) PROVE TypeOK'
  BY <1>8, KilledType DEF TypeOK, StartFails, Unlock, Leave, Goto, Steps, Statuses
<1>9. ASSUME NEW c \in Calls, ProtocolReady(c) \/ ProtocolFails(c) \/ SessionReady(c) \/ SessionFails(c) \/ Settle(c)
      PROVE  TypeOK'
  <2>1. CASE ProtocolReady(c)
    BY <2>1 DEF TypeOK, ProtocolReady, Goto, Steps, Statuses, processes, locks
  <2>2. CASE ProtocolFails(c)
    <3>1. status' \in Statuses /\ faults' \in 0 .. MaxFaults
      BY <2>2 DEF TypeOK, ProtocolFails, Fault, Statuses
    <3>3. cutOff' \in BOOLEAN
      BY <2>2, Zenon DEF TypeOK, ProtocolFails
    <3>2. pc' \in [Calls -> Steps] /\ opLock' \in Calls \cup {None}
      BY <2>2 DEF TypeOK, ProtocolFails, Leave, Goto, Steps
    <3>. QED
      BY <2>2, <3>1, <3>2, <3>3 DEF TypeOK, ProtocolFails, processes
  <2>3. CASE SessionReady(c)
    <3>1. pc' \in [Calls -> Steps] /\ opLock' \in Calls \cup {None}
      BY <2>3 DEF TypeOK, SessionReady, Leave, Goto, Steps
    <3>. QED
      BY <2>3, <3>1 DEF TypeOK, SessionReady, Statuses, processes
  <2>4. CASE SessionFails(c) \/ Settle(c)
    BY <2>4 DEF TypeOK, SessionFails, Settle, Leave, Goto, Steps, processes, state
  <2>. QED
    BY <1>9, <2>1, <2>2, <2>3, <2>4
<1>10. ASSUME NEW c \in Calls, Cancel(c) PROVE TypeOK'
  BY <1>10, LivingType DEF TypeOK, Cancel, Fault, Unlock, Leave, Goto, Steps, state
<1>11. ASSUME NEW p \in Processes, BecomesReady(p) \/ Exits(p) PROVE TypeOK'
  BY <1>11, KilledType DEF TypeOK, BecomesReady, Exits, Fault, locks, state
<1>12. CASE Crash \/ Dispose
  <2>1. alive' \in [Roles -> SUBSET Processes] /\ ready' \subseteq Processes
    BY <1>12 DEF TypeOK, Crash, Dispose
  <2>2. left' \subseteq Processes /\ record' \in [Roles -> Processes \cup {None}]
    BY <1>12, LivingType DEF TypeOK, Crash, Dispose
  <2>3. faults' \in 0 .. MaxFaults
    BY <1>12 DEF TypeOK, Crash, Dispose, Fault
  <2>4. pc' \in [Calls -> Steps] /\ mine' \in [Calls -> Processes \cup {None}]
    BY <1>12 DEF TypeOK, Crash, Dispose, Forget, Steps
  <2>5. startLock' \in [Roles -> Calls \cup {None}] /\ opLock' \in Calls \cup {None}
    BY <1>12 DEF Crash, Dispose, Forget
  <2>6. cutOff' \in BOOLEAN
    BY <1>12 DEF TypeOK, Crash, Dispose, Forget
  <2>. QED
    BY <1>12, <2>1, <2>2, <2>3, <2>4, <2>5, <2>6 DEF TypeOK, Crash, Dispose, Forget, state
<1>13. CASE UNCHANGED vars
  BY <1>13 DEF TypeOK, vars
<1>. QED
  BY <1>1, <1>2, <1>4, <1>5, <1>6, <1>7, <1>8, <1>9, <1>10, <1>11, <1>12, <1>13 DEF Next, Call

\* The variables keep their types: no status outside those of the sessions'
\* table is written.
THEOREM TypeCorrect == Spec => []TypeOK
BY InitAll, NextType, PTL DEF Spec

-----------------------------------------------------------------------------
(* Processes *)

ProcInv == Locked /\ NoRecord /\ Known /\ LeftLive

\* Steps that touch no process, no record and no lock, and nobody who waits.
LEMMA QuietStep ==
  ASSUME TypeOK, ProcInv, UNCHANGED <<alive, record, left, startLock, mine>>,
         \A c \in Calls : pc'[c] = pc[c]
                            \/ (~Waits(c) /\ pc'[c] \notin {"restart_wait", "ensure_wait", "monitor_wait"})
  PROVE  ProcInv'
<1>1. \A c \in Calls : (Waits(c) <=> Waits(c)') /\ (Waits(c) => RoleOf(c)' = RoleOf(c))
  BY DEF Waits, RoleOf
<1>2. Locked' /\ NoRecord'
  BY <1>1 DEF ProcInv, Locked, NoRecord
<1>3. Known'
  BY <1>1 DEF ProcInv, Known
<1>4. LeftLive'
  BY DEF ProcInv, LeftLive, Living
<1>. QED
  BY <1>2, <1>3, <1>4 DEF ProcInv

\* Processes are killed and forgotten.
LEMMA KillStep ==
  ASSUME TypeOK, ProcInv, NEW P, Killed(P), UNCHANGED <<startLock, mine>>,
         \A r \in Roles : record'[r] = record[r]
                           \/ (record'[r] = None /\ (record[r] \in alive[r] => record[r] \in P)),
         \A c \in Calls : pc'[c] = pc[c]
                            \/ (~Waits(c) /\ pc'[c] \notin {"restart_wait", "ensure_wait", "monitor_wait"})
  PROVE  ProcInv'
<1>1. \A c \in Calls : (Waits(c) <=> Waits(c)') /\ (Waits(c) => RoleOf(c)' = RoleOf(c))
  BY DEF Waits, RoleOf
<1>2. Locked' /\ NoRecord'
  BY <1>1 DEF ProcInv, Locked, NoRecord
<1>3. Known'
  <2>. SUFFICES ASSUME NEW r \in Roles, NEW p \in alive'[r] \ left'
                PROVE  \/ p = record'[r]
                       \/ \E c \in Calls : Waits(c)' /\ RoleOf(c)' = r /\ mine'[c] = p
    BY DEF Known
  <2>1. p \in alive[r] \ left /\ p \notin P
    BY DEF Killed, TypeOK
  <2>. QED
    BY <1>1, <2>1 DEF ProcInv, Known
<1>4. LeftLive'
  BY DEF ProcInv, LeftLive, Living, Killed, TypeOK
<1>. QED
  BY <1>2, <1>3, <1>4 DEF ProcInv

LEMMA StopStep ==
  ASSUME TypeOK, ProcInv, NEW R \in SUBSET Roles, Stop(R), NEW c \in Calls, pc[c] = "idle",
         NEW step \in {"done", "restart", "monitor"}, Goto(c, step), UNCHANGED <<locks, mine>>
  PROVE  ProcInv'
<1> DEFINE P == {record[r] : r \in {r \in Stopping(R) : Owned(r)}}
<1>1. \A r \in Roles : record'[r] = record[r]
                        \/ (record'[r] = None /\ (record[r] \in alive[r] => record[r] \in P))
  BY DEF Stop, Stopping, Owned
<1>2. \A d \in Calls : pc'[d] = pc[d]
                        \/ (~Waits(d) /\ pc'[d] \notin {"restart_wait", "ensure_wait", "monitor_wait"})
  BY DEF Goto, Waits, TypeOK
<1>3. Killed(P)
  BY DEF Stop
<1>. QED
  BY <1>1, <1>2, <1>3, KillStep DEF locks

LEMMA SpawnStep ==
  ASSUME TypeOK, ProcInv, NEW c \in Calls, NEW p \in Processes, Spawn(c, p)
  PROVE  ProcInv'
<1> DEFINE r == RoleOf(c)
<1>1. r \in Roles /\ startLock[r] = None /\ ~Owned(r) /\ p \notin Living
      /\ pc[c] \in {"restart", "ensure", "monitor"}
  BY RoleOfType DEF Spawn, Entered, LockFree, Unused
<1>2. \A d \in Calls : Waits(d) => RoleOf(d) # r
  BY <1>1, CallAssumption DEF ProcInv, Locked
<1>3. \A d \in Calls \ {c} : pc'[d] = pc[d] /\ mine'[d] = mine[d]
  BY DEF Spawn, TypeOK
<1>4. Waits(c)' /\ RoleOf(c)' = r /\ mine'[c] = p /\ ~Waits(c)
  BY <1>1 DEF Spawn, TypeOK, Waits, RoleOf
<1>5. startLock' = [startLock EXCEPT ![r] = c] /\ record' = [record EXCEPT ![r] = None]
      /\ alive' = [alive EXCEPT ![r] = @ \cup {p}] /\ UNCHANGED left
  BY DEF Spawn
<1>6. \A d \in Calls \ {c} : (Waits(d) <=> Waits(d)') /\ RoleOf(d)' = RoleOf(d)
  BY <1>3 DEF Waits, RoleOf
<1>7. Locked'
  BY <1>1, <1>2, <1>4, <1>5, <1>6, RoleOfType DEF ProcInv, Locked, TypeOK
<1>8. NoRecord'
  BY <1>5 DEF ProcInv, NoRecord, TypeOK
<1>9. Known'
  <2>. SUFFICES ASSUME NEW q \in Roles, NEW x \in alive'[q] \ left'
                PROVE  \/ x = record'[q]
                       \/ \E d \in Calls : Waits(d)' /\ RoleOf(d)' = q /\ mine'[d] = x
    BY DEF Known
  <2>1. CASE q = r
    <3>1. x = p
      BY <1>1, <1>2, <1>5, <2>1 DEF ProcInv, Known, Owned, TypeOK
    <3>. QED
      BY <1>4, <2>1, <3>1
  <2>2. CASE q # r
    <3>1. x \in alive[q] \ left /\ record'[q] = record[q]
      BY <1>5, <2>2 DEF TypeOK
    <3>. QED
      BY <1>3, <1>4, <1>6, <3>1 DEF ProcInv, Known
  <2>. QED
    BY <2>1, <2>2
<1>10. LeftLive'
  <2>1. \A q \in Roles : alive[q] \subseteq alive'[q]
    BY <1>5 DEF TypeOK
  <2>. QED
    BY <1>5, <2>1 DEF ProcInv, LeftLive, Living
<1>. QED
  BY <1>7, <1>8, <1>9, <1>10 DEF ProcInv

\* A call that waited unlocks: its process is recorded, killed or cut off.
LEMMA UnlockStep ==
  ASSUME TypeOK, ProcInv, NEW c \in Calls, Waits(c), Unlock(c),
         NEW step \in Steps, Goto(c, step), step \notin {"restart_wait", "ensure_wait", "monitor_wait"},
         \A q \in Roles : alive'[q] \subseteq alive[q],
         LeftLive', left \cap UNION {alive'[q] : q \in Roles} \subseteq left',
         \A q \in Roles : q # RoleOf(c) => record'[q] = record[q],
         \/ record'[RoleOf(c)] = mine[c]
         \/ record'[RoleOf(c)] = record[RoleOf(c)] /\ mine[c] \notin alive'[RoleOf(c)] \ left'
  PROVE  ProcInv'
<1> DEFINE r == RoleOf(c)
<1>1. r \in Roles /\ startLock[r] = c /\ record[r] = None
  BY RoleOfType, CallAssumption DEF ProcInv, Locked, NoRecord
<1>2. \A d \in Calls \ {c} : Waits(d) => RoleOf(d) # r
  BY <1>1 DEF ProcInv, Locked
<1>3. ~Waits(c)' /\ \A d \in Calls \ {c} : (Waits(d) <=> Waits(d)') /\ RoleOf(d)' = RoleOf(d)
                                           /\ mine'[d] = mine[d]
  BY DEF Goto, Waits, RoleOf, Unlock, TypeOK
<1>4. startLock' = [startLock EXCEPT ![r] = None]
  BY DEF Unlock
<1>5. Locked'
  BY <1>1, <1>2, <1>3, <1>4, RoleOfType DEF ProcInv, Locked, TypeOK
<1>6. NoRecord'
  BY <1>1, <1>4 DEF ProcInv, NoRecord, TypeOK
<1>7. Known'
  <2>. SUFFICES ASSUME NEW q \in Roles, NEW x \in alive'[q] \ left'
                PROVE  \/ x = record'[q]
                       \/ \E d \in Calls : Waits(d)' /\ RoleOf(d)' = q /\ mine'[d] = x
    BY DEF Known
  <2>1. x \in alive[q] \ left
    OBVIOUS
  <2>2. CASE x = record[q]
    <3>1. CASE q = r
      BY <1>1, <2>1, <2>2, <3>1, CallAssumption DEF TypeOK
    <3>. QED
      BY <2>2, <3>1
  <2>3. ASSUME NEW d \in Calls, Waits(d), RoleOf(d) = q, mine[d] = x
        PROVE  \/ x = record'[q]
               \/ \E e \in Calls : Waits(e)' /\ RoleOf(e)' = q /\ mine'[e] = x
    BY <1>3, <2>3
  <2>. QED
    BY <2>1, <2>2, <2>3 DEF ProcInv, Known
<1>. QED
  BY <1>5, <1>6, <1>7 DEF ProcInv

LEMMA NextProc == TypeOK /\ ProcInv /\ [Next]_vars => ProcInv'
<1> SUFFICES ASSUME TypeOK, ProcInv, [Next]_vars PROVE ProcInv'
  OBVIOUS
<1>1. ASSUME NEW c \in Calls, Begin(c) PROVE ProcInv'
  <2>1. CASE StartWorker(c)
    BY <1>1, <2>1, QuietStep DEF Begin, StartWorker, Goto, Waits, processes, locks, TypeOK
  <2>2. CASE StartMonitor(c)
    BY <1>1, <2>2, QuietStep DEF Begin, StartMonitor, Ensure, Goto, Waits, processes, locks, TypeOK
  <2>3. CASE StopWorker(c)
    BY <1>1, <2>3, StopStep DEF Begin, StopWorker
  <2>4. CASE StopMonitor(c)
    BY <1>1, <2>4, StopStep DEF Begin, StopMonitor, Roles
  <2>5. CASE RestartWorker(c)
    BY <1>1, <2>5, StopStep DEF Begin, RestartWorker, Roles
  <2>6. CASE RestartMonitor(c)
    BY <1>1, <2>6, StopStep DEF Begin, RestartMonitor, Roles
  <2>. QED
    BY <1>1, <2>1, <2>2, <2>3, <2>4, <2>5, <2>6 DEF Begin
<1>2. ASSUME NEW c \in Calls, TakeOperation(c) PROVE ProcInv'
  BY <1>2, QuietStep DEF TakeOperation, Ensure, Goto, Waits, processes, TypeOK
<1>3. ASSUME NEW c \in Calls, Existing(c) PROVE ProcInv'
  <2>1. \E step \in {"ensure", "protocol", "done", "settle"} : Goto(c, step)
    BY <1>3 DEF Existing, AfterStart, Ensure
  <2>. QED
    BY <1>3, <2>1, QuietStep DEF Existing, Entered, Goto, Waits, processes, locks, TypeOK
<1>4. ASSUME NEW c \in Calls, PortInUse(c) PROVE ProcInv'
  <2>1. Killed({})
    BY <1>4 DEF PortInUse, Killed, TypeOK
  <2>2. \A r \in Roles : record'[r] = record[r]
                          \/ (record'[r] = None /\ record[r] \notin alive[r])
    BY <1>4 DEF PortInUse, Owned, TypeOK
  <2>. QED
    BY <1>4, <2>1, <2>2, KillStep DEF PortInUse, Entered, Leave, Goto, Waits, TypeOK
<1>5. ASSUME NEW c \in Calls, NEW p \in Processes, Spawn(c, p) PROVE ProcInv'
  BY <1>5, SpawnStep
<1>6. ASSUME NEW c \in Calls, Started(c) PROVE ProcInv'
  <2>1. PICK step \in {"ensure", "protocol", "done", "settle"} : Goto(c, step)
    BY <1>6 DEF Started, AfterStart, Ensure
  <2>2. LeftLive'
    BY <1>6 DEF ProcInv, LeftLive, Living, Started
  <2>3. record' = [record EXCEPT ![RoleOf(c)] = mine[c]] /\ UNCHANGED <<alive, left>> /\ Waits(c) /\ Unlock(c)
    BY <1>6 DEF Started
  <2>. QED
    BY <2>1, <2>2, <2>3, UnlockStep, RoleOfType DEF TypeOK, Steps
<1>7. ASSUME NEW c \in Calls, StartFails(c) PROVE ProcInv'
  <2>1. Killed({mine[c]}) /\ UNCHANGED record /\ Waits(c) /\ Unlock(c) /\ Goto(c, "done")
    BY <1>7 DEF StartFails, Leave
  <2>2. LeftLive'
    BY <2>1 DEF ProcInv, LeftLive, Living, Killed, TypeOK
  <2>3. \A q \in Roles : alive'[q] \subseteq alive[q] /\ mine[c] \notin alive'[q]
    BY <2>1 DEF Killed, TypeOK
  <2>4. left \cap UNION {alive'[q] : q \in Roles} \subseteq left'
    BY <2>1, <2>3 DEF Killed
  <2>. QED
    BY <2>1, <2>2, <2>3, <2>4, UnlockStep, RoleOfType DEF Steps
<1>8. ASSUME NEW c \in Calls, ProtocolReady(c) \/ ProtocolFails(c) \/ SessionReady(c) \/ SessionFails(c) \/ Settle(c)
      PROVE  ProcInv'
  BY <1>8, QuietStep
     DEF ProtocolReady, ProtocolFails, SessionReady, SessionFails, Settle, Leave, Goto, Waits, processes, locks,
         TypeOK
<1>9. ASSUME NEW c \in Calls, Cancel(c) PROVE ProcInv'
  <2>1. CASE Waits(c)
    <3>1. UNCHANGED <<alive, record>> /\ Unlock(c) /\ Goto(c, "done")
          /\ left' = IF mine[c] \in Living THEN left \cup {mine[c]} ELSE left
      BY <1>9, <2>1 DEF Cancel, Leave
    <3>2. LeftLive'
      BY <3>1 DEF ProcInv, LeftLive, Living
    <3>3. mine[c] \notin alive'[RoleOf(c)] \ left'
      BY <3>1, RoleOfType DEF Living
    <3>. QED
      BY <2>1, <3>1, <3>2, <3>3, UnlockStep DEF Steps
  <2>2. CASE ~Waits(c)
    BY <1>9, <2>2, QuietStep DEF Cancel, Leave, Goto, TypeOK
  <2>. QED
    BY <2>1, <2>2
<1>10. ASSUME NEW p \in Processes, BecomesReady(p) PROVE ProcInv'
  BY <1>10, QuietStep DEF BecomesReady, locks
<1>11. ASSUME NEW p \in Processes, Exits(p) PROVE ProcInv'
  BY <1>11, KillStep DEF Exits, locks
<1>12. CASE Crash \/ Dispose
  <2>1. \A c \in Calls : ~Waits(c)'
    BY <1>12 DEF Crash, Dispose, Forget, Waits, TypeOK
  <2>2. Locked' /\ NoRecord'
    BY <1>12, <2>1 DEF Crash, Dispose, Forget, Locked, NoRecord
  <2>3. CASE Crash
    <3>1. Known'
      BY <2>3 DEF Crash, Known, ProcInv, Starting, Living
    <3>2. LeftLive'
      BY <2>3 DEF Crash, LeftLive, ProcInv, Living
    <3>. QED
      BY <2>2, <3>1, <3>2 DEF ProcInv
  <2>4. CASE Dispose
    <3> DEFINE P == {record[r] : r \in {r \in Roles : Owned(r)}}
    <3>1. alive' = [r \in Roles |-> alive[r] \ P] /\ left' = (left \cup (Starting \cap Living)) \ P
      BY <2>4 DEF Dispose
    <3>2. Known'
      <4>. SUFFICES ASSUME NEW r \in Roles, NEW p \in alive'[r] \ left' PROVE FALSE
        BY DEF Known
      <4>1. p \in alive[r] /\ p \notin P /\ p \notin left /\ p \notin Starting
        BY <3>1 DEF Living
      <4>. QED
        BY <4>1 DEF ProcInv, Known, Starting, Owned
    <3>3. LeftLive'
      BY <3>1 DEF LeftLive, ProcInv, Living
    <3>. QED
      BY <2>2, <3>2, <3>3 DEF ProcInv
  <2>. QED
    BY <1>12, <2>3, <2>4
<1>13. CASE UNCHANGED vars
  BY <1>13, QuietStep DEF vars
<1>. QED
  BY <1>1, <1>2, <1>3, <1>4, <1>5, <1>6, <1>7, <1>8, <1>9, <1>10, <1>11, <1>12, <1>13 DEF Next, Call

\* A role (monitor, worker) has one process at most, apart from those that
\* were cut off from the record (LocalConnectorProcessManager.start).
THEOREM OneProcessPerRole == Spec => []OneOfEach
<1>1. TypeOK /\ ProcInv => OneOfEach
  <2>. SUFFICES ASSUME TypeOK, ProcInv, NEW r \in Roles, NEW p \in alive[r] \ left
                PROVE  /\ p = record[r] \/ p \in Starting
                       /\ \A q \in alive[r] \ left : q = p
    BY DEF OneOfEach
  <2>1. p = record[r] \/ p \in Starting
    BY DEF ProcInv, Known, Starting
  <2>2. ASSUME NEW q \in alive[r] \ left PROVE q = p
    <3>1. \A x \in alive[r] \ left : x # None
      BY CallAssumption DEF TypeOK
    <3>2. CASE startLock[r] = None
      <4>1. \A c \in Calls : ~(Waits(c) /\ RoleOf(c) = r)
        BY <3>2, CallAssumption DEF ProcInv, Locked
      <4>. QED
        BY <4>1 DEF ProcInv, Known
    <3>3. CASE startLock[r] # None
      <4>1. record[r] = None
        BY <3>3 DEF ProcInv, NoRecord
      <4>2. \A c \in Calls : Waits(c) /\ RoleOf(c) = r => c = startLock[r]
        BY DEF ProcInv, Locked
      <4>. QED
        BY <3>1, <4>1, <4>2 DEF ProcInv, Known
    <3>. QED
      BY <3>2, <3>3
  <2>. QED
    BY <2>1, <2>2
<1>2. TypeOK /\ ProcInv /\ [Next]_vars => TypeOK' /\ ProcInv'
  BY NextType, NextProc
<1>3. Init => TypeOK /\ ProcInv
  BY InitAll DEF ProcInv
<1>. QED
  BY <1>1, <1>2, <1>3, PTL DEF Spec

-----------------------------------------------------------------------------
(* What is shown *)

LEMMA NextMonitor == TypeOK /\ MonitorShown /\ [Next]_vars => MonitorShown'
<1> SUFFICES ASSUME TypeOK, MonitorShown, [Next]_vars PROVE MonitorShown'
  OBVIOUS
<1> USE DEF TypeOK, MonitorShown, Owned, Roles
<1>1. ASSUME NEW c \in Calls, Begin(c) PROVE MonitorShown'
  <2>1. \A d \in Calls : pc[d] = "settle" => pc'[d] = "settle"
    BY <1>1 DEF Begin, StartWorker, StopWorker, RestartWorker, StartMonitor, StopMonitor, RestartMonitor,
                Ensure, Goto
  <2>2. CASE StartWorker(c) \/ StartMonitor(c)
    BY <1>1, <2>1, <2>2 DEF Begin, StartWorker, StartMonitor, Ensure, processes, state
  <2>3. ASSUME NEW R \in SUBSET Roles, Stop(R)
        PROVE  Owned("monitor")' => Owned("monitor") /\ "monitor" \notin R
    <3>1. record'["monitor"] = IF "monitor" \in R THEN None ELSE record["monitor"]
      BY <2>3 DEF Stop, Stopping
    <3>2. alive'["monitor"] \subseteq alive["monitor"]
      BY <2>3 DEF Stop, Killed
    <3>. QED
      BY <3>1, <3>2, CallAssumption
  <2>4. CASE StopWorker(c) \/ StopMonitor(c) \/ RestartWorker(c) \/ RestartMonitor(c)
    BY <1>1, <2>1, <2>3, <2>4
       DEF Begin, StopWorker, StopMonitor, RestartWorker, RestartMonitor, state
  <2>. QED
    BY <1>1, <2>2, <2>4 DEF Begin
<1>2. ASSUME NEW c \in Calls, Existing(c) \/ Started(c) PROVE MonitorShown'
  <2>1. CASE pc[c] \in {"monitor", "monitor_wait"}
    <3>1. enabled' \/ pc'[c] = "settle"
      BY <1>2, <2>1 DEF Existing, Started, AfterStart, Goto
    <3>. QED
      BY <3>1
  <2>2. CASE pc[c] \notin {"monitor", "monitor_wait"}
    <3>1. RoleOf(c) = "worker" /\ pc[c] # "settle"
      BY <1>2, <2>2 DEF RoleOf, Existing, Started, Entered, Waits
    <3>2. UNCHANGED <<alive, cutOff>> /\ record'["monitor"] = record["monitor"]
      BY <1>2, <3>1 DEF Existing, Started, processes
    <3>4. UNCHANGED enabled
      BY <1>2, <3>1, AfterWorker DEF Existing, Started
    <3>3. \A d \in Calls : d # c => pc'[d] = pc[d]
      BY <1>2 DEF Existing, Started, AfterStart, Ensure, Goto
    <3>. QED
      BY <3>1, <3>2, <3>3, <3>4
  <2>. QED
    BY <2>1, <2>2
<1>3. ASSUME NEW c \in Calls, NEW p \in Processes, Spawn(c, p) PROVE MonitorShown'
  <2>1. record'[RoleOf(c)] = None /\ RoleOf(c) \in Roles /\ None \notin Processes
    BY <1>3, RoleOfType, CallAssumption DEF Spawn
  <2>2. \A d \in Calls : pc[d] = "settle" => pc'[d] = "settle"
    BY <1>3 DEF Spawn, Entered
  <2>3. Owned("monitor")' => Owned("monitor")
    <3>1. CASE RoleOf(c) = "monitor"
      <4>1. alive'["monitor"] \subseteq Processes
        BY <1>3, <3>1 DEF Spawn
      <4>. QED
        BY <2>1, <3>1, <4>1
    <3>2. CASE RoleOf(c) = "worker"
      BY <1>3, <3>2 DEF Spawn
    <3>. QED
      BY <2>1, <3>1, <3>2
  <2>. QED
    BY <1>3, <2>2, <2>3 DEF Spawn, state
<1>4. ASSUME NEW c \in Calls,
             TakeOperation(c) \/ ProtocolReady(c) \/ ProtocolFails(c) \/ SessionReady(c) \/ SessionFails(c)
      PROVE  MonitorShown'
  BY <1>4 DEF TakeOperation, ProtocolReady, ProtocolFails, SessionReady, SessionFails, Ensure, Leave, Goto,
              processes, state
<1>5. ASSUME NEW c \in Calls, Settle(c) \/ Cancel(c) PROVE MonitorShown'
  BY <1>5 DEF Settle, Cancel
<1>6. ASSUME NEW c \in Calls, PortInUse(c) \/ StartFails(c) PROVE MonitorShown'
  <2>1. Owned("monitor")' => Owned("monitor")
    <3>1. CASE PortInUse(c)
      BY <3>1, RoleOfType DEF PortInUse, PortTaken
    <3>2. CASE StartFails(c)
      BY <3>2 DEF StartFails, Killed
    <3>. QED
      BY <1>6, <3>1, <3>2
  <2>2. \A d \in Calls : pc[d] = "settle" => pc'[d] = "settle"
    BY <1>6 DEF PortInUse, StartFails, Entered, Waits, Leave, Goto
  <2>. QED
    BY <1>6, <2>1, <2>2 DEF PortInUse, StartFails
<1>7. ASSUME NEW p \in Processes, BecomesReady(p) \/ Exits(p) PROVE MonitorShown'
  BY <1>7 DEF BecomesReady, Exits, Killed, state
<1>8. CASE Crash
  BY <1>8 DEF Crash, Forget, state
<1>9. CASE Dispose
  BY <1>9, CallAssumption DEF Dispose
<1>10. CASE UNCHANGED vars
  BY <1>10 DEF vars
<1>. QED
  BY <1>1, <1>2, <1>3, <1>4, <1>5, <1>6, <1>7, <1>8, <1>9, <1>10 DEF Next, Call

LEMMA NextWorker == TypeOK /\ WorkerShown /\ [Next]_vars => WorkerShown'
<1> SUFFICES ASSUME TypeOK, WorkerShown, [Next]_vars PROVE WorkerShown'
  OBVIOUS
<1> USE DEF TypeOK, WorkerShown, Owned, Roles
<1>1. ASSUME NEW c \in Calls, Begin(c) PROVE WorkerShown'
  <2>1. \A d \in Calls : pc[d] = "protocol" => pc'[d] = "protocol"
    BY <1>1 DEF Begin, StartWorker, StopWorker, RestartWorker, StartMonitor, StopMonitor, RestartMonitor,
                Ensure, Goto
  <2>2. CASE StartWorker(c) \/ StartMonitor(c)
    BY <1>1, <2>1, <2>2 DEF Begin, StartWorker, StartMonitor, Ensure, processes, state
  <2>3. ASSUME NEW R \in SUBSET Roles, Stop(R)
        PROVE  Owned("worker")' => Owned("worker") /\ "worker" \notin R
    <3>1. record'["worker"] = IF "worker" \in R THEN None ELSE record["worker"]
      BY <2>3 DEF Stop, Stopping
    <3>2. alive'["worker"] \subseteq alive["worker"]
      BY <2>3 DEF Stop, Killed
    <3>. QED
      BY <3>1, <3>2, CallAssumption
  <2>4. CASE StopWorker(c) \/ StopMonitor(c) \/ RestartWorker(c) \/ RestartMonitor(c)
    BY <1>1, <2>1, <2>3, <2>4
       DEF Begin, StopWorker, StopMonitor, RestartWorker, RestartMonitor, state
  <2>. QED
    BY <1>1, <2>2, <2>4 DEF Begin
<1>2. ASSUME NEW c \in Calls, Existing(c) \/ Started(c) PROVE WorkerShown'
  <2>1. CASE pc[c] \notin {"monitor", "monitor_wait"}
    <3>1. status' = "starting" \/ pc'[c] = "protocol"
      BY <1>2, <2>1, AfterWorker DEF Existing, Started, RoleOf, Ensure, Goto
    <3>. QED
      BY <3>1
  <2>2. CASE pc[c] \in {"monitor", "monitor_wait"}
    <3>1. RoleOf(c) = "monitor"
      BY <2>2 DEF RoleOf
    <3>2. UNCHANGED <<alive, status, cutOff>> /\ record'["worker"] = record["worker"]
      BY <1>2, <2>2, <3>1 DEF Existing, Started, AfterStart, processes, state
    <3>3. \A d \in Calls : d # c => pc'[d] = pc[d]
      BY <1>2 DEF Existing, Started, AfterStart, Ensure, Goto
    <3>. QED
      BY <2>2, <3>2, <3>3
  <2>. QED
    BY <2>1, <2>2
<1>3. ASSUME NEW c \in Calls, NEW p \in Processes, Spawn(c, p) PROVE WorkerShown'
  <2>1. record'[RoleOf(c)] = None /\ RoleOf(c) \in Roles /\ None \notin Processes
    BY <1>3, RoleOfType, CallAssumption DEF Spawn
  <2>2. \A d \in Calls : pc[d] = "protocol" => pc'[d] = "protocol"
    BY <1>3 DEF Spawn, Entered
  <2>3. Owned("worker")' => Owned("worker")
    <3>1. CASE RoleOf(c) = "worker"
      <4>1. alive'["worker"] \subseteq Processes
        BY <1>3, <3>1 DEF Spawn
      <4>. QED
        BY <2>1, <3>1, <4>1
    <3>2. CASE RoleOf(c) = "monitor"
      BY <1>3, <3>2 DEF Spawn
    <3>. QED
      BY <2>1, <3>1, <3>2
  <2>. QED
    BY <1>3, <2>2, <2>3 DEF Spawn, state
<1>4. ASSUME NEW c \in Calls, SessionReady(c) \/ SessionFails(c) \/ Settle(c) PROVE WorkerShown'
  BY <1>4 DEF SessionReady, SessionFails, Settle, Leave, Goto, processes, state
<1>5. ASSUME NEW c \in Calls, TakeOperation(c) \/ ProtocolReady(c) \/ ProtocolFails(c) \/ Cancel(c)
      PROVE  WorkerShown'
  BY <1>5 DEF TakeOperation, ProtocolReady, ProtocolFails, Cancel, Ensure
<1>6. ASSUME NEW c \in Calls, PortInUse(c) \/ StartFails(c) PROVE WorkerShown'
  <2>1. Owned("worker")' => Owned("worker")
    <3>1. CASE PortInUse(c)
      BY <3>1, CallAssumption, RoleOfType DEF PortInUse, PortTaken
    <3>2. CASE StartFails(c)
      BY <3>2 DEF StartFails, Killed
    <3>. QED
      BY <1>6, <3>1, <3>2
  <2>2. \A d \in Calls : pc[d] = "protocol" => pc'[d] = "protocol"
    BY <1>6 DEF PortInUse, StartFails, Entered, Waits, Leave, Goto
  <2>3. status' = "stopped" => status = "stopped"
    BY <1>6 DEF PortInUse, StartFails
  <2>. QED
    BY <1>6, <2>1, <2>2, <2>3 DEF PortInUse, StartFails
<1>7. ASSUME NEW p \in Processes, BecomesReady(p) \/ Exits(p) PROVE WorkerShown'
  BY <1>7 DEF BecomesReady, Exits, Killed, state
<1>8. CASE Crash
  BY <1>8 DEF Crash, Forget, state
<1>9. CASE Dispose
  BY <1>9, CallAssumption DEF Dispose
<1>10. CASE UNCHANGED vars
  BY <1>10 DEF vars
<1>. QED
  BY <1>1, <1>2, <1>3, <1>4, <1>5, <1>6, <1>7, <1>8, <1>9, <1>10 DEF Next, Call

\* What runs is not shown as stopped when all calls are over, in whatever
\* order starts, stops and status checks wrote the session.
THEOREM ShownInTheEnd == Spec => []RunningIsShown
<1>1. MonitorShown /\ WorkerShown => RunningIsShown
  BY DEF MonitorShown, WorkerShown, RunningIsShown
<1>2. TypeOK /\ MonitorShown /\ WorkerShown /\ [Next]_vars => TypeOK' /\ MonitorShown' /\ WorkerShown'
  BY NextType, NextMonitor, NextWorker
<1>. QED
  BY <1>1, <1>2, InitAll, PTL DEF Spec
=============================================================================
