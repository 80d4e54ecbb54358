--------------------------- MODULE LocalConnectors ---------------------------
(***************************************************************************)
(* The two processes of a local connector on Windows, the worker (an MCP   *)
(* server that listens on a port) and the monitor (which reports new       *)
(* messages): calls that start, stop and restart them, the record of each  *)
(* process on disk, and a backend that may go away and come back.          *)
(*                                                                         *)
(* Everything runs in one event loop: an action is what a call does        *)
(* between two places where it can be suspended.  Stopping is not          *)
(* suspended.  A process and the python launcher that controls it are one. *)
(* restore_configured_connectors makes the same calls as the user.         *)
(***************************************************************************)
EXTENDS Naturals, FiniteSets

CONSTANTS
  Calls,       \* of the service
  OpOf,        \* [Calls -> Operations]
  Processes,   \* process ids; at most so many processes live at once
  MaxFaults,
  None

Roles == {"worker", "monitor"}
Operations == {"start_worker", "stop_worker", "restart_worker",
               "start_monitor", "stop_monitor", "restart_monitor"}

ASSUME CallAssumption ==
  /\ OpOf \in [Calls -> Operations] /\ None \notin Calls \cup Processes
  /\ MaxFaults \in Nat

VARIABLES
  alive,      \* role -> its processes
  ready,      \* processes that are up; a worker listens on the port then
  record,     \* role -> the process in process.<role>.json
  startLock,  \* role -> call that starts a process of the role
  opLock,     \* call of start_worker that works on the connector
  pc,         \* call -> step
  mine,       \* call -> the process whose start it waits for
  status,     \* of the connector
  enabled,    \* monitor_enabled
  left,       \* processes whose start was cut off before they were recorded
  cutOff,     \* some call ended before it wrote what it had achieved
  faults

processes == <<alive, ready, record, left>>
locks == <<startLock, opLock>>
state == <<status, enabled>>
vars == <<alive, ready, record, startLock, opLock, pc, mine, status, enabled, left, cutOff, faults>>

Steps == {"idle", "operation", "restart", "ensure", "monitor",
          "restart_wait", "ensure_wait", "monitor_wait",
          "protocol", "session", "settle", "done"}
Statuses == {"starting", "connected", "stopped", "port_in_use", "runtime_error"}

TypeOK ==
  /\ alive \in [Roles -> SUBSET Processes] /\ ready \subseteq Processes
  /\ record \in [Roles -> Processes \cup {None}]
  /\ startLock \in [Roles -> Calls \cup {None}] /\ opLock \in Calls \cup {None}
  /\ pc \in [Calls -> Steps] /\ mine \in [Calls -> Processes \cup {None}]
  /\ status \in Statuses /\ enabled \in BOOLEAN
  /\ left \subseteq Processes /\ cutOff \in BOOLEAN
  /\ faults \in 0 .. MaxFaults

Init ==
  /\ alive = [r \in Roles |-> {}] /\ ready = {} /\ left = {}
  /\ record = [r \in Roles |-> None]
  /\ startLock = [r \in Roles |-> None] /\ opLock = None
  /\ pc = [c \in Calls |-> "idle"] /\ mine = [c \in Calls |-> None]
  /\ status = "stopped" /\ enabled = FALSE
  /\ cutOff = FALSE /\ faults = 0

Fault == faults < MaxFaults /\ faults' = faults + 1

Goto(c, step) == pc' = [pc EXCEPT ![c] = step]

\* The call returns or raises, and leaves the lock of the connector.
Leave(c) == Goto(c, "done") /\ opLock' = IF opLock = c THEN None ELSE opLock

Owned(r) == record[r] \in alive[r]

Living == UNION {alive[r] : r \in Roles}

\* The processes P go away.
Killed(P) ==
  /\ alive' = [r \in Roles |-> alive[r] \ P]
  /\ ready' = ready \ P
  /\ left' = left \ P

-----------------------------------------------------------------------------
(* Stopping *)

\* Mutant: the monitor is left alone.
WorkerOnly(R) == R \cap {"worker"}

\* Those of R whose processes are stopped.
Stopping(R) == R

\* stop_sync of the roles in R: a process that is not recorded is not found,
\* nor is one whose start is under way.
Stop(R) ==
  /\ Killed({record[r] : r \in {r \in Stopping(R) : Owned(r)}})
  /\ record' = [r \in Roles |-> IF r \in Stopping(R) THEN None ELSE record[r]]

StopWorker(c) ==
  /\ OpOf[c] = "stop_worker"
  /\ Stop(Roles)
  /\ enabled' = FALSE /\ status' = "stopped"
  /\ Goto(c, "done")
  /\ UNCHANGED <<locks, mine>>

StopMonitor(c) ==
  /\ OpOf[c] = "stop_monitor"
  /\ Stop({"monitor"})
  /\ enabled' = FALSE
  /\ Goto(c, "done")
  /\ UNCHANGED <<locks, mine, status>>

-----------------------------------------------------------------------------
(* Calls that start something *)

StartWorker(c) ==
  /\ OpOf[c] = "start_worker"
  /\ Goto(c, "operation")
  /\ UNCHANGED <<processes, locks, mine, state>>

\* _ensure_worker_process_ready begins.
Ensure(c) == Goto(c, "ensure") /\ status' = "starting"

StartMonitor(c) ==
  /\ OpOf[c] = "start_monitor"
  /\ Ensure(c)
  /\ UNCHANGED <<processes, locks, mine, enabled>>

RestartWorker(c) ==
  /\ OpOf[c] = "restart_worker"
  /\ Stop({"worker"})
  /\ Goto(c, "restart")
  /\ UNCHANGED <<locks, mine, state>>

RestartMonitor(c) ==
  /\ OpOf[c] = "restart_monitor"
  /\ Stop({"monitor"})
  /\ Goto(c, "monitor")
  /\ UNCHANGED <<locks, mine, state>>

Begin(c) ==
  /\ pc[c] = "idle"
  /\ \/ StartWorker(c) \/ StopWorker(c) \/ RestartWorker(c)
     \/ StartMonitor(c) \/ StopMonitor(c) \/ RestartMonitor(c)
  /\ UNCHANGED <<cutOff, faults>>

TakeOperation(c) ==
  /\ pc[c] = "operation" /\ opLock = None
  /\ opLock' = c
  /\ Ensure(c)
  /\ UNCHANGED <<processes, startLock, mine, enabled, cutOff, faults>>

-----------------------------------------------------------------------------
(* LocalConnectorProcessManager.start *)

RoleOf(c) == IF pc[c] \in {"monitor", "monitor_wait"} THEN "monitor" ELSE "worker"

\* Mutant: two calls start a process of a role at once.
NoLock(r) == TRUE

LockFree(r) == startLock[r] = None

Entered(c) == pc[c] \in {"restart", "ensure", "monitor"} /\ LockFree(RoleOf(c))

\* What the call does when the process is there.
AfterStart(c) ==
  \/ /\ pc[c] \in {"restart", "restart_wait"}
     /\ Ensure(c) /\ UNCHANGED enabled
  \/ /\ pc[c] \in {"ensure", "ensure_wait"}
     /\ Goto(c, "protocol") /\ UNCHANGED state
  \/ /\ RoleOf(c) = "monitor" /\ OpOf[c] = "restart_monitor"
     /\ Goto(c, "done") /\ enabled' = TRUE /\ UNCHANGED status
  \/ /\ RoleOf(c) = "monitor" /\ OpOf[c] # "restart_monitor"
     /\ Goto(c, "settle") /\ UNCHANGED state

Existing(c) ==
  /\ Entered(c) /\ Owned(RoleOf(c))
  /\ AfterStart(c)
  /\ UNCHANGED <<processes, locks, mine, cutOff, faults>>

PortTaken(r) == r = "worker" /\ alive[r] \cap ready # {}

\* The old record goes first.
PortInUse(c) ==
  /\ Entered(c) /\ ~Owned(RoleOf(c)) /\ PortTaken(RoleOf(c))
  /\ record' = [record EXCEPT ![RoleOf(c)] = None]
  /\ status' = IF OpOf[c] = "start_worker" \/ pc[c] = "restart" THEN "port_in_use" ELSE status
  /\ Leave(c)
  /\ UNCHANGED <<alive, ready, left, startLock, mine, enabled, cutOff, faults>>

Unused(p) ==
  /\ p \notin Living
  /\ \A r \in Roles : record[r] # p
  /\ \A c \in Calls : mine[c] # p

Spawn(c, p) ==
  LET r == RoleOf(c)
  IN /\ Entered(c) /\ ~Owned(r) /\ ~PortTaken(r) /\ Unused(p)
     /\ record' = [record EXCEPT ![r] = None]
     /\ alive' = [alive EXCEPT ![r] = @ \cup {p}]
     /\ startLock' = [startLock EXCEPT ![r] = c]
     /\ mine' = [mine EXCEPT ![c] = p]
     /\ pc' = [pc EXCEPT ![c] = CASE @ = "restart" -> "restart_wait"
                                  [] @ = "ensure"  -> "ensure_wait"
                                  [] OTHER         -> "monitor_wait"]
     /\ UNCHANGED <<ready, left, opLock, state, cutOff, faults>>

Waits(c) == pc[c] \in {"restart_wait", "ensure_wait", "monitor_wait"}

Starting == {mine[c] : c \in {c \in Calls : Waits(c)}}

Unlock(c) ==
  /\ startLock' = [startLock EXCEPT ![RoleOf(c)] = None]
  /\ mine' = [mine EXCEPT ![c] = None]

Started(c) ==
  /\ Waits(c) /\ mine[c] \in ready
  /\ record' = [record EXCEPT ![RoleOf(c)] = mine[c]]
  /\ AfterStart(c)
  /\ Unlock(c)
  /\ UNCHANGED <<alive, ready, left, opLock, cutOff, faults>>

\* Not ready in time: its processes are killed.  Only start_worker turns the
\* exception into a status.
StartFails(c) ==
  /\ Waits(c)
  /\ Killed({mine[c]})
  /\ status' = IF OpOf[c] = "start_worker" THEN "runtime_error" ELSE status
  /\ Unlock(c)
  /\ Leave(c)
  /\ UNCHANGED <<record, enabled, cutOff, faults>>

-----------------------------------------------------------------------------
(* The rest of a start *)

\* A worker, recorded or not, answers on the port.
Listening == alive["worker"] \cap ready # {}

ProtocolReady(c) ==
  /\ pc[c] = "protocol" /\ Listening
  /\ status' = "connected"
  /\ Goto(c, "session")
  /\ UNCHANGED <<processes, locks, mine, enabled, cutOff, faults>>

\* No answer in time, because there is no worker, or although there is one.
ProtocolFails(c) ==
  /\ pc[c] = "protocol"
  /\ IF Listening THEN Fault ELSE UNCHANGED faults
  /\ IF OpOf[c] = "start_worker"
       THEN status' = "runtime_error" /\ UNCHANGED cutOff
       ELSE cutOff' = TRUE /\ UNCHANGED status
  /\ Leave(c)
  /\ UNCHANGED <<processes, startLock, mine, enabled>>

\* The session of the MCP client is ready; by now the worker may be gone.
SessionReady(c) ==
  /\ pc[c] = "session"
  /\ status' = "connected"
  /\ IF OpOf[c] = "start_monitor"
       THEN Goto(c, "monitor") /\ UNCHANGED opLock
       ELSE Leave(c)
  /\ UNCHANGED <<processes, startLock, mine, enabled, cutOff, faults>>

SessionFails(c) ==
  /\ pc[c] = "session"
  /\ Leave(c)
  /\ UNCHANGED <<processes, startLock, mine, state, cutOff, faults>>

\* The end of start_monitor, ten seconds at most after its process was recorded.
Settle(c) ==
  /\ pc[c] = "settle"
  /\ enabled' = TRUE
  /\ Leave(c)
  /\ UNCHANGED <<processes, startLock, mine, status, cutOff, faults>>

-----------------------------------------------------------------------------
(* Faults *)

\* The client of the request disconnects, and its coroutine is cancelled: a
\* process it has spawned lives on.
Cancel(c) ==
  /\ Fault /\ pc[c] \notin {"idle", "done"}
  /\ left' = IF Waits(c) /\ mine[c] \in Living THEN left \cup {mine[c]} ELSE left
  /\ IF Waits(c) THEN Unlock(c) ELSE UNCHANGED <<startLock, mine>>
  /\ Leave(c)
  /\ cutOff' = TRUE
  /\ UNCHANGED <<alive, ready, record, state>>

\* The process is up.  A second worker cannot bind the port.
BecomesReady(p) ==
  /\ \E r \in Roles : p \in alive[r] \ ready /\ ~PortTaken(r)
  /\ ready' = ready \cup {p}
  /\ UNCHANGED <<alive, record, left, locks, pc, mine, state, cutOff, faults>>

Exits(p) ==
  /\ Fault /\ p \in Living
  /\ Killed({p})
  /\ UNCHANGED <<record, locks, pc, mine, state, cutOff>>

\* The backend ends, with its calls, and starts again.
Forget ==
  /\ startLock' = [r \in Roles |-> None] /\ opLock' = None
  /\ mine' = [c \in Calls |-> None]
  /\ pc' = [c \in Calls |-> IF pc[c] = "idle" THEN "idle" ELSE "done"]
  /\ cutOff' = (cutOff \/ \E c \in Calls : pc[c] \notin {"idle", "done"})
  /\ UNCHANGED state

Crash ==
  /\ Fault
  /\ left' = left \cup (Starting \cap Living)
  /\ Forget
  /\ UNCHANGED <<alive, ready, record>>

\* dispose stops what is recorded.
Dispose ==
  /\ Fault
  /\ LET P == {record[r] : r \in {r \in Roles : Owned(r)}}
     IN /\ alive' = [r \in Roles |-> alive[r] \ P] /\ ready' = ready \ P
        /\ left' = (left \cup (Starting \cap Living)) \ P
  /\ record' = [r \in Roles |-> None]
  /\ Forget

-----------------------------------------------------------------------------
Call(c) ==
  \/ Begin(c) \/ TakeOperation(c)
  \/ Existing(c) \/ PortInUse(c) \/ Started(c) \/ StartFails(c)
  \/ \E p \in Processes : Spawn(c, p)
  \/ ProtocolReady(c) \/ ProtocolFails(c) \/ SessionReady(c) \/ SessionFails(c) \/ Settle(c)
  \/ Cancel(c)

Next ==
  \/ \E c \in Calls : Call(c)
  \/ \E p \in Processes : BecomesReady(p) \/ Exits(p)
  \/ Crash \/ Dispose

Spec == Init /\ [][Next]_vars

-----------------------------------------------------------------------------
(* Properties *)

\* A role has one process at most, which is recorded or whose start is under
\* way, apart from those whose start was cut off: no call starts a second
\* monitor beside the first, or loses sight of one that runs
\* (LocalConnectorProcessManager.start, stop_sync).
OneOfEach ==
  \A r \in Roles : \A p \in alive[r] \ left :
    /\ p = record[r] \/ p \in Starting
    /\ \A q \in alive[r] \ left : q = p

\* When all calls are over, and none was cut off, what runs is not shown as
\* stopped: a stop that comes in the middle of a start, which it cannot see,
\* does not have the last word.
RunningIsShown ==
  (\A c \in Calls : pc[c] \in {"idle", "done"}) /\ ~cutOff =>
    /\ Owned("monitor") => enabled
    /\ Owned("worker") => status # "stopped"
=============================================================================
