--------------------------- MODULE ProcessRegistry ---------------------------
(***************************************************************************)
(* The registry of child processes of a sweep (srtctl/core/processes.py):  *)
(* the table `_processes', the list `_failed_processes', and the lock      *)
(* `_lock' that add_process, check_failures and cleanup hold from their    *)
(* first to their last statement.                                          *)
(*                                                                         *)
(* The lock is a threading.Lock, not an RLock, and it is taken by call     *)
(* frames rather than by threads: a Python signal handler runs on top of   *)
(* whatever frame the main thread was in, so it can ask for a lock which a *)
(* frame below it holds.  Each operation is a call that is requested by a  *)
(* frame, takes the lock, visits registered processes one at a time, and   *)
(* gives the lock back; other frames and the children run in between.      *)
(***************************************************************************)
EXTENDS Naturals, FiniteSets

CONSTANTS Procs,        \* the processes that can be registered, by name
          NonCritical,  \* those started with critical=False
          Frames,       \* the call frames that use the registry
          Free          \* the holder of a lock that nobody holds

ASSUME NonCriticalAssumption == NonCritical \subseteq Procs
ASSUME FreeAssumption == Free \notin Frames

VARIABLES child,        \* child[p]: what poll() of p's Popen would show
          registered,   \* the names in _processes
          failed,       \* _failed_processes; it is only appended to
          lock,         \* the frame that holds _lock
          call,         \* call[f]: the registry operation f is executing
          todo,         \* todo[f]: the processes f has yet to visit in it
          verdict       \* verdict[f]: what check_failures last returned to f

registryVars == <<child, registered, failed, lock, call, todo, verdict>>

(***************************************************************************)
(* "stopped" is a child that ended because the registry signalled it (its  *)
(* return code is not 0); "wedged" one that was not reaped after SIGKILL.  *)
(***************************************************************************)
ChildStates == {"unborn", "up", "ok", "failed", "stopped", "wedged"}
Operations == {"idle", "add", "check", "cleanup", "print"}

IsRunning(p) == child[p] \in {"up", "wedged"}
ExitedNonzero(p) == child[p] \in {"failed", "stopped"}

RegistryInit ==
    /\ child = [p \in Procs |-> "unborn"]
    /\ registered = {}
    /\ failed = {}
    /\ lock = Free
    /\ call = [f \in Frames |-> "idle"]
    /\ todo = [f \in Frames |-> {}]
    /\ verdict = [f \in Frames |-> FALSE]

-----------------------------------------------------------------------------
(* The environment of the registry: Popen, and a child that ends by itself. *)

Popen(p) ==
    /\ child[p] = "unborn"
    /\ child' = [child EXCEPT ![p] = "up"]

ChildExits(p) ==
    /\ child[p] = "up"
    /\ \E end \in {"ok", "failed"} : child' = [child EXCEPT ![p] = end]
    /\ UNCHANGED <<registered, failed, lock, call, todo, verdict>>

-----------------------------------------------------------------------------
(* Requests.  add_process brings the process it adds; the other operations *)
(* read the table once they hold the lock.                                 *)

RequestAdd(f, p) ==
    /\ call' = [call EXCEPT ![f] = "add"]
    /\ todo' = [todo EXCEPT ![f] = {p}]

Request(f, operation) ==
    /\ call' = [call EXCEPT ![f] = operation]
    /\ UNCHANGED todo

(* print_failure_details holds the lock while it reads logs, visits nobody. *)
TakeLock(f) ==
    /\ call[f] # "idle"
    /\ lock = Free
    /\ lock' = f
    /\ todo' = IF call[f] \in {"check", "cleanup"}
               THEN [todo EXCEPT ![f] = registered] ELSE todo
    /\ UNCHANGED <<child, registered, failed, call, verdict>>

(* add_process: a name already in the table is replaced.                   *)
AddProcess(f, p) ==
    /\ call[f] = "add"
    /\ registered' = registered \union {p}
    /\ UNCHANGED <<child, failed>>

(* check_failures: a critical process that ended with a code other than 0. *)
CheckProcess(f, p) ==
    /\ call[f] = "check"
    /\ failed' = IF p \notin NonCritical /\ ExitedNonzero(p)
                 THEN failed \union {p} ELSE failed
    /\ UNCHANGED <<child, registered>>

(* Mutant: cleanup leaves the processes that are not critical alone.       *)
TerminateProcess_criticalOnly(f, p) ==
    /\ call[f] = "cleanup"
    /\ child' = IF p \notin NonCritical /\ IsRunning(p)
                THEN [child EXCEPT ![p] = "stopped"] ELSE child
    /\ UNCHANGED <<registered, failed>>

(* cleanup: ManagedProcess.terminate on each running process; terminate    *)
(* gives up on a child that SIGKILL did not end.                           *)
TerminateProcess(f, p) ==
    /\ call[f] = "cleanup"
    /\ IF IsRunning(p)
       THEN \E end \in {"stopped", "wedged"} : child' = [child EXCEPT ![p] = end]
       ELSE UNCHANGED child
    /\ UNCHANGED <<registered, failed>>

Visit(f) ==
    /\ lock = f
    /\ \E p \in todo[f] :
        /\ \/ AddProcess(f, p)
           \/ CheckProcess(f, p)
           \/ TerminateProcess(f, p)
        /\ todo' = [todo EXCEPT ![f] = @ \ {p}]
    /\ UNCHANGED <<lock, call, verdict>>

ReleaseLock(f) ==
    /\ lock = f
    /\ todo[f] = {}
    /\ lock' = Free
    /\ call' = [call EXCEPT ![f] = "idle"]
    /\ verdict' = IF call[f] = "check"
                  THEN [verdict EXCEPT ![f] = (failed # {})] ELSE verdict
    /\ UNCHANGED <<child, registered, failed, todo>>

RegistryStep(f) == TakeLock(f) \/ Visit(f) \/ ReleaseLock(f)

-----------------------------------------------------------------------------
RegistryTypeOK ==
    /\ child \in [Procs -> ChildStates]
    /\ registered \subseteq Procs
    /\ failed \subseteq Procs
    /\ lock \in Frames \union {Free}
    /\ call \in [Frames -> Operations]
    /\ todo \in [Frames -> SUBSET Procs]
    /\ verdict \in [Frames -> BOOLEAN]
=============================================================================
