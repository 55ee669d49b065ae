---------------------------- MODULE Sweep_proofs ----------------------------
(***************************************************************************)
(* Proofs about the sweep: first about SweepLifecycle, for any job         *)
(* configurations, any processes and any number of signals; then about     *)
(* ServingReadiness, which shares no variable with it, for any jobs and    *)
(* any number of deaths.                                                   *)
(***************************************************************************)
EXTENDS SweepLifecycle, ServingReadiness, FiniteSetTheorems, WellFoundedInduction, TLAPS

-----------------------------------------------------------------------------
(* Type correctness.  The registry's variables first: its own steps, then  *)
(* what the other actions do to them.                                      *)

(* A step of a registry call keeps the types of the registry's variables.  *)
LEMMA RegistryStepType ==
    ASSUME RegistryTypeOK, NEW f \in Frames, RegistryStep(f)
    PROVE  RegistryTypeOK'
<1>1. CASE TakeLock(f)
  BY <1>1 DEF TakeLock, RegistryTypeOK, Operations
<1>2. CASE Visit(f)
  <2> USE DEF RegistryTypeOK
  <2>1. PICK p \in todo[f] : /\ \/ AddProcess(f, p)
                                \/ CheckProcess(f, p)
                                \/ TerminateProcess(f, p)
                             /\ todo' = [todo EXCEPT ![f] = @ \ {p}]
    BY <1>2 DEF Visit
  <2>2. p \in Procs
    BY <2>1
  <2>3. UNCHANGED <<lock, call, verdict>>
    BY <1>2 DEF Visit
  <2>4. todo' \in [Frames -> SUBSET Procs]
    BY <2>1
  <2>5. CASE AddProcess(f, p)
    BY <2>2, <2>3, <2>4, <2>5 DEF AddProcess
  <2>6. CASE CheckProcess(f, p)
    BY <2>2, <2>3, <2>4, <2>6 DEF CheckProcess
  <2>7. CASE TerminateProcess(f, p)
    BY <2>2, <2>3, <2>4, <2>7 DEF TerminateProcess, ChildStates
  <2>8. QED
    BY <2>1, <2>5, <2>6, <2>7
<1>3. CASE ReleaseLock(f)
  <2>1. verdict' \in [Frames -> BOOLEAN]
    BY <1>3 DEF ReleaseLock, RegistryTypeOK
  <2>2. QED
    BY <1>3, <2>1 DEF ReleaseLock, RegistryTypeOK, Operations
<1>4. QED
  BY <1>1, <1>2, <1>3 DEF RegistryStep

(* The steps of one stage, as run() takes them, keep the types.            *)
LEMMA RunStageType ==
    ASSUME TypeOK, NEW stage \in DOMAIN NextPc, RunStage(stage),
           UNCHANGED <<config, signalVars, mpc, stop>>
    PROVE  TypeOK'
<1> USE DEF TypeOK, RegistryTypeOK, signalVars
<1>1. config \in ConfigType /\ stage \in Stages /\ stage \in TryPcs
  BY ConfigsAssumption DEF NextPc, Stages, TryPcs
<1>2. Group(stage) \subseteq Procs
  BY <1>1 DEF Group, ConfigType
<1>3. "main" \in Frames
  BY FramesAssumption
<1>4. CASE LaunchIn(stage)
  BY <1>2, <1>4 DEF LaunchIn, Popen, ChildStates, result, host, session, work
<1>5. CASE StageRaises(stage)
  BY <1>5 DEF StageRaises, Raise, Return, Goto, Report, registryVars, host,
              session, work, FinallyPcs
<1>6. CASE RegisterIn(stage)
  BY <1>2, <1>3, <1>6 DEF RegisterIn, RequestAdd, Operations, result, host,
                          session, work
<1>7. CASE StageDone(stage)
  <2>1. NextPc[stage] \in TryPcs
    BY DEF NextPc, TryPcs, Stages
  <2>2. QED
    BY <1>7, <2>1 DEF StageDone, Goto, Report, registryVars, host, session, work
<1>8. QED
  BY <1>4, <1>5, <1>6, <1>7 DEF RunStage

(* The ends of the try block's waits without a limit.                      *)
Reaps == HostClientReaped \/ DownloadReaped \/ ModelStaged

(* The steps of the try block of run() keep the types.                     *)
LEMMA RunTryType ==
    ASSUME TypeOK, RunTry \/ Reaps, UNCHANGED <<config, signalVars, mpc, stop>>
    PROVE  TypeOK'
<1> USE DEF TypeOK, RegistryTypeOK, signalVars
<1>1. /\ config \in ConfigType
      /\ "main" \in Frames
      /\ Group("exporters") \subseteq Procs
  BY ConfigsAssumption, FramesAssumption DEF ConfigType, Group, Stages
<1>2. CASE RunHostSetup
  <2>1. hostRan' \in BOOLEAN
    BY <1>2 DEF RunHostSetup, host
  <2>2. /\ nodes' \in {nodes, "modified"} /\ pc' \in {"host_commands", "head"}
        /\ UNCHANGED <<registryVars, result, session, work>>
    BY <1>2 DEF RunHostSetup, Goto, host
  <2>3. QED
    BY <2>1, <2>2 DEF registryVars, result, session, work, TryPcs, Stages
<1>3. CASE RunHostCommands
  BY <1>3 DEF RunHostCommands, AfterHostCommands, Raise, Return, Goto, Report, registryVars, result,
              session, work, host, TryPcs, Stages, FinallyPcs
<1>4. CASE \/ StartHeadInfrastructure \/ StartMooncakeMaster \/ StartAllWorkers
           \/ StartFrontend \/ StartTachometer
  BY <1>4, RunStageType
     DEF StartHeadInfrastructure, StartMooncakeMaster, StartAllWorkers,
         StartFrontend, StartTachometer, NextPc
<1>5. CASE PrepareModel
  BY <1>5 DEF PrepareModel, ModelReady, Raise, Return, Goto, Report, registryVars,
              result, session, work, host, TryPcs, Stages, FinallyPcs
<1>6. CASE StartPowerTelemetry
  BY <1>6 DEF StartPowerTelemetry, Raise, Return, Goto, Report, registryVars,
              result, work, host, TryPcs, Stages, FinallyPcs
<1>7. CASE StartExporters
  <2>1. CASE StartExporter
    BY <1>1, <2>1 DEF StartExporter, Popen, ChildStates, result, host, session, work
  <2>2. CASE OwnExporter
    <3>1. PICK p \in Launched("exporters") \ registered : RequestAdd("main", p)
      BY <2>2 DEF OwnExporter
    <3>2. p \in Procs
      BY <1>1, <3>1 DEF Launched
    <3>3. QED
      BY <1>1, <2>2, <3>1, <3>2
         DEF OwnExporter, RequestAdd, Operations, result, host, session, work
  <2>3. CASE ExportersLaunched
    BY <2>3 DEF ExportersLaunched, Goto, registryVars, result, host, session, work,
                TryPcs, Stages
  <2>4. CASE WaitForCollector
    BY <2>4 DEF WaitForCollector, Goto, registryVars, result, host, work,
                TryPcs, Stages
  <2>5. QED
    BY <1>7, <2>1, <2>2, <2>3, <2>4 DEF StartExporters
<1>8. CASE Dispatch
  BY <1>8 DEF Dispatch, Raise, Return, Goto, Report, registryVars,
              result, work, host, session, TryPcs, FinallyPcs
<1>9. CASE WaitForServiceReady
  BY <1>9 DEF WaitForServiceReady, Raise, Return, Goto, Report, registryVars,
              result, work, host, session, TryPcs, FinallyPcs
<1>10. CASE ServeUntilStopped
  <2>1. CASE ServeCheck
    BY <1>1, <2>1 DEF ServeCheck, Request, Operations, Goto, result, work, host,
                      session, TryPcs
  <2>2. CASE ServeJudge
    BY <2>2 DEF ServeJudge, Return, Goto, registryVars, result, work, host,
                session, TryPcs, FinallyPcs
  <2>3. CASE ServeStopped
    BY <2>3 DEF ServeStopped, Return, Goto, registryVars, work, host, session,
                FinallyPcs
  <2>4. QED
    BY <1>10, <2>1, <2>2, <2>3 DEF ServeUntilStopped
<1>11. CASE RunBenchmarkScript
  <2>1. CASE StartBenchmark
    BY <2>1 DEF StartBenchmark, Return, Goto, registryVars, host, session,
                TryPcs, FinallyPcs
  <2>2. CASE EnterBenchmarkTry
    <3>1. reaped' = "no" /\ allows' \in BOOLEAN
      BY <2>2 DEF EnterBenchmarkTry
    <3>2. pc' = "bench_wait"
          /\ UNCHANGED <<registryVars, result, host, session, bench, eval>>
      BY <2>2 DEF EnterBenchmarkTry, Goto
    <3>3. QED
      BY <3>1, <3>2 DEF registryVars, result, host, session, TryPcs
  <2>3. CASE WaitForBenchmark
    <3>1. reaped' \in {"yes", reaped} /\ allows' \in BOOLEAN
      BY <2>3 DEF WaitForBenchmark
    <3>2. pc' = "bench_finally"
          /\ UNCHANGED <<registryVars, result, host, session, bench, eval>>
      BY <2>3 DEF WaitForBenchmark, Goto
    <3>3. QED
      BY <3>1, <3>2 DEF registryVars, result, host, session, TryPcs
  <2>4. CASE ReapBenchmark
    <3>1. /\ bench' \in {"none", "up", "ok", "failed", "stopped", "killed", "wedged"}
          /\ reaped' \in {"unset", "no", "yes"} /\ allows' \in BOOLEAN
      BY <2>4 DEF ReapBenchmark, Reap
    <3>2. /\ exit_code' \in {0, 1}
          /\ pc' \in TryPcs \union FinallyPcs
          /\ status' \in {status, "benchmark"}
      BY <2>4 DEF ReapBenchmark, BenchmarkReturns, Goto, Report, TryPcs, FinallyPcs
    <3>3. QED
      BY <2>4, <3>1, <3>2 DEF ReapBenchmark, registryVars, host, session
  <2>5. QED
    BY <1>11, <2>1, <2>2, <2>3, <2>4 DEF RunBenchmarkScript
<1>12. CASE RunPostEval
  BY <1>12 DEF RunPostEval, StartEval, WaitForEval, EvalCode, Return, Goto,
               registryVars, host, session, TryPcs, FinallyPcs
<1>13. CASE Reaps
  BY <1>13 DEF Reaps, HostClientReaped, DownloadReaped, ModelStaged, AfterHostCommands,
               ModelReady, Raise, Return, Goto, Report, registryVars, result, session,
               work, host, TryPcs, Stages, FinallyPcs
<1>14. QED
  BY <1>2, <1>3, <1>4, <1>5, <1>6, <1>7, <1>8, <1>9, <1>10, <1>11, <1>12, <1>13 DEF RunTry

(* The finally block of run() keeps the types.                             *)
LEMMA RunFinallyType ==
    ASSUME TypeOK, RunFinally \/ SetStop \/ TeardownClientReaped,
           UNCHANGED <<config, signalVars, mpc>>, stop' \in BOOLEAN
    PROVE  TypeOK'
<1> USE DEF TypeOK, RegistryTypeOK, signalVars
<1>1. "main" \in Frames
  BY FramesAssumption
<1>2. CASE BeginFinalize
  <2>1. interrupted' \in BOOLEAN
    BY <1>2 DEF BeginFinalize
  <2>2. /\ pc' \in {"settle", "set_stop"}
        /\ UNCHANGED <<registryVars, result, host, power, windows, work>>
    BY <1>2 DEF BeginFinalize, Goto
  <2>3. QED
    BY <2>1, <2>2 DEF registryVars, result, host, work, FinallyPcs
<1>3. CASE FinalizePower
  <2>1. /\ power' \in {"invalid", "broken", "published"}
        /\ windows' \in {"converted", windows}
        /\ exit_code' \in {1, exit_code}
    BY <1>3 DEF FinalizePower
  <2>2. /\ pc' = "set_stop"
        /\ UNCHANGED <<registryVars, process_code, status, host, interrupted, work>>
    BY <1>3 DEF FinalizePower, Goto
  <2>3. QED
    BY <2>1, <2>2 DEF registryVars, host, work, FinallyPcs
<1>4. CASE SetStop
  BY <1>1, <1>4 DEF SetStop, Request, Operations, Goto, result, host, session,
                    work, FinallyPcs
<1>5. CASE RunHostTeardown \/ TeardownClientReaped
  <2>1. /\ nodes' \in {nodes, "restored"} /\ pc' \in {"details", "teardown_kill"}
        /\ UNCHANGED <<registryVars, result, hostRan, session, work>>
    BY <1>5 DEF RunHostTeardown, TeardownClientReaped, Goto
  <2>2. QED
    BY <2>1 DEF registryVars, result, session, work, FinallyPcs
<1>6. CASE PrintFailureDetails
  <2>1. call' \in [Frames -> Operations] /\ todo' = todo
    BY <1>1, <1>6 DEF PrintFailureDetails, Request, Operations
  <2>2. /\ pc' = "postprocess"
        /\ UNCHANGED <<child, registered, failed, lock, verdict, result, host,
                       session, work>>
    BY <1>6 DEF PrintFailureDetails, Goto
  <2>3. QED
    BY <2>1, <2>2 DEF result, host, session, work, FinallyPcs
<1>7. CASE RunPostprocess
  <2>1. /\ status' \in {status, "benchmark"} /\ pc' = "report_completed"
        /\ UNCHANGED <<registryVars, exit_code, process_code, host, session, work>>
    BY <1>7 DEF RunPostprocess, Report, Goto
  <2>2. QED
    BY <2>1 DEF registryVars, host, session, work, FinallyPcs
<1>8. CASE ReportCompleted
  <2>1. /\ status' \in {"completed", "failed"} /\ process_code' \in {1, exit_code}
        /\ pc' = "exited"
        /\ UNCHANGED <<registryVars, exit_code, host, session, work>>
    BY <1>8 DEF ReportCompleted, Report, Goto
  <2>2. QED
    BY <2>1 DEF registryVars, host, session, work
<1>9. QED
  BY <1>2, <1>3, <1>4, <1>5, <1>6, <1>7, <1>8 DEF RunFinally

(* The handler's frames are frames.                                        *)
LEMMA HandlerFrame == \A level : HandlerAt(level) \in {"handler", "nested"} \intersect Frames
BY FramesAssumption DEF HandlerAt

(* The types hold at the start.                                            *)
LEMMA InitType == Init => TypeOK
<1> SUFFICES ASSUME Init PROVE TypeOK
  OBVIOUS
<1>1. RegistryTypeOK
  BY DEF Init, RegistryInit, RegistryTypeOK, ChildStates, Operations
<1>2. signals \in 0..config.signals
  BY ConfigsAssumption DEF Init, ConfigType
<1>3. QED
  <2>1. unwinding \in BOOLEAN /\ stop \in BOOLEAN /\ hostRan \in BOOLEAN
        /\ interrupted \in BOOLEAN /\ allows \in BOOLEAN
    BY DEF Init
  <2>2. /\ config \in Configs /\ pc = "host_setup" /\ depth = 0
        /\ mpc = "loop" /\ exit_code = 1 /\ process_code = 2
        /\ status = "starting" /\ nodes = "clean" /\ power = "none"
        /\ windows = "untouched" /\ bench = "none" /\ reaped = "unset"
        /\ eval = "none"
    BY DEF Init
  <2>3. QED
    BY <1>1, <1>2, <2>1, <2>2 DEF TypeOK, TryPcs

(* Every step keeps them.                                                  *)
LEMMA StepType == TypeOK /\ [Next]_vars => TypeOK'
<1> SUFFICES ASSUME TypeOK, [Next]_vars PROVE TypeOK'
  OBVIOUS
<1>1. CASE MainThread
  <2>1. CASE RunTry /\ UNCHANGED stop
    BY <1>1, <2>1, RunTryType DEF MainThread
  <2>2. CASE (RunFinally /\ UNCHANGED stop) \/ SetStop
    <3>1. stop' \in BOOLEAN
      BY <2>2 DEF SetStop, TypeOK
    <3>2. QED
      BY <1>1, <2>2, <3>1, RunFinallyType DEF MainThread
  <2>3. CASE MainInRegistry /\ UNCHANGED stop
    BY <1>1, <2>3, RegistryStepType, FramesAssumption
       DEF MainThread, MainInRegistry, TypeOK, result, host, session, work, signalVars
  <2>4. QED
    BY <1>1, <2>1, <2>2, <2>3 DEF MainThread
<1>2. CASE SignalArrives
  <2>1. HandlerAt(depth + 1) \in Frames
    BY HandlerFrame
  <2>2. RegistryTypeOK'
    BY <1>2, <2>1 DEF SignalArrives, Request, TypeOK, RegistryTypeOK, Operations
  <2>3. signals' \in 0..config.signals /\ depth' \in 0..2
    BY <1>2, ConfigsAssumption DEF SignalArrives, TypeOK, ConfigType
  <2>4. QED
    BY <1>2, <2>2, <2>3 DEF SignalArrives, TypeOK, result, host, session, work
<1>3. CASE HandlerInRegistry
  BY <1>3, RegistryStepType, HandlerFrame
     DEF HandlerInRegistry, TypeOK, result, host, session, work, signalVars
<1>4. CASE HandlerExits
  <2>1. RegistryTypeOK'
    BY <1>4 DEF HandlerExits, TypeOK, RegistryTypeOK, Operations
  <2>2. pc' \in TryPcs \union FinallyPcs \union {"exited"} /\ process_code' \in {0, 1, 2}
    BY <1>4 DEF HandlerExits, TypeOK, TryPcs, FinallyPcs, Goto
  <2>3. QED
    BY <1>4, <2>1, <2>2 DEF HandlerExits, TypeOK, host, session, work
<1>5. CASE Monitor
  <2> USE DEF TypeOK, monitorFrame, result, host, session, work, signalVars
  <2>1. "monitor" \in Frames
    BY FramesAssumption
  <2>2. CASE MonitorChecks
    BY <1>5, <2>1, <2>2 DEF Monitor, MonitorChecks, Request, RegistryTypeOK,
                            Operations
  <2>3. CASE MonitorJudges
    <3>1. call' \in [Frames -> Operations] /\ todo' \in [Frames -> SUBSET Procs]
      BY <2>1, <2>3 DEF MonitorJudges, Request, RegistryTypeOK, Operations
    <3>2. stop' \in BOOLEAN /\ mpc' \in {"loop", "judge", "dead"}
      BY <2>3 DEF MonitorJudges
    <3>3. QED
      BY <1>5, <2>3, <3>1, <3>2 DEF Monitor, MonitorJudges, RegistryTypeOK
  <2>4. CASE RegistryStep("monitor") /\ UNCHANGED <<mpc, stop>>
    BY <1>5, <2>1, <2>4, RegistryStepType DEF Monitor
  <2>5. QED
    BY <1>5, <2>2, <2>3, <2>4 DEF Monitor
<1>6. CASE UntimedWaitEnds
  <2>1. UNCHANGED <<config, signalVars, mpc, stop>> /\ stop' \in BOOLEAN
    BY <1>6 DEF UntimedWaitEnds, TypeOK
  <2>2. CASE Reaps
    BY <2>1, <2>2, RunTryType
  <2>3. CASE TeardownClientReaped
    BY <2>1, <2>3, RunFinallyType
  <2>4. QED
    BY <1>6, <2>2, <2>3 DEF UntimedWaitEnds, Reaps
<1>7. CASE Environment
  <2>1. RegistryTypeOK'
    BY <1>7 DEF Environment, ChildExits, TypeOK, RegistryTypeOK, ChildStates,
                registryVars
  <2>2. QED
    BY <1>7, <2>1 DEF Environment, ClientExits, TypeOK, result, host, session,
                      work, signalVars
<1>8. CASE UNCHANGED vars
  BY <1>8 DEF vars, TypeOK, RegistryTypeOK, registryVars, result, host, session,
              work, signalVars
<1>9. QED
  BY <1>1, <1>2, <1>3, <1>4, <1>5, <1>6, <1>7, <1>8 DEF Next, SignalHandler

(* Every variable keeps its type in every behaviour of the orchestrator.   *)
THEOREM TypeCorrect == Spec => []TypeOK
BY InitType, StepType, PTL DEF Spec

-----------------------------------------------------------------------------
(***************************************************************************)
(* The inductive invariant behind RegisteredStopped and                    *)
(* TeardownOnIdleNodes.  Neither is inductive: that nothing registered is  *)
(* up when the process ends follows from what a clean-up has done so far,  *)
(* from who may change the registry after it, and from what the handler    *)
(* on top of the main thread still has to do before SystemExit.            *)
(***************************************************************************)
Quiet == \A p \in registered : child[p] # "up"

Handlers == {"handler", "nested"}
CleanedPcs == {"teardown_kill", "details", "postprocess", "report_completed", "exited"}

(* Only launched processes are registered or about to be.                  *)
RegisteredBorn ==
    /\ \A p \in registered : child[p] # "unborn"
    /\ call["main"] = "add" => \A p \in todo["main"] : child[p] # "unborn"

(* The lock is held by a frame that executes an operation; the frames that *)
(* do not exist execute none.                                              *)
LockDiscipline ==
    /\ lock # Free => call[lock] # "idle"
    /\ depth = 0 => call["handler"] = "idle"
    /\ depth < 2 => call["nested"] = "idle"

(* What each thread may be asking the registry for.                        *)
CallDiscipline ==
    /\ call["main"] = "add" => pc \in Stages
    /\ pc = "teardown" => call["main"] \in {"idle", "cleanup"}
    /\ \A h \in Handlers : call[h] \in {"idle", "cleanup"}
    /\ call["monitor"] \in {"idle", "check", "cleanup"}

(* A clean-up in progress has stopped whatever it has visited.             *)
CleanupProgress ==
    lock # Free /\ call[lock] = "cleanup" =>
        \A p \in registered \ todo[lock] : child[p] # "up"

(* A handler that is about to raise SystemExit has cleaned up, and took    *)
(* the lock to do so: no frame below it holds it.                          *)
HandlerDone ==
    depth > 0 /\ call[HandlerAt(depth)] = "idle" =>
        Quiet /\ lock \in {Free, "monitor"}

(* The finally block from the end of its clean-up on.                      *)
MainDone ==
    /\ pc = "teardown" /\ call["main"] = "idle" => Quiet
    /\ pc \in CleanedPcs => Quiet
    /\ nodes = "restored" => pc \in CleanedPcs

IInv == /\ TypeOK
        /\ RegisteredBorn
        /\ LockDiscipline
        /\ CallDiscipline
        /\ CleanupProgress
        /\ HandlerDone
        /\ MainDone

Parts == RegisteredBorn /\ LockDiscipline /\ CallDiscipline /\ CleanupProgress
         /\ HandlerDone /\ MainDone

(* A step inside a registry call keeps the parts: an added process was     *)
(* launched, a visited process is up no more, and who gives the lock back  *)
(* after a clean-up has visited every registered process.                  *)
LEMMA RegistryStepInv ==
    ASSUME IInv, NEW f \in Frames, RegistryStep(f), UNCHANGED <<depth, pc, nodes>>,
           f = "main" => depth = 0,
           f \in Handlers => depth > 0 /\ f = HandlerAt(depth)
    PROVE  Parts'
<1> USE DEF Handlers
<1>1. /\ child \in [Procs -> ChildStates] /\ registered \subseteq Procs
      /\ call \in [Frames -> Operations] /\ todo \in [Frames -> SUBSET Procs]
      /\ lock \in Frames \union {Free} /\ depth \in 0..2
  BY DEF IInv, TypeOK, RegistryTypeOK
<1>2. Frames = {"main", "handler", "nested", "monitor"} /\ Free \notin Frames
  BY FramesAssumption, FreeAssumption
<1>3. HandlerAt(depth) = IF depth = 1 THEN "handler" ELSE "nested"
  BY DEF HandlerAt
<1>4. CASE TakeLock(f)
  <2>1. /\ lock = Free /\ lock' = f /\ call[f] # "idle"
        /\ UNCHANGED <<child, registered, call>>
        /\ todo' = IF call[f] \in {"check", "cleanup"}
                   THEN [todo EXCEPT ![f] = registered] ELSE todo
    BY <1>4 DEF TakeLock
  <2>2. RegisteredBorn'
    BY <1>1, <1>2, <2>1 DEF IInv, RegisteredBorn
  <2>3. LockDiscipline' /\ CallDiscipline'
    BY <1>2, <2>1 DEF IInv, LockDiscipline, CallDiscipline
  <2>4. CleanupProgress'
    BY <1>1, <1>2, <2>1 DEF CleanupProgress
  <2>5. HandlerDone'
    BY <1>1, <1>2, <1>3, <2>1 DEF IInv, HandlerDone, HandlerAt, Quiet
  <2>6. MainDone'
    BY <2>1 DEF IInv, MainDone, Quiet
  <2>7. QED
    BY <2>2, <2>3, <2>4, <2>5, <2>6 DEF Parts
<1>5. CASE Visit(f)
  <2>1. PICK p \in todo[f] : /\ \/ AddProcess(f, p)
                                \/ CheckProcess(f, p)
                                \/ TerminateProcess(f, p)
                             /\ todo' = [todo EXCEPT ![f] = @ \ {p}]
    BY <1>5 DEF Visit
  <2>2. lock = f /\ UNCHANGED <<lock, call>>
    BY <1>5 DEF Visit
  <2>3. LockDiscipline' /\ CallDiscipline'
    BY <2>2 DEF IInv, LockDiscipline, CallDiscipline
  <2>4. CASE AddProcess(f, p)
    <3>1. call[f] = "add" /\ registered' = registered \union {p} /\ UNCHANGED child
      BY <2>4 DEF AddProcess
    <3>2. f = "main" /\ depth = 0 /\ pc \in Stages
      BY <1>2, <3>1 DEF IInv, CallDiscipline
    <3>3. RegisteredBorn'
      BY <1>1, <1>2, <2>1, <2>2, <3>1, <3>2 DEF IInv, RegisteredBorn
    <3>4. CleanupProgress' /\ HandlerDone'
      BY <1>1, <2>2, <3>1, <3>2 DEF CleanupProgress, HandlerDone
    <3>5. MainDone'
      BY <3>2 DEF IInv, MainDone, Stages, CleanedPcs
    <3>6. QED
      BY <2>3, <3>3, <3>4, <3>5 DEF Parts
  <2>5. CASE CheckProcess(f, p)
    <3>1. call[f] = "check" /\ UNCHANGED <<child, registered>>
      BY <2>5 DEF CheckProcess
    <3>2. RegisteredBorn'
      BY <1>1, <1>2, <2>1, <2>2, <3>1 DEF IInv, RegisteredBorn
    <3>3. CleanupProgress'
      BY <2>2, <3>1 DEF CleanupProgress
    <3>4. HandlerDone' /\ MainDone'
      BY <2>2, <3>1 DEF IInv, HandlerDone, HandlerAt, MainDone, Quiet
    <3>5. QED
      BY <2>3, <3>2, <3>3, <3>4 DEF Parts
  <2>6. CASE TerminateProcess(f, p)
    <3>1. call[f] = "cleanup" /\ UNCHANGED registered
      BY <2>6 DEF TerminateProcess
    <3>2. /\ child'[p] \notin {"up", "unborn"} \/ (UNCHANGED child /\ child[p] # "up")
          /\ \A q \in Procs \ {p} : child'[q] = child[q]
      BY <1>1, <2>1, <2>6 DEF TerminateProcess, IsRunning
    <3>3. RegisteredBorn'
      BY <1>1, <1>2, <2>1, <2>2, <3>1, <3>2 DEF IInv, RegisteredBorn
    <3>4. CleanupProgress'
      BY <1>1, <1>2, <2>1, <2>2, <3>1, <3>2 DEF IInv, CleanupProgress
    <3>5. Quiet => Quiet'
      BY <1>1, <2>1, <3>1, <3>2 DEF Quiet
    <3>6. HandlerDone' /\ MainDone'
      BY <2>2, <3>5 DEF IInv, HandlerDone, HandlerAt, MainDone
    <3>7. QED
      BY <2>3, <3>3, <3>4, <3>6 DEF Parts
  <2>7. QED
    BY <2>1, <2>4, <2>5, <2>6
<1>6. CASE ReleaseLock(f)
  <2>1. /\ lock = f /\ todo[f] = {} /\ lock' = Free
        /\ call' = [call EXCEPT ![f] = "idle"]
        /\ UNCHANGED <<child, registered, todo>>
    BY <1>6 DEF ReleaseLock
  <2>2. call[f] = "cleanup" => Quiet
    BY <1>2, <2>1 DEF IInv, CleanupProgress, Quiet
  <2>3. call[f] # "idle"
    BY <1>2, <2>1 DEF IInv, LockDiscipline
  <2>4. RegisteredBorn' /\ LockDiscipline' /\ CallDiscipline' /\ CleanupProgress'
    BY <1>1, <1>2, <2>1 DEF IInv, RegisteredBorn, LockDiscipline, CallDiscipline,
                            CleanupProgress
  <2>5. HandlerDone'
    BY <1>1, <1>2, <1>3, <2>1, <2>2, <2>3
       DEF IInv, HandlerDone, HandlerAt, CallDiscipline, Quiet
  <2>6. MainDone'
    BY <1>1, <1>2, <2>1, <2>2, <2>3 DEF IInv, MainDone, CallDiscipline, Quiet
  <2>7. QED
    BY <2>4, <2>5, <2>6 DEF Parts
<1>7. QED
  BY <1>4, <1>5, <1>6 DEF RegistryStep

(* A statement of run() that leaves the registry alone.                    *)
LEMMA QuietStepInv ==
    ASSUME IInv, depth = 0, call["main"] = "idle",
           UNCHANGED <<registryVars, depth>>,
           pc' = "teardown" \/ pc' \in CleanedPcs => Quiet,
           nodes' = "restored" => pc' \in CleanedPcs
    PROVE  Parts'
BY DEF IInv, Parts, registryVars, RegisteredBorn, LockDiscipline, CallDiscipline,
       CleanupProgress, HandlerDone, MainDone, Quiet

(* A launch: the new process is not registered yet.                        *)
LEMMA PopenInv ==
    ASSUME IInv, depth = 0, call["main"] = "idle", NEW p \in Procs, Popen(p),
           UNCHANGED <<registered, lock, call, todo, depth, pc, nodes>>
    PROVE  Parts'
<1>1. /\ child[p] = "unborn" /\ child'[p] = "up"
      /\ \A q \in Procs \ {p} : child'[q] = child[q]
  BY DEF Popen, IInv, TypeOK, RegistryTypeOK
<1>2. registered \subseteq Procs /\ p \notin registered
  BY <1>1 DEF IInv, TypeOK, RegistryTypeOK, RegisteredBorn
<1>3. \A q \in registered : child'[q] = child[q]
  BY <1>1, <1>2
<1>4. RegisteredBorn' /\ CleanupProgress'
  BY <1>3 DEF IInv, RegisteredBorn, CleanupProgress
<1>5. HandlerDone' /\ MainDone'
  BY <1>3 DEF IInv, HandlerDone, MainDone, Quiet
<1>6. QED
  BY <1>4, <1>5 DEF IInv, Parts, LockDiscipline, CallDiscipline

(* A call that the main thread makes of the registry.                      *)
LEMMA RequestInv ==
    ASSUME IInv, depth = 0, call["main"] = "idle", NEW operation \in Operations \ {"idle"},
           call' = [call EXCEPT !["main"] = operation],
           UNCHANGED <<child, registered, lock, depth, nodes>>,
           \A f \in Frames \ {"main"} : todo'[f] = todo[f],
           operation = "add" => /\ pc' \in Stages
                                /\ \A p \in todo'["main"] : child[p] # "unborn",
           pc' = "teardown" => operation = "cleanup",
           pc' \in CleanedPcs => Quiet,
           nodes = "restored" => pc' \in CleanedPcs
    PROVE  Parts'
<1>1. /\ call \in [Frames -> Operations] /\ lock \in Frames \union {Free}
      /\ depth \in 0..2
  BY DEF IInv, TypeOK, RegistryTypeOK
<1>2. Frames = {"main", "handler", "nested", "monitor"} /\ Free \notin Frames
  BY FramesAssumption, FreeAssumption
<1>3. lock # "main"
  BY <1>2 DEF IInv, LockDiscipline
<1>4. RegisteredBorn' /\ LockDiscipline' /\ CallDiscipline'
  BY <1>1, <1>2, <1>3 DEF IInv, RegisteredBorn, LockDiscipline, CallDiscipline, Handlers
<1>5. CleanupProgress' /\ HandlerDone' /\ MainDone'
  BY <1>1, <1>2, <1>3 DEF IInv, CleanupProgress, HandlerDone, MainDone, Quiet
<1>6. QED
  BY <1>4, <1>5 DEF Parts

(***************************************************************************)
(* The statements of run() by what they do to the registry.  Before its    *)
(* clean-up the main thread leaves it alone, launches, or calls it.        *)
(***************************************************************************)
EarlyPcs == TryPcs \union {"finalize", "settle", "set_stop"}

Leaves == /\ UNCHANGED registryVars
          /\ pc' \in EarlyPcs
          /\ nodes' \in {nodes, "modified"}

Launches == /\ \E p \in Procs : Popen(p)
            /\ UNCHANGED <<registered, lock, call, todo, pc, nodes>>

(* A statement that asks the registry to add a launched process, or to     *)
(* check the failures.                                                     *)
Calls == /\ \/ /\ pc \in Stages /\ UNCHANGED pc
               /\ \E p \in Procs : child[p] # "unborn" /\ RequestAdd("main", p)
            \/ Request("main", "check") /\ pc' = "judge"
         /\ UNCHANGED <<child, registered, lock, nodes>>

(* A launch stage only launches, calls the registry or leaves it alone.    *)
LEMMA RunStageShape ==
    ASSUME TypeOK, NEW stage \in DOMAIN NextPc, RunStage(stage)
    PROVE  /\ depth = 0 /\ call["main"] = "idle" /\ pc \in EarlyPcs
           /\ Leaves \/ Launches \/ Calls
<1>1. /\ stage \in Stages /\ NextPc[stage] \in EarlyPcs /\ stage \in EarlyPcs
  BY DEF NextPc, Stages, EarlyPcs, TryPcs
<1>2. Group(stage) \subseteq Procs
  BY <1>1, ConfigsAssumption DEF TypeOK, ConfigType, Group
<1>3. depth = 0 /\ call["main"] = "idle" /\ pc = stage
  BY DEF RunStage, LaunchIn, StageRaises, RegisterIn, StageDone, At
<1>4. CASE LaunchIn(stage)
  BY <1>1, <1>2, <1>3, <1>4 DEF LaunchIn, Launches, host
<1>5. CASE StageRaises(stage)
  BY <1>1, <1>3, <1>5 DEF StageRaises, Raise, Return, Goto, Leaves, EarlyPcs, host
<1>6. CASE RegisterIn(stage)
  BY <1>1, <1>2, <1>3, <1>6 DEF RegisterIn, Launched, Calls, host
<1>7. CASE StageDone(stage)
  BY <1>1, <1>3, <1>7 DEF StageDone, Goto, Leaves, host
<1>8. QED
  BY <1>1, <1>3, <1>4, <1>5, <1>6, <1>7 DEF RunStage

(* So does every other statement of the try block of run().                *)
LEMMA RunTryShape ==
    ASSUME TypeOK, RunTry \/ Reaps
    PROVE  /\ depth = 0 /\ call["main"] = "idle" /\ pc \in EarlyPcs
           /\ Leaves \/ Launches \/ Calls
<1> USE DEF EarlyPcs, TryPcs, Stages
<1>1. CASE RunHostSetup
  BY <1>1 DEF RunHostSetup, At, Goto, Leaves, host
<1>2. CASE RunHostCommands
  BY <1>2 DEF RunHostCommands, AfterHostCommands, At, Raise, Return, Goto, Leaves, host
<1>3. CASE \/ StartHeadInfrastructure \/ StartMooncakeMaster \/ StartAllWorkers
           \/ StartFrontend \/ StartTachometer
  BY <1>3, RunStageShape
     DEF StartHeadInfrastructure, StartMooncakeMaster, StartAllWorkers,
         StartFrontend, StartTachometer, NextPc
<1>4. CASE PrepareModel
  BY <1>4 DEF PrepareModel, ModelReady, At, Raise, Return, Goto, Leaves, host
<1>5. CASE StartPowerTelemetry
  BY <1>5 DEF StartPowerTelemetry, At, Raise, Return, Goto, Leaves, host
<1>6. CASE StartExporters
  <2>1. Group("exporters") \subseteq Procs
    BY ConfigsAssumption DEF TypeOK, ConfigType, Group
  <2>2. CASE StartExporter
    BY <2>1, <2>2 DEF StartExporter, At, Launches, host
  <2>3. CASE OwnExporter
    BY <2>1, <2>3 DEF OwnExporter, Launched, At, Calls, host
  <2>4. CASE ExportersLaunched \/ WaitForCollector
    BY <2>4 DEF ExportersLaunched, WaitForCollector, At, Goto, Leaves, host
  <2>5. QED
    BY <1>6, <2>2, <2>3, <2>4 DEF StartExporters
<1>7. CASE Dispatch \/ WaitForServiceReady
  BY <1>7 DEF Dispatch, WaitForServiceReady, At, Raise, Return, Goto, Leaves, host
<1>8. CASE ServeUntilStopped
  <2>1. CASE ServeCheck
    BY <2>1 DEF ServeCheck, At, Goto, Calls, host
  <2>2. CASE ServeJudge \/ ServeStopped
    BY <2>2 DEF ServeJudge, ServeStopped, At, Return, Goto, Leaves, host
  <2>3. QED
    BY <1>8, <2>1, <2>2 DEF ServeUntilStopped
<1>9. CASE RunBenchmarkScript
  <2>1. CASE StartBenchmark \/ EnterBenchmarkTry \/ WaitForBenchmark
    BY <2>1 DEF StartBenchmark, EnterBenchmarkTry, WaitForBenchmark, At, Return,
                Goto, Leaves, host
  <2>2. CASE ReapBenchmark
    BY <2>2 DEF ReapBenchmark, BenchmarkReturns, At, Goto, Leaves, host
  <2>3. QED
    BY <1>9, <2>1, <2>2 DEF RunBenchmarkScript
<1>10. CASE RunPostEval
  BY <1>10 DEF RunPostEval, StartEval, WaitForEval, At, Return, Goto, Leaves, host
<1>11. CASE Reaps
  BY <1>11 DEF Reaps, HostClientReaped, DownloadReaped, ModelStaged, AfterHostCommands,
               ModelReady, At, Raise, Return, Goto, Leaves, host
<1>12. QED
  BY <1>1, <1>2, <1>3, <1>4, <1>5, <1>6, <1>7, <1>8, <1>9, <1>10, <1>11 DEF RunTry

(* Every statement of the try block keeps the invariant.                   *)
LEMMA RunTryInv ==
    ASSUME IInv, RunTry \/ Reaps, UNCHANGED depth
    PROVE  Parts'
<1>1. /\ depth = 0 /\ call["main"] = "idle" /\ pc \in EarlyPcs
      /\ Leaves \/ Launches \/ Calls
  BY RunTryShape DEF IInv
<1>2. EarlyPcs \intersect (CleanedPcs \union {"teardown"}) = {}
  BY DEF EarlyPcs, TryPcs, Stages, CleanedPcs
<1>3. nodes # "restored"
  BY <1>1, <1>2 DEF IInv, MainDone
<1>4. CASE Leaves
  BY <1>1, <1>2, <1>3, <1>4, QuietStepInv DEF Leaves
<1>5. CASE Launches
  BY <1>1, <1>5, PopenInv DEF Launches
<1>6. CASE Calls
  <2>1. /\ call \in [Frames -> Operations] /\ todo \in [Frames -> SUBSET Procs]
        /\ "main" \in Frames
    BY FramesAssumption DEF IInv, TypeOK, RegistryTypeOK
  <2>2. CASE /\ pc \in Stages /\ UNCHANGED pc
             /\ \E p \in Procs : child[p] # "unborn" /\ RequestAdd("main", p)
    <3>1. pc' \in Stages /\ pc' # "teardown" /\ pc' \notin CleanedPcs
      BY <1>1, <1>2, <2>2
    <3>2. /\ call' = [call EXCEPT !["main"] = "add"]
          /\ \A f \in Frames \ {"main"} : todo'[f] = todo[f]
          /\ \A p \in todo'["main"] : child[p] # "unborn"
      BY <2>1, <2>2 DEF RequestAdd
    <3>3. QED
      BY <1>1, <1>3, <1>6, <3>1, <3>2, RequestInv DEF Calls, Operations
  <2>3. CASE Request("main", "check") /\ pc' = "judge"
    <3>1. pc' # "teardown" /\ pc' \notin CleanedPcs
      BY <2>3 DEF CleanedPcs
    <3>2. QED
      BY <1>1, <1>3, <1>6, <2>3, <3>1, RequestInv DEF Calls, Request, Operations
  <2>4. QED
    BY <1>6, <2>2, <2>3 DEF Calls
<1>7. QED
  BY <1>1, <1>4, <1>5, <1>6

(* Every statement of the finally block keeps the invariant.               *)
LEMMA RunFinallyInv ==
    ASSUME IInv, RunFinally \/ SetStop \/ TeardownClientReaped, UNCHANGED depth
    PROVE  Parts'
<1>1. depth = 0 /\ call["main"] = "idle"
  BY DEF RunFinally, BeginFinalize, FinalizePower, SetStop, RunHostTeardown,
         TeardownClientReaped, PrintFailureDetails, RunPostprocess, ReportCompleted, At
<1>2. CASE BeginFinalize \/ FinalizePower
  <2>1. /\ UNCHANGED <<registryVars, nodes>> /\ pc \in {"finalize", "settle"}
        /\ pc' \in {"settle", "set_stop"}
    BY <1>2 DEF BeginFinalize, FinalizePower, At, Goto, host
  <2>2. QED
    BY <1>1, <2>1, QuietStepInv DEF IInv, MainDone, CleanedPcs
<1>3. CASE SetStop
  <2>1. /\ call' = [call EXCEPT !["main"] = "cleanup"] /\ UNCHANGED todo
        /\ UNCHANGED <<child, registered, lock, nodes>>
        /\ pc = "set_stop" /\ pc' = "teardown"
    BY <1>3 DEF SetStop, Request, At, Goto, host
  <2>2. QED
    BY <1>1, <2>1, RequestInv DEF IInv, MainDone, CleanedPcs, Operations
<1>4. CASE RunHostTeardown \/ TeardownClientReaped
  <2>1. /\ pc \in {"teardown", "teardown_kill"} /\ pc' \in {"details", "teardown_kill"}
        /\ UNCHANGED registryVars
    BY <1>4 DEF RunHostTeardown, TeardownClientReaped, At, Goto
  <2>2. QED
    BY <1>1, <2>1, QuietStepInv DEF IInv, MainDone, CleanedPcs
<1>5. CASE PrintFailureDetails
  <2>1. /\ pc = "details" /\ pc' = "postprocess"
        /\ UNCHANGED <<child, registered, failed, lock, verdict, nodes>>
        /\ Request("main", "print") \/ UNCHANGED <<call, todo>>
    BY <1>5 DEF PrintFailureDetails, At, Goto, host
  <2>2. Quiet
    BY <2>1 DEF IInv, MainDone, CleanedPcs
  <2>3. CASE Request("main", "print")
    BY <1>1, <2>1, <2>2, <2>3, RequestInv DEF Request, CleanedPcs, Operations
  <2>4. CASE UNCHANGED <<call, todo>>
    BY <1>1, <2>1, <2>2, <2>4, QuietStepInv DEF registryVars, CleanedPcs
  <2>5. QED
    BY <2>1, <2>3, <2>4
<1>6. CASE RunPostprocess \/ ReportCompleted
  <2>1. /\ pc \in CleanedPcs /\ pc' \in CleanedPcs
        /\ UNCHANGED <<registryVars, nodes>>
    BY <1>6 DEF RunPostprocess, ReportCompleted, At, Goto, host, CleanedPcs
  <2>2. QED
    BY <1>1, <2>1, QuietStepInv DEF IInv, MainDone
<1>7. QED
  BY <1>2, <1>3, <1>4, <1>5, <1>6 DEF RunFinally

(* A signal, the end of its handler, the monitor and the children.         *)
LEMMA OtherStepsInv ==
    ASSUME IInv, SignalArrives \/ HandlerExits \/ Monitor \/ Environment
    PROVE  Parts'
<1>1. /\ child \in [Procs -> ChildStates] /\ registered \subseteq Procs
      /\ call \in [Frames -> Operations] /\ todo \in [Frames -> SUBSET Procs]
      /\ lock \in Frames \union {Free} /\ depth \in 0..2
  BY DEF IInv, TypeOK, RegistryTypeOK
<1>2. Frames = {"main", "handler", "nested", "monitor"} /\ Free \notin Frames
  BY FramesAssumption, FreeAssumption
<1>3. CASE SignalArrives
  <2>1. /\ depth \in {0, 1} /\ depth' = depth + 1
        /\ call' = [call EXCEPT ![HandlerAt(depth + 1)] = "cleanup"]
        /\ UNCHANGED <<child, registered, lock, todo, pc, nodes>>
    BY <1>1, <1>3 DEF SignalArrives, Request, host
  <2>2. /\ HandlerAt(depth + 1) = IF depth = 0 THEN "handler" ELSE "nested"
        /\ HandlerAt(depth') = HandlerAt(depth + 1)
    BY <2>1 DEF HandlerAt
  <2>3. call[HandlerAt(depth + 1)] = "idle" /\ lock # HandlerAt(depth + 1)
    BY <1>2, <2>1, <2>2 DEF IInv, LockDiscipline
  <2>4. RegisteredBorn' /\ LockDiscipline' /\ CallDiscipline'
    BY <1>1, <1>2, <2>1, <2>2 DEF IInv, RegisteredBorn, LockDiscipline,
                                  CallDiscipline, Handlers
  <2>5. CleanupProgress'
    BY <1>1, <1>2, <2>1, <2>2, <2>3 DEF IInv, CleanupProgress
  <2>6. HandlerDone'
    BY <1>1, <1>2, <2>1, <2>2 DEF HandlerDone
  <2>7. MainDone'
    BY <1>1, <1>2, <2>1, <2>2 DEF IInv, MainDone, Quiet
  <2>8. QED
    BY <2>4, <2>5, <2>6, <2>7 DEF Parts
<1>4. CASE HandlerExits
  <2>1. /\ Quiet /\ lock \in {Free, "monitor"}
        /\ depth' = 0 /\ UNCHANGED <<child, registered, lock, nodes>>
        /\ call' = [f \in Frames |-> IF f = "monitor" THEN call[f] ELSE "idle"]
        /\ todo' = [f \in Frames |-> IF f = "monitor" THEN todo[f] ELSE {}]
    BY <1>4 DEF HandlerExits, IInv, HandlerDone, host
  <2>2. pc' \in {"bench_finally", "finalize", "exited"}
        /\ (pc \in CleanedPcs => pc' \in CleanedPcs)
    BY <1>4 DEF HandlerExits, Goto, CleanedPcs, TryPcs, FinallyPcs, Stages, Alive
  <2>3. RegisteredBorn' /\ LockDiscipline' /\ CallDiscipline'
    BY <1>1, <1>2, <2>1, <2>2 DEF IInv, RegisteredBorn, LockDiscipline,
                                  CallDiscipline, Handlers
  <2>4. CleanupProgress' /\ HandlerDone'
    BY <1>1, <1>2, <2>1 DEF IInv, CleanupProgress, HandlerDone
  <2>5. MainDone'
    BY <2>1, <2>2 DEF IInv, MainDone, Quiet
  <2>6. QED
    BY <2>3, <2>4, <2>5 DEF Parts
<1>5. CASE Monitor
  <2>1. CASE MonitorChecks \/ MonitorJudges
    <3>1. /\ UNCHANGED <<child, registered, lock, todo, depth, pc, nodes>>
          /\ \/ UNCHANGED call
             \/ \E operation \in {"check", "cleanup"} :
                  call' = [call EXCEPT !["monitor"] = operation]
      BY <1>5, <2>1 DEF Monitor, MonitorChecks, MonitorJudges, Request,
                        monitorFrame, signalVars, host
    <3>2. RegisteredBorn' /\ LockDiscipline' /\ CallDiscipline'
      BY <1>1, <1>2, <3>1 DEF IInv, RegisteredBorn, LockDiscipline,
                              CallDiscipline, Handlers
    <3>3. lock # "monitor"
      BY <1>2, <1>5, <2>1
         DEF Monitor, MonitorChecks, MonitorJudges, MonitorAt, IInv, LockDiscipline
    <3>4. CleanupProgress'
      BY <1>1, <1>2, <3>1, <3>3 DEF IInv, CleanupProgress
    <3>5. HandlerAt(depth) # "monitor"
      BY DEF HandlerAt
    <3>6. HandlerDone'
      BY <1>1, <1>2, <3>1, <3>5 DEF IInv, HandlerDone, HandlerAt, Quiet
    <3>7. MainDone'
      BY <1>1, <1>2, <3>1 DEF IInv, MainDone, Quiet
    <3>8. QED
      BY <3>2, <3>4, <3>6, <3>7 DEF Parts
  <2>2. CASE RegistryStep("monitor") /\ UNCHANGED <<mpc, stop>>
    BY <1>2, <1>5, <2>2, RegistryStepInv DEF Monitor, monitorFrame, signalVars, host, Handlers
  <2>3. QED
    BY <1>5, <2>1, <2>2 DEF Monitor
<1>6. CASE Environment
  <2>1. /\ UNCHANGED <<registered, lock, call, todo, depth, pc, nodes>>
        /\ \A p \in Procs : child'[p] = child[p]
                          \/ (child[p] = "up" /\ child'[p] \in {"ok", "failed"})
    BY <1>1, <1>6 DEF Environment, ChildExits, registryVars, host, signalVars
  <2>2. Quiet => Quiet'
    BY <1>1, <2>1 DEF Quiet
  <2>3. RegisteredBorn' /\ CleanupProgress'
    BY <1>1, <1>2, <2>1 DEF IInv, RegisteredBorn, CleanupProgress
  <2>4. LockDiscipline' /\ CallDiscipline' /\ HandlerDone' /\ MainDone'
    BY <2>1, <2>2 DEF IInv, LockDiscipline, CallDiscipline, HandlerDone, HandlerAt,
                      MainDone
  <2>5. QED
    BY <2>3, <2>4 DEF Parts
<1>7. QED
  BY <1>3, <1>4, <1>5, <1>6

(* The inductive invariant holds throughout: a frame that has finished a   *)
(* clean-up, and every statement of run() that follows one, finds nothing  *)
(* registered and unsignalled, in whatever order threads and signals come. *)
THEOREM Invariance == Spec => []IInv
<1>1. Init => IInv
  <2> SUFFICES ASSUME Init PROVE IInv
    OBVIOUS
  <2>1. TypeOK
    BY InitType
  <2>2. /\ registered = {} /\ lock = Free /\ depth = 0 /\ pc = "host_setup"
        /\ call = [f \in Frames |-> "idle"] /\ nodes = "clean"
    BY DEF Init, RegistryInit
  <2>3. RegisteredBorn /\ LockDiscipline /\ CallDiscipline
    BY <2>2, FramesAssumption DEF RegisteredBorn, LockDiscipline, CallDiscipline, Handlers
  <2>4. CleanupProgress /\ HandlerDone /\ MainDone
    BY <2>2 DEF CleanupProgress, HandlerDone, MainDone, CleanedPcs
  <2>5. QED
    BY <2>1, <2>3, <2>4 DEF IInv
<1>2. IInv /\ [Next]_vars => IInv'
  <2> SUFFICES ASSUME IInv, [Next]_vars PROVE Parts'
    BY StepType DEF IInv, Parts
  <2>1. CASE MainThread
    <3>1. CASE RunTry
      BY <2>1, <3>1, RunTryInv DEF MainThread, signalVars
    <3>2. CASE RunFinally \/ SetStop
      BY <2>1, <3>2, RunFinallyInv DEF MainThread, signalVars
    <3>3. CASE MainInRegistry
      BY <2>1, <3>3, RegistryStepInv, FramesAssumption
         DEF MainThread, MainInRegistry, signalVars, host, Handlers
    <3>4. QED
      BY <2>1, <3>1, <3>2, <3>3 DEF MainThread
  <2>2. CASE HandlerInRegistry
    BY <2>2, RegistryStepInv, HandlerFrame
       DEF HandlerInRegistry, signalVars, host, Handlers
  <2>3. CASE SignalArrives \/ HandlerExits \/ Monitor \/ Environment
    BY <2>3, OtherStepsInv
  <2>4. CASE UNCHANGED vars
    BY <2>4 DEF vars, registryVars, host, signalVars, IInv, Parts, RegisteredBorn,
                LockDiscipline, CallDiscipline, CleanupProgress, HandlerDone,
                HandlerAt, MainDone, Quiet
  <2>5. CASE UntimedWaitEnds
    BY <2>5, RunTryInv, RunFinallyInv DEF UntimedWaitEnds, Reaps, signalVars
  <2>6. QED
    BY <2>1, <2>2, <2>3, <2>4, <2>5 DEF Next, SignalHandler
<1>3. QED
  BY <1>1, <1>2, PTL DEF Spec

(* However the process ends, whatever is registered has been signalled.    *)
THEOREM RegisteredAreStopped == Spec => []RegisteredStopped
<1>1. IInv => RegisteredStopped
  BY DEF IInv, MainDone, CleanedPcs, Quiet, RegisteredStopped, Alive
<1>2. QED
  BY <1>1, Invariance, PTL

(* Node state is reverted when nothing registered runs on the nodes.       *)
THEOREM TeardownAfterCleanup == Spec => []TeardownOnIdleNodes
<1>1. IInv => TeardownOnIdleNodes
  BY DEF IInv, MainDone, Quiet, TeardownOnIdleNodes
<1>2. QED
  BY <1>1, Invariance, PTL

-----------------------------------------------------------------------------
(* What the orchestrator may say of its workload: the invariants that      *)
(* relate its report, the power artifacts and the measurement windows to   *)
(* what became of the clients.  None is inductive.  They follow from the   *)
(* order of the statements of run(), kept below as one part per kind of    *)
(* statement, and from the fact that every exit by SystemExit leaves       *)
(* stop_event set.                                                         *)

(* The statements before a client of the workload may have been started,   *)
(* those of the benchmark client, of lm-eval, and of the finally block.    *)
BenchPcs == {"bench_enter", "bench_wait", "bench_finally"}
EvalPcs == {"eval_ready", "eval_wait"}
IdlePcs == TryPcs \ (BenchPcs \union EvalPcs)
OpenPcs == {"finalize", "settle"}

(* A handler has set stop_event before it runs, and so before it unwinds.  *)
SignalsStop == depth > 0 \/ unwinding => stop

(* The flags of the benchmark script and its client, statement by          *)
(* statement; without a stop request the client is not left behind.        *)
ClientPhases ==
    /\ pc \in IdlePcs => /\ bench = "none" /\ eval = "none"
                         /\ reaped = "unset" /\ exit_code = 1
    /\ pc \in BenchPcs => /\ bench \in {"up", "ok", "failed"} /\ exit_code = 1
    /\ pc \in {"bench_enter", "bench_wait"} => ~allows
    /\ pc = "bench_wait" => reaped = "no"
    /\ pc = "bench_finally" => \/ reaped = "yes" /\ bench # "up"
                               \/ reaped = "no" /\ stop
    /\ pc \in EvalPcs => \/ bench = "none" /\ exit_code = 1
                         \/ bench = "ok" /\ exit_code = 0
    /\ pc = "finalize" /\ ~stop => bench \in {"none", "ok", "failed"}
    /\ pc = "settle" /\ ~interrupted => bench \in {"none", "ok", "failed"}
    /\ allows => bench \in {"ok", "failed", "stopped"}

(* Which jobs get to which statement.                                      *)
ModePhases ==
    /\ pc = "health" => config.mode # "eval_only"
    /\ pc \in {"serve", "judge"} => config.mode = "serve_only"
    /\ pc \in {"benchmark"} \union BenchPcs => config.mode = "benchmark"
    /\ pc \in EvalPcs =>
         config.mode = IF bench = "none" THEN "eval_only" ELSE "benchmark"

(* Required telemetry of a benchmark is ready before its client starts.    *)
TelemetryPhases ==
    config.mode = "benchmark" /\ config.telemetry = "required" =>
        /\ pc \in {"exporters", "collector", "tachometer", "dispatch"} =>
             power \in {"started", "ready"}
        /\ pc \in {"health", "benchmark"} \union BenchPcs \union EvalPcs =>
             power = "ready"

(* What an exit code of 0 says in the finally block.                       *)
ZeroIsSuccess ==
    pc \in FinallyPcs /\ exit_code = 0 =>
        /\ config.mode = "benchmark" => bench = "ok"
        /\ config.mode = "eval_only" => eval = "ok"
        /\ config.mode = "benchmark" /\ config.telemetry = "required" =>
             power = IF pc \in OpenPcs THEN "ready" ELSE "published"

(* "completed" is the last thing run() reports.                            *)
CompletedLast == status = "completed" => pc = "exited"

WInv == /\ SignalsStop
        /\ ClientPhases
        /\ ModePhases
        /\ TelemetryPhases
        /\ ZeroIsSuccess
        /\ CompletedLast
        /\ TruthfulSuccess
        /\ WindowsConvertedAfterClient
        /\ PublishedOnlyAfterBenchmark

(* What the parts speak of, apart from stop_event and the handler frames.  *)
Workload == <<config, pc, exit_code, status, eval, bench, reaped, allows, power,
              windows, interrupted>>

-----------------------------------------------------------------------------
(* A step of another thread, or inside a registry call, leaves the         *)
(* workload alone; at most it sets stop_event.                             *)
LEMMA ElsewhereKeeps ==
    ASSUME WInv, UNCHANGED Workload, stop => stop', SignalsStop'
    PROVE  WInv'
<1> USE DEF Workload
<1>1. ClientPhases'
  BY DEF WInv, ClientPhases
<1>2. ModePhases' /\ TelemetryPhases' /\ ZeroIsSuccess'
  BY DEF WInv, ModePhases, TelemetryPhases, ZeroIsSuccess
<1>3. /\ CompletedLast' /\ TruthfulSuccess'
      /\ WindowsConvertedAfterClient' /\ PublishedOnlyAfterBenchmark'
  BY DEF WInv, CompletedLast, TruthfulSuccess, WindowsConvertedAfterClient,
         PublishedOnlyAfterBenchmark
<1>4. QED
  BY <1>1, <1>2, <1>3 DEF WInv

(* What every statement of the main thread leaves alone.                   *)
Frame == UNCHANGED <<config, signalVars, mpc, stop>>

(* A statement before the workload's client: it goes to another one, with  *)
(* its flags untouched, or leaves the try block with 1 or, when serving    *)
(* has been stopped, with 0.                                               *)
Prepares ==
    /\ pc \in IdlePcs /\ UNCHANGED work
    /\ UNCHANGED <<windows, interrupted>>
    /\ status' # "completed" /\ power' # "published"
    /\ \/ /\ pc' \in IdlePcs \union {"eval_ready", "finalize"} /\ exit_code' = exit_code
          /\ pc' = "eval_ready" => config.mode = "eval_only"
       \/ pc' = "finalize" /\ pc \in {"serve", "judge"}

LEMMA PreparesKeeps ==
    ASSUME WInv, Frame, Prepares, ModePhases', TelemetryPhases'
    PROVE  WInv'
<1> USE DEF work
<1>0. "finalize" \notin IdlePcs /\ IdlePcs \intersect (BenchPcs \union EvalPcs) = {}
      /\ "settle" \notin IdlePcs /\ IdlePcs \intersect FinallyPcs = {} /\ "exited" \notin IdlePcs
  BY DEF IdlePcs, TryPcs, FinallyPcs, Stages, BenchPcs, EvalPcs
<1>1. /\ bench = "none" /\ bench' = "none" /\ eval' = "none" /\ reaped' = "unset"
      /\ exit_code = 1 /\ ~allows /\ ~allows'
  BY DEF WInv, ClientPhases, Prepares
<1>2. SignalsStop'
  BY DEF WInv, SignalsStop, Frame, signalVars
<1>3. ClientPhases'
  BY <1>0, <1>1 DEF ClientPhases, Prepares, BenchPcs, EvalPcs
<1>4. ZeroIsSuccess'
  BY <1>0, <1>1 DEF ZeroIsSuccess, Prepares, WInv, ModePhases, Frame, EvalPcs
<1>5. CompletedLast' /\ TruthfulSuccess'
  BY DEF CompletedLast, TruthfulSuccess, Prepares
<1>6. WindowsConvertedAfterClient' /\ PublishedOnlyAfterBenchmark'
  BY <1>1 DEF WInv, WindowsConvertedAfterClient, PublishedOnlyAfterBenchmark, Prepares
<1>7. QED
  BY <1>2, <1>3, <1>4, <1>5, <1>6 DEF WInv

-----------------------------------------------------------------------------
(* The statements that come before the client, one by one.  At each of     *)
(* them nothing has run, been reported as completed or been published.     *)
LEMMA AtIdle ==
    ASSUME WInv, pc \in IdlePcs
    PROVE  status # "completed" /\ power # "published" /\ exit_code = 1
<1>1. pc # "exited"
  BY DEF IdlePcs, TryPcs, Stages
<1>2. QED
  BY <1>1 DEF WInv, CompletedLast, PublishedOnlyAfterBenchmark, ClientPhases

(* The launch stages, the model and the telemetry session.  A benchmark    *)
(* with required telemetry passes through start_power_telemetry before it  *)
(* reaches a later one, and not at all to one that needs it ready.         *)
LEMMA LaunchesKeep ==
    ASSUME TypeOK, WInv, Frame,
           \/ RunHostSetup \/ RunHostCommands
           \/ StartHeadInfrastructure \/ StartMooncakeMaster \/ PrepareModel
           \/ StartAllWorkers \/ StartFrontend \/ StartTachometer
           \/ StartPowerTelemetry \/ StartExporters \/ Reaps
    PROVE  WInv'
<1> USE DEF IdlePcs, TryPcs, Stages, BenchPcs, EvalPcs
<1>1. CASE RunHostSetup
  <2>1. /\ pc = "host_setup" /\ pc' \in {"host_commands", "head"}
        /\ UNCHANGED <<result, session, work>>
    BY <1>1 DEF RunHostSetup, At, Goto
  <2>2. Prepares
    BY <2>1, AtIdle DEF Prepares, result, session
  <2>3. ModePhases' /\ TelemetryPhases'
    BY <2>1 DEF ModePhases, TelemetryPhases
  <2>4. QED
    BY <2>2, <2>3, PreparesKeeps
<1>2. CASE RunHostCommands \/ PrepareModel \/ Reaps
  <2>1. /\ pc \in {"host_commands", "model"} \union (UntimedPcs \ {"teardown_kill"})
        /\ pc' \in {"head", "host_kill", "workers", "model_kill", "staging", "finalize"}
        /\ exit_code' \in {1, exit_code} /\ status' \in {status, "workers", "failed"}
        /\ UNCHANGED <<session, work>>
    BY <1>2 DEF RunHostCommands, AfterHostCommands, PrepareModel, ModelReady, Reaps,
                HostClientReaped, DownloadReaped, ModelStaged, At, Raise, Return, Goto,
                Report, result, UntimedPcs
  <2>2. Prepares
    BY <2>1, AtIdle DEF Prepares, session, UntimedPcs
  <2>3. ModePhases' /\ TelemetryPhases'
    BY <2>1 DEF ModePhases, TelemetryPhases
  <2>4. QED
    BY <2>2, <2>3, PreparesKeeps
<1>3. CASE \/ StartHeadInfrastructure \/ StartMooncakeMaster \/ StartAllWorkers
           \/ StartFrontend \/ StartTachometer
  <2>1. PICK stage \in {"head", "mooncake", "workers", "frontend", "tachometer"} :
          RunStage(stage)
    BY <1>3 DEF StartHeadInfrastructure, StartMooncakeMaster, StartAllWorkers,
                StartFrontend, StartTachometer
  <2>2. /\ pc = stage /\ pc' \in {stage, NextPc[stage], "finalize"}
        /\ exit_code' \in {1, exit_code}
        /\ status' \in {status, "frontend", "failed"}
        /\ UNCHANGED <<session, work>>
    BY <2>1 DEF RunStage, LaunchIn, StageRaises, RegisterIn, StageDone, At, Raise,
                Return, Goto, Report, result
  <2>3. /\ NextPc[stage] \in {"mooncake", "model", "frontend", "telemetry", "dispatch"}
        /\ NextPc[stage] = "dispatch" => stage = "tachometer"
    BY <2>1 DEF NextPc
  <2>4. Prepares
    BY <2>2, <2>3, AtIdle DEF Prepares, session
  <2>5. ModePhases'
    BY <2>2, <2>3 DEF ModePhases
  <2>6. TelemetryPhases'
    BY <2>2, <2>3 DEF WInv, TelemetryPhases, Frame, session
  <2>7. QED
    BY <2>4, <2>5, <2>6, PreparesKeeps
<1>4. CASE StartPowerTelemetry
  <2>1. /\ pc = "telemetry" /\ UNCHANGED <<work, windows, interrupted>>
        /\ pc' \in {"tachometer", "exporters", "finalize"} /\ exit_code' \in {1, exit_code}
        /\ status' \in {status, "failed"} /\ power' \in {power, "started"}
    BY <1>4 DEF StartPowerTelemetry, At, Raise, Return, Goto, Report, result
  <2>2. Prepares
    BY <2>1, AtIdle DEF Prepares
  <2>3. ModePhases'
    BY <2>1 DEF ModePhases
  <2>4. config.mode = "benchmark" /\ config.telemetry = "required" => power' = "started"
    BY <1>4 DEF StartPowerTelemetry
  <2>5. TelemetryPhases'
    BY <2>1, <2>4 DEF TelemetryPhases, Frame
  <2>6. QED
    BY <2>2, <2>3, <2>5, PreparesKeeps
<1>5. CASE StartExporters
  <2>1. /\ pc \in {"exporters", "collector"} /\ UNCHANGED <<work, windows, interrupted>>
        /\ pc' \in {"exporters", "collector", "tachometer"}
        /\ UNCHANGED <<exit_code, status>>
        /\ power' \in {power, "started", "ready"}
    BY <1>5 DEF StartExporters, StartExporter, OwnExporter, ExportersLaunched,
                WaitForCollector, At, Goto, result, session
  <2>2. Prepares
    BY <2>1, AtIdle DEF Prepares
  <2>3. ModePhases'
    BY <2>1 DEF ModePhases
  <2>4. TelemetryPhases'
    BY <2>1 DEF WInv, TelemetryPhases, Frame
  <2>5. QED
    BY <2>2, <2>3, <2>4, PreparesKeeps
<1>6. QED
  BY <1>1, <1>2, <1>3, <1>4, <1>5

(* From the dispatch to the client: PowerTelemetryBlocksBenchmark keeps a  *)
(* benchmark without ready required telemetry from going any further.      *)
LEMMA DispatchKeeps ==
    ASSUME TypeOK, WInv, Frame, Dispatch \/ WaitForServiceReady \/ ServeUntilStopped
    PROVE  WInv'
<1> USE DEF IdlePcs, TryPcs, Stages, BenchPcs, EvalPcs
<1>1. config \in ConfigType
  BY ConfigsAssumption DEF TypeOK
<1>2. CASE Dispatch
  <2>1. /\ pc = "dispatch" /\ pc' \in {"health", "eval_ready", "finalize"}
        /\ exit_code' \in {1, exit_code} /\ status' \in {status, "benchmark", "failed"}
        /\ UNCHANGED <<session, work>>
        /\ pc' = "eval_ready" => config.mode = "eval_only"
        /\ pc' = "health" => \/ config.mode = "serve_only"
                             \/ config.mode = "benchmark" /\ ~PowerTelemetryBlocksBenchmark
    BY <1>2 DEF Dispatch, At, Raise, Return, Goto, Report, result
  <2>2. Prepares
    BY <2>1, AtIdle DEF Prepares, session
  <2>3. bench' = "none"
    BY <2>1 DEF WInv, ClientPhases, work
  <2>4. ModePhases'
    BY <2>1, <2>3 DEF ModePhases, Frame
  <2>5. TelemetryPhases'
    BY <2>1 DEF WInv, TelemetryPhases, Frame, session, PowerTelemetryBlocksBenchmark
  <2>6. QED
    BY <2>2, <2>4, <2>5, PreparesKeeps
<1>3. CASE WaitForServiceReady
  <2>1. /\ pc = "health" /\ pc' \in {"serve", "benchmark", "finalize"}
        /\ exit_code' \in {1, exit_code}
        /\ status' \in {"frontend", "benchmark", "failed"}
        /\ UNCHANGED <<session, work>>
        /\ pc' = "serve" => config.mode = "serve_only"
        /\ pc' = "benchmark" => config.mode # "serve_only"
    BY <1>3 DEF WaitForServiceReady, At, Raise, Return, Goto, Report, result
  <2>2. Prepares
    BY <2>1, AtIdle DEF Prepares, session
  <2>3. config.mode # "eval_only"
    BY <2>1 DEF WInv, ModePhases
  <2>4. ModePhases'
    BY <1>1, <2>1, <2>3 DEF ModePhases, Frame, ConfigType
  <2>5. TelemetryPhases'
    BY <2>1 DEF WInv, TelemetryPhases, Frame, session
  <2>6. QED
    BY <2>2, <2>4, <2>5, PreparesKeeps
<1>4. CASE ServeUntilStopped
  <2>1. /\ pc \in {"serve", "judge"} /\ pc' \in {"serve", "judge", "finalize"}
        /\ pc' = "finalize" \/ exit_code' = exit_code
        /\ UNCHANGED <<status, session, work>>
    BY <1>4 DEF ServeUntilStopped, ServeCheck, ServeJudge, ServeStopped, At, Return,
                Goto, result
  <2>2. Prepares
    BY <2>1, AtIdle DEF Prepares, session
  <2>3. ModePhases' /\ TelemetryPhases'
    BY <2>1 DEF WInv, ModePhases, TelemetryPhases, Frame
  <2>4. QED
    BY <2>2, <2>3, PreparesKeeps
<1>5. QED
  BY <1>2, <1>3, <1>4

(* _run_benchmark_script: between its launch and the except clause of its  *)
(* try block the client can end, but not be converted or published for.    *)
LEMMA BenchmarkKeeps ==
    ASSUME WInv, Frame, RunBenchmarkScript
    PROVE  WInv'
<1> USE DEF IdlePcs, TryPcs, Stages, BenchPcs, EvalPcs, FinallyPcs, OpenPcs
<1>1. SignalsStop'
  BY DEF WInv, SignalsStop, Frame, signalVars
<1>2. pc \in {"benchmark"} \union BenchPcs
  BY DEF RunBenchmarkScript, StartBenchmark, EnterBenchmarkTry, WaitForBenchmark,
         ReapBenchmark, At
<1>3. config.mode = "benchmark" /\ exit_code = 1 /\ status # "completed"
  BY <1>2 DEF WInv, ModePhases, ClientPhases, CompletedLast
<1>4. config.telemetry = "required" => power = "ready"
  BY <1>2, <1>3 DEF WInv, TelemetryPhases
<1>5. UNCHANGED <<config, stop, power, windows, interrupted>>
  BY DEF RunBenchmarkScript, StartBenchmark, EnterBenchmarkTry, WaitForBenchmark,
         ReapBenchmark, session, Frame
<1>6. status' \in {status, "benchmark"}
  BY DEF RunBenchmarkScript, StartBenchmark, EnterBenchmarkTry, WaitForBenchmark,
         ReapBenchmark, BenchmarkReturns, Report, result
<1>7. CompletedLast' /\ TruthfulSuccess'
  BY <1>3, <1>6 DEF CompletedLast, TruthfulSuccess
<1>8. CASE StartBenchmark
  <2>1. CASE bench' = "up" /\ pc' = "bench_enter" /\ UNCHANGED exit_code
    <3>1. /\ bench = "none" /\ ~allows /\ ~allows'
      BY <1>8 DEF StartBenchmark, At, WInv, ClientPhases
    <3>2. WindowsConvertedAfterClient' /\ PublishedOnlyAfterBenchmark'
      BY <1>5, <3>1 DEF WInv, WindowsConvertedAfterClient, PublishedOnlyAfterBenchmark
    <3>3. ClientPhases' /\ ModePhases' /\ TelemetryPhases' /\ ZeroIsSuccess'
      BY <1>3, <1>4, <1>5, <2>1, <3>1
         DEF ClientPhases, ModePhases, TelemetryPhases, ZeroIsSuccess
    <3>4. QED
      BY <1>1, <1>7, <3>2, <3>3 DEF WInv
  <2>2. CASE Return(1) /\ UNCHANGED bench
    <3>1. /\ pc = "benchmark" /\ pc' = "finalize" /\ exit_code' = 1 /\ UNCHANGED <<work, status>>
      BY <1>8, <2>2 DEF StartBenchmark, At, Return, Goto, work
    <3>2. Prepares
      BY <1>5, <3>1, AtIdle DEF Prepares
    <3>3. ModePhases' /\ TelemetryPhases'
      BY <3>1 DEF ModePhases, TelemetryPhases
    <3>4. QED
      BY <3>2, <3>3, PreparesKeeps
  <2>3. QED
    BY <1>8, <2>1, <2>2 DEF StartBenchmark, Goto
<1>9. CASE EnterBenchmarkTry \/ WaitForBenchmark
  <2>1. /\ pc \in {"bench_enter", "bench_wait"} /\ pc' \in {"bench_wait", "bench_finally"}
        /\ UNCHANGED <<exit_code, bench, eval>>
        /\ pc' = "bench_wait" => reaped' = "no" /\ ~allows'
        /\ pc' = "bench_finally" => \/ reaped' = "yes" /\ bench \in {"ok", "failed"}
                                    \/ stop /\ UNCHANGED <<reaped, allows>> /\ pc = "bench_wait"
    BY <1>9 DEF EnterBenchmarkTry, WaitForBenchmark, At, Goto, result
  <2>2. bench \in {"up", "ok", "failed"} /\ ~allows
    BY <2>1 DEF WInv, ClientPhases
  <2>3. pc = "bench_wait" => reaped = "no"
    BY DEF WInv, ClientPhases
  <2>4. ClientPhases'
    BY <1>3, <1>5, <2>1, <2>2, <2>3 DEF ClientPhases
  <2>5. ModePhases' /\ TelemetryPhases' /\ ZeroIsSuccess'
    BY <1>3, <1>4, <1>5, <2>1 DEF ModePhases, TelemetryPhases, ZeroIsSuccess
  <2>6. WindowsConvertedAfterClient' /\ PublishedOnlyAfterBenchmark'
    BY <1>5, <2>1 DEF WInv, WindowsConvertedAfterClient, PublishedOnlyAfterBenchmark
  <2>7. QED
    BY <1>1, <1>7, <2>4, <2>5, <2>6 DEF WInv
<1>10. CASE ReapBenchmark
  <2>1. /\ pc = "bench_finally" /\ pc' \in {"finalize", "eval_ready"}
        /\ exit_code' \in {0, 1} /\ UNCHANGED eval
        /\ exit_code' = 0 => bench = "ok"
        /\ pc' = "eval_ready" => exit_code' = 0
    BY <1>3, <1>10 DEF ReapBenchmark, BenchmarkReturns, At, Goto
  <2>2. /\ bench \in {"up", "ok", "failed"}
        /\ \/ reaped = "yes" /\ bench # "up"
           \/ reaped = "no" /\ stop
        /\ allows => bench # "up"
    BY <2>1 DEF WInv, ClientPhases
  <2>3. /\ bench = "up" => bench' \in {"stopped", "killed", "wedged"} /\ stop
        /\ bench # "up" => bench' = bench
        /\ allows' => bench' \in {"ok", "failed", "stopped"}
    BY <1>10, <2>2 DEF ReapBenchmark, Reap
  <2>4. ClientPhases'
    BY <1>5, <2>1, <2>2, <2>3 DEF ClientPhases
  <2>5. ModePhases' /\ TelemetryPhases' /\ ZeroIsSuccess'
    BY <1>3, <1>4, <1>5, <2>1, <2>2, <2>3
       DEF ModePhases, TelemetryPhases, ZeroIsSuccess
  <2>6. WindowsConvertedAfterClient' /\ PublishedOnlyAfterBenchmark'
    BY <1>5, <2>3 DEF WInv, WindowsConvertedAfterClient, PublishedOnlyAfterBenchmark
  <2>7. QED
    BY <1>1, <1>7, <2>4, <2>5, <2>6 DEF WInv
<1>11. QED
  BY <1>8, <1>9, <1>10 DEF RunBenchmarkScript

(* _run_post_eval: it decides an eval-only job, and leaves the code of a   *)
(* benchmark, which was 0, as it is.                                       *)
LEMMA EvalKeeps ==
    ASSUME WInv, Frame, RunPostEval
    PROVE  WInv'
<1> USE DEF IdlePcs, TryPcs, Stages, BenchPcs, EvalPcs, FinallyPcs, OpenPcs
<1>1. SignalsStop'
  BY DEF WInv, SignalsStop, Frame, signalVars
<1>2. /\ pc \in EvalPcs /\ pc' \in {"eval_wait", "finalize"}
      /\ UNCHANGED <<config, stop, power, windows, interrupted, bench, reaped,
                     allows, status>>
      /\ \/ exit_code' = exit_code
         \/ config.mode = "eval_only" /\ (exit_code' = 0 => eval' = "ok")
      /\ pc' = "eval_wait" => UNCHANGED exit_code
  BY DEF RunPostEval, StartEval, WaitForEval, At, Return, Goto, EvalCode, session,
         Frame
<1>3. /\ \/ bench = "none" /\ exit_code = 1 /\ config.mode = "eval_only"
         \/ bench = "ok" /\ exit_code = 0 /\ config.mode = "benchmark"
      /\ status # "completed"
      /\ config.mode = "benchmark" /\ config.telemetry = "required" => power = "ready"
  BY <1>2 DEF WInv, ClientPhases, ModePhases, CompletedLast, TelemetryPhases
<1>4. ClientPhases'
  BY <1>2, <1>3 DEF WInv, ClientPhases
<1>5. ModePhases' /\ TelemetryPhases' /\ ZeroIsSuccess'
  BY <1>2, <1>3 DEF ModePhases, TelemetryPhases, ZeroIsSuccess
<1>6. /\ CompletedLast' /\ TruthfulSuccess'
      /\ WindowsConvertedAfterClient' /\ PublishedOnlyAfterBenchmark'
  BY <1>2, <1>3 DEF WInv, CompletedLast, TruthfulSuccess, WindowsConvertedAfterClient,
                    PublishedOnlyAfterBenchmark
<1>7. QED
  BY <1>1, <1>4, <1>5, <1>6 DEF WInv

-----------------------------------------------------------------------------
(* The finally block: finalization knows of every stop request that came   *)
(* before it, publishes and converts accordingly, and turns the code of a  *)
(* benchmark without its required artifacts into 1.                        *)
LEMMA FinallyKeeps ==
    ASSUME TypeOK, WInv, RunFinally \/ SetStop \/ TeardownClientReaped,
           UNCHANGED <<config, signalVars>>,
           SetStop \/ UNCHANGED stop
    PROVE  WInv'
<1> USE DEF IdlePcs, TryPcs, Stages, BenchPcs, EvalPcs, FinallyPcs, OpenPcs
<1>1. SignalsStop' /\ (stop => stop')
  BY DEF WInv, SignalsStop, signalVars, SetStop
<1>2. pc \in FinallyPcs /\ UNCHANGED work
  BY DEF RunFinally, BeginFinalize, FinalizePower, SetStop, RunHostTeardown,
         TeardownClientReaped, PrintFailureDetails, RunPostprocess, ReportCompleted, At
<1>3. status # "completed"
  BY <1>2 DEF WInv, CompletedLast
<1>4. CASE BeginFinalize
  <2>1. /\ pc = "finalize" /\ UNCHANGED <<result, power, windows, stop>>
        /\ \/ pc' = "set_stop" /\ power = "none" /\ UNCHANGED interrupted
           \/ pc' = "settle" /\ power # "none" /\ interrupted' = stop
    BY <1>4 DEF BeginFinalize, At, Goto, SetStop
  <2>2. ClientPhases'
    BY <1>2, <2>1 DEF WInv, ClientPhases, work
  <2>3. ZeroIsSuccess'
    BY <1>2, <2>1 DEF WInv, ZeroIsSuccess, work, result
  <2>4. ModePhases' /\ TelemetryPhases' /\ CompletedLast' /\ TruthfulSuccess'
    BY <1>3, <2>1 DEF ModePhases, TelemetryPhases, CompletedLast, TruthfulSuccess, result
  <2>5. WindowsConvertedAfterClient' /\ PublishedOnlyAfterBenchmark'
    BY <1>2, <2>1 DEF WInv, WindowsConvertedAfterClient, PublishedOnlyAfterBenchmark, work
  <2>6. QED
    BY <1>1, <2>2, <2>3, <2>4, <2>5 DEF WInv
<1>5. CASE FinalizePower
  <2>1. /\ pc = "settle" /\ pc' = "set_stop" /\ UNCHANGED <<status, interrupted>>
        /\ power' \in {"invalid", "broken", "published"}
        /\ power' = "published" => Publishable
        /\ windows' = windows \/ allows
        /\ exit_code' \in {1, exit_code}
        /\ exit_code' = 0 => /\ exit_code = 0 /\ power' # "broken"
                             /\ config.telemetry = "required" => power' # "invalid"
    BY <1>5 DEF FinalizePower, At, Goto
  <2>2. PublishedOnlyAfterBenchmark'
    BY <1>2, <2>1 DEF WInv, ClientPhases, PublishedOnlyAfterBenchmark, Publishable, work
  <2>3. WindowsConvertedAfterClient'
    BY <1>2, <2>1 DEF WInv, ClientPhases, WindowsConvertedAfterClient, work
  <2>4. ClientPhases'
    BY <1>2, <2>1 DEF WInv, ClientPhases, work
  <2>5. ZeroIsSuccess'
    BY <1>2, <2>1 DEF WInv, ZeroIsSuccess, work
  <2>6. ModePhases' /\ TelemetryPhases' /\ CompletedLast' /\ TruthfulSuccess'
    BY <1>3, <2>1 DEF ModePhases, TelemetryPhases, CompletedLast, TruthfulSuccess
  <2>7. QED
    BY <1>1, <2>2, <2>3, <2>4, <2>5, <2>6 DEF WInv
<1>6. CASE \/ SetStop \/ RunHostTeardown \/ TeardownClientReaped
           \/ PrintFailureDetails \/ RunPostprocess
  <2>1. /\ pc \in FinallyPcs \ OpenPcs /\ pc' \in FinallyPcs \ OpenPcs
        /\ UNCHANGED <<session, exit_code>> /\ status' \in {status, "benchmark"}
    BY <1>6 DEF SetStop, RunHostTeardown, TeardownClientReaped, PrintFailureDetails,
                RunPostprocess, At, Goto, Report, result
  <2>2. ClientPhases' /\ ZeroIsSuccess'
    BY <1>2, <2>1 DEF WInv, ClientPhases, ZeroIsSuccess, work, session
  <2>3. ModePhases' /\ TelemetryPhases' /\ CompletedLast' /\ TruthfulSuccess'
    BY <1>3, <2>1 DEF ModePhases, TelemetryPhases, CompletedLast, TruthfulSuccess
  <2>4. WindowsConvertedAfterClient' /\ PublishedOnlyAfterBenchmark'
    BY <1>2, <2>1 DEF WInv, WindowsConvertedAfterClient, PublishedOnlyAfterBenchmark,
                      work, session
  <2>5. QED
    BY <1>1, <2>2, <2>3, <2>4 DEF WInv
<1>7. CASE ReportCompleted
  <2>1. /\ pc = "report_completed" /\ pc' = "exited" /\ UNCHANGED <<session, exit_code>>
        /\ status' = IF exit_code = 0 THEN "completed" ELSE "failed"
    BY <1>7 DEF ReportCompleted, At, Goto, Report
  <2>2. TruthfulSuccess'
    BY <1>2, <2>1 DEF WInv, ZeroIsSuccess, TruthfulSuccess, work, session
  <2>3. ClientPhases' /\ ZeroIsSuccess' /\ ModePhases' /\ TelemetryPhases' /\ CompletedLast'
    BY <1>2, <2>1 DEF WInv, ClientPhases, ZeroIsSuccess, ModePhases, TelemetryPhases,
                      CompletedLast, work
  <2>4. WindowsConvertedAfterClient' /\ PublishedOnlyAfterBenchmark'
    BY <1>2, <2>1 DEF WInv, WindowsConvertedAfterClient, PublishedOnlyAfterBenchmark,
                      work, session
  <2>5. QED
    BY <1>1, <2>2, <2>3, <2>4 DEF WInv
<1>8. QED
  BY <1>4, <1>5, <1>6, <1>7 DEF RunFinally

-----------------------------------------------------------------------------
(* SystemExit: wherever it strikes, stop_event is set, and it leads into a *)
(* finally block or out of one.                                            *)
LEMMA ExitKeeps ==
    ASSUME WInv, HandlerExits
    PROVE  WInv'
<1> USE DEF IdlePcs, TryPcs, Stages, BenchPcs, EvalPcs, FinallyPcs, OpenPcs
<1>1. /\ stop /\ stop' /\ pc # "exited"
      /\ UNCHANGED <<config, exit_code, status, session, work>>
      /\ \/ pc = "bench_wait" /\ pc' = "bench_finally"
         \/ pc \in TryPcs \ {"bench_wait"} /\ pc' = "finalize"
         \/ pc \in FinallyPcs /\ pc' = "exited"
  BY DEF HandlerExits, Goto, WInv, SignalsStop, Alive
<1>2. SignalsStop'
  BY <1>1 DEF SignalsStop
<1>3. status # "completed"
  BY <1>1 DEF WInv, CompletedLast
<1>4. ClientPhases'
  BY <1>1 DEF WInv, ClientPhases, work
<1>5. ModePhases'
  BY <1>1 DEF WInv, ModePhases
<1>6. TelemetryPhases'
  BY <1>1 DEF WInv, TelemetryPhases, session
<1>7. ZeroIsSuccess'
  <2>1. CASE exit_code = 0 /\ pc \in TryPcs \ {"bench_wait"}
    <3>1. pc \in EvalPcs /\ bench = "ok" /\ config.mode = "benchmark"
      BY <2>1 DEF WInv, ClientPhases, ModePhases
    <3>2. QED
      BY <1>1, <2>1, <3>1 DEF WInv, TelemetryPhases, ZeroIsSuccess, work, session
  <2>2. CASE exit_code # 0 \/ pc \notin TryPcs \ {"bench_wait"}
    BY <1>1, <2>2 DEF ZeroIsSuccess
  <2>3. QED
    BY <2>1, <2>2
<1>8. /\ CompletedLast' /\ TruthfulSuccess'
      /\ WindowsConvertedAfterClient' /\ PublishedOnlyAfterBenchmark'
  BY <1>1, <1>3 DEF WInv, CompletedLast, TruthfulSuccess, WindowsConvertedAfterClient,
                    PublishedOnlyAfterBenchmark, work, session
<1>9. QED
  BY <1>2, <1>4, <1>5, <1>6, <1>7, <1>8 DEF WInv

(* A client ends by itself.                                                *)
LEMMA ClientExitKeeps ==
    ASSUME WInv, ClientExits,
           UNCHANGED <<config, pc, result, session, reaped, allows, signalVars, stop>>
    PROVE  WInv'
<1> USE DEF result, session, signalVars
<1>1. SignalsStop'
  BY DEF WInv, SignalsStop
<1>2. /\ bench' = bench \/ (bench = "up" /\ bench' \in {"ok", "failed"})
      /\ eval' = eval \/ eval = "up"
  BY DEF ClientExits
<1>3. ClientPhases'
  BY <1>2 DEF WInv, ClientPhases, IdlePcs, BenchPcs, EvalPcs, ClientExits
<1>4. ModePhases' /\ TelemetryPhases'
  BY <1>2 DEF WInv, ModePhases, ClientPhases, TelemetryPhases
<1>5. ZeroIsSuccess'
  BY <1>2 DEF WInv, ZeroIsSuccess
<1>6. /\ CompletedLast' /\ TruthfulSuccess'
      /\ WindowsConvertedAfterClient' /\ PublishedOnlyAfterBenchmark'
  BY <1>2 DEF WInv, CompletedLast, TruthfulSuccess, WindowsConvertedAfterClient,
              PublishedOnlyAfterBenchmark
<1>7. QED
  BY <1>1, <1>3, <1>4, <1>5, <1>6 DEF WInv

-----------------------------------------------------------------------------
(* The phases hold at the start and through every step of every thread.    *)
THEOREM WorkloadInvariance == Spec => []WInv
<1>1. Init => WInv
  BY DEF Init, WInv, SignalsStop, ClientPhases, ModePhases, TelemetryPhases,
         ZeroIsSuccess, CompletedLast, TruthfulSuccess, WindowsConvertedAfterClient,
         PublishedOnlyAfterBenchmark, BenchPcs, EvalPcs, IdlePcs, TryPcs, Stages,
         FinallyPcs
<1>2. TypeOK /\ WInv /\ [Next]_vars => WInv'
  <2> SUFFICES ASSUME TypeOK, WInv, [Next]_vars PROVE WInv'
    OBVIOUS
  <2>1. CASE MainThread
    <3>1. CASE RunTry /\ UNCHANGED stop
      <4>1. Frame
        BY <2>1, <3>1 DEF MainThread, Frame
      <4>2. QED
        BY <3>1, <4>1, LaunchesKeep, DispatchKeeps, BenchmarkKeeps, EvalKeeps DEF RunTry
    <3>2. CASE (RunFinally /\ UNCHANGED stop) \/ SetStop
      BY <2>1, <3>2, FinallyKeeps DEF MainThread
    <3>3. CASE MainInRegistry /\ UNCHANGED stop
      <4>1. SignalsStop' /\ UNCHANGED Workload
        BY <2>1, <3>3 DEF MainThread, MainInRegistry, WInv, SignalsStop, signalVars,
                          Workload, result, session, work
      <4>2. QED
        BY <3>3, <4>1, ElsewhereKeeps
    <3>4. QED
      BY <2>1, <3>1, <3>2, <3>3 DEF MainThread
  <2>2. CASE SignalArrives \/ HandlerInRegistry \/ Monitor
    <3>1. UNCHANGED Workload /\ (stop => stop')
      BY <2>2 DEF SignalArrives, HandlerInRegistry, Monitor, MonitorChecks,
                  MonitorJudges, monitorFrame, Workload, result, session, work
    <3>2. SignalsStop'
      BY <2>2, <3>1 DEF SignalArrives, HandlerInRegistry, Monitor, monitorFrame,
                        WInv, SignalsStop, signalVars
    <3>3. QED
      BY <3>1, <3>2, ElsewhereKeeps
  <2>3. CASE HandlerExits
    BY <2>3, ExitKeeps
  <2>4. CASE Environment
    <3>1. CASE UNCHANGED work
      <4>1. SignalsStop' /\ UNCHANGED Workload /\ UNCHANGED stop
        BY <2>4, <3>1 DEF Environment, WInv, SignalsStop, signalVars, Workload,
                          result, session, work
      <4>2. QED
        BY <4>1, ElsewhereKeeps
    <3>2. CASE ClientExits /\ UNCHANGED <<reaped, allows>>
      BY <2>4, <3>2, ClientExitKeeps DEF Environment
    <3>3. QED
      BY <2>4, <3>1, <3>2 DEF Environment
  <2>5. CASE UNCHANGED vars
    <3>1. SignalsStop' /\ UNCHANGED Workload /\ UNCHANGED stop
      BY <2>5 DEF vars, WInv, SignalsStop, signalVars, Workload, result, session, work
    <3>2. QED
      BY <3>1, ElsewhereKeeps
  <2>6. CASE UntimedWaitEnds
    <3>1. Frame
      BY <2>6 DEF UntimedWaitEnds, Frame
    <3>2. CASE Reaps
      BY <3>1, <3>2, LaunchesKeep
    <3>3. CASE TeardownClientReaped
      BY <3>1, <3>3, FinallyKeeps DEF Frame
    <3>4. QED
      BY <2>6, <3>2, <3>3 DEF UntimedWaitEnds, Reaps
  <2>7. QED
    BY <2>1, <2>2, <2>3, <2>4, <2>5, <2>6 DEF Next, SignalHandler
<1>3. QED
  BY <1>1, <1>2, TypeCorrect, PTL DEF Spec

(* "completed" is reported of no job whose workload, or whose required     *)
(* power artifacts, failed, whatever the threads and signals did.          *)
THEOREM SuccessIsTruthful == Spec => []TruthfulSuccess
<1>1. WInv => TruthfulSuccess
  BY DEF WInv
<1>2. QED
  BY <1>1, WorkloadInvariance, PTL

(* Windows are converted only after a client that can write no more.       *)
THEOREM ConvertedAfterClient == Spec => []WindowsConvertedAfterClient
<1>1. WInv => WindowsConvertedAfterClient
  BY DEF WInv
<1>2. QED
  BY <1>1, WorkloadInvariance, PTL

(* Artifacts are published only for a client that ended by itself.         *)
THEOREM PublishedAfterBenchmark == Spec => []PublishedOnlyAfterBenchmark
<1>1. WInv => PublishedOnlyAfterBenchmark
  BY DEF WInv
<1>2. QED
  BY <1>1, WorkloadInvariance, PTL

(* Conversion and publication both come after what they must wait for.     *)
THEOREM FilesInOrder == Spec => []WindowsInOrder
<1>1. TypeOK /\ WindowsConvertedAfterClient /\ PublishedOnlyAfterBenchmark => WindowsInOrder
  BY DEF WindowsInOrder
<1>2. QED
  BY <1>1, TypeCorrect, ConvertedAfterClient, PublishedAfterBenchmark, PTL

-----------------------------------------------------------------------------
(* From the launch of the workers to the benchmark (ServingReadiness).     *)
(* Workers are counted in three places: what the wait asks for is compared *)
(* with what can be routed to, by injections between sets of workers; then *)
(* each step keeps ReadinessInv.                                           *)

(* The processes of an endpoint                                            *)

Mode(n) == job.endpoints[n].mode

\* How many processes the n-th endpoint becomes.
Width(n) ==
    CASE Layout(job, Mode(n)) = "mpi"     -> 1
      [] Layout(job, Mode(n)) = "per_gpu" -> Len(job.endpoints[n].nodes) * job.endpoints[n].gpus
      [] OTHER                            -> Len(job.endpoints[n].nodes)

\* The fields of a process.
Made(n, m, d, r, g, h) == [endpoint |-> n, mode |-> m, node |-> d, rank |-> r, gpus |-> g, http |-> h]

LEMMA MadeFields ==
  ASSUME NEW n, NEW m, NEW d, NEW r, NEW g, NEW h \in BOOLEAN
  PROVE  LET p == Made(n, m, d, r, g, h)
         IN  p.endpoint = n /\ p.mode = m /\ p.gpus = g /\ (p.http <=> h)
<1> DEFINE p == Made(n, m, d, r, g, h)
<1>1. p.endpoint = n /\ p.mode = m /\ p.gpus = g
  BY DEF Made
<1>2. p.http = h
  BY Zenon DEF Made
<1> QED
  BY <1>1, <1>2

LEMMA JobFacts ==
  ASSUME job \in Jobs
  PROVE  /\ job \in Job /\ Valid(job)
         /\ Len(job.endpoints) \in Nat /\ DOMAIN job.endpoints = 1..Len(job.endpoints)
         /\ \A n \in DOMAIN job.endpoints : job.endpoints[n] \in Endpoint
         /\ DOMAIN job.endpoints # {}
<1>1. job \in Job /\ Valid(job)
  BY JobsAssumption
<1>2. /\ Len(job.endpoints) \in Nat /\ DOMAIN job.endpoints = 1..Len(job.endpoints)
      /\ \A n \in DOMAIN job.endpoints : job.endpoints[n] \in Endpoint
  BY <1>1 DEF Job
<1>3. DOMAIN job.endpoints # {}
  BY <1>1 DEF Valid, HasMode
<1> QED
  BY <1>1, <1>2, <1>3

\* What every process of an endpoint says of itself.
LEMMA ProcessFacts ==
  ASSUME job \in Jobs, NEW n \in DOMAIN job.endpoints
  PROVE  LET e == job.endpoints[n]
             l == Layout(job, e.mode)
         IN  /\ Width(n) \in Nat \ {0} /\ DOMAIN Processes[job][n] = 1..Width(n)
             /\ \A k \in 1..Width(n) :
                   /\ Proc(<<n, k>>).endpoint = n /\ Proc(<<n, k>>).mode = e.mode
                   /\ l # "per_gpu" => Proc(<<n, k>>).gpus = e.gpus
                   /\ (Proc(<<n, k>>).http <=> k = 1 \/ (l = "per_node" /\ ~SpansNodes(job, e)))
<1> DEFINE e == job.endpoints[n]
           l == Layout(job, e.mode)
<1>1. e \in Endpoint /\ Len(e.nodes) \in Nat \ {0} /\ e.gpus \in Nat \ {0} /\ Len(e.nodes) * e.gpus \in Nat \ {0}
  <2>1. e \in Endpoint /\ e.nodes # <<>>
    BY JobFacts DEF Valid
  <2>2. e.nodes \in Seq(Nat) /\ e.gpus \in Nat \ {0}
    BY <2>1 DEF Endpoint
  <2>3. Len(e.nodes) \in Nat \ {0}
    BY <2>1, <2>2
  <2>4. \A a, b \in Nat \ {0} : a * b \in Nat \ {0}
    OBVIOUS
  <2> QED
    BY <2>1, <2>2, <2>3, <2>4
<1>2. DOMAIN e.nodes = 1..Len(e.nodes)
  BY <1>1 DEF Endpoint
<1>3. Processes[job][n] = ProcessesOf(job, n)
  BY DEF Processes
<1>4. l \in {"mpi", "standard", "per_gpu", "per_node"}
  BY DEF Layout
<1>5. \A k : Proc(<<n, k>>) = ProcessesOf(job, n)[k]
  BY <1>3 DEF Proc
<1> HIDE DEF e, l
<1>6. CASE l = "mpi"
  <2>1. Width(n) = 1
    BY <1>6 DEF Width, Mode, e, l
  <2>2. ProcessesOf(job, n) = << [endpoint |-> n, mode |-> e.mode, node |-> e.nodes[1], rank |-> 0,
                                  gpus |-> e.gpus, http |-> TRUE] >>
    BY <1>6 DEF ProcessesOf, e, l
  <2>3. DOMAIN ProcessesOf(job, n) = 1..1 /\ \A k \in 1..1 :
            ProcessesOf(job, n)[k] = [endpoint |-> n, mode |-> e.mode, node |-> e.nodes[1], rank |-> 0,
                                      gpus |-> e.gpus, http |-> TRUE]
    BY <2>2
  <2> QED
    BY <1>3, <1>5, <1>6, <2>1, <2>3 DEF e, l
<1>7. CASE l = "per_gpu"
  <2>1. Width(n) = Len(e.nodes) * e.gpus
    BY <1>7 DEF Width, Mode, e, l
  <2>2. ProcessesOf(job, n) =
          [k \in 1..(Len(e.nodes) * e.gpus) |->
              [endpoint |-> n, mode |-> e.mode, node |-> e.nodes[((k - 1) \div e.gpus) + 1],
               rank |-> k - 1, gpus |-> 1, http |-> k = 1]]
    BY <1>7 DEF ProcessesOf, e, l
  <2>3. DOMAIN Processes[job][n] = 1..Width(n) /\ Width(n) \in Nat \ {0}
    BY <1>1, <1>3, <2>1, <2>2
  <2>4. \A k \in 1..Width(n) :
            Proc(<<n, k>>) = Made(n, e.mode, e.nodes[((k - 1) \div e.gpus) + 1], k - 1, 1, k = 1)
    <3> SUFFICES ASSUME NEW k \in 1..Width(n)
                 PROVE  ProcessesOf(job, n)[k]
                          = Made(n, e.mode, e.nodes[((k - 1) \div e.gpus) + 1], k - 1, 1, k = 1)
      BY <1>5
    <3> QED
      BY <2>1, <2>2, Zenon DEF Made
  <2>5. \A k \in 1..Width(n) :
            /\ Proc(<<n, k>>).endpoint = n /\ Proc(<<n, k>>).mode = e.mode
            /\ (Proc(<<n, k>>).http <=> k = 1)
    <3> SUFFICES ASSUME NEW k \in 1..Width(n)
                 PROVE  /\ Proc(<<n, k>>).endpoint = n /\ Proc(<<n, k>>).mode = e.mode
                        /\ (Proc(<<n, k>>).http <=> k = 1)
      OBVIOUS
    <3> DEFINE d == e.nodes[((k - 1) \div e.gpus) + 1]
               h == k = 1
    <3>1. h \in BOOLEAN /\ Proc(<<n, k>>) = Made(n, e.mode, d, k - 1, 1, h)
      BY <2>4
    <3> HIDE DEF d, h
    <3>2. /\ Proc(<<n, k>>).endpoint = n /\ Proc(<<n, k>>).mode = e.mode
          /\ (Proc(<<n, k>>).http <=> h)
      BY <3>1, MadeFields
    <3> QED
      BY <3>2 DEF h
  <2> QED
    BY <1>7, <2>3, <2>5 DEF e, l
<1>8. CASE l \in {"standard", "per_node"}
  <2>1. Width(n) = Len(e.nodes)
    BY <1>8 DEF Width, Mode, e, l
  <2>2. ProcessesOf(job, n) =
          [k \in DOMAIN e.nodes |->
              [endpoint |-> n, mode |-> e.mode, node |-> e.nodes[k], rank |-> k - 1,
               gpus |-> e.gpus, http |-> k = 1 \/ (l = "per_node" /\ ~SpansNodes(job, e))]]
    BY <1>8 DEF ProcessesOf, e, l
  <2>3. DOMAIN Processes[job][n] = 1..Width(n) /\ Width(n) \in Nat \ {0}
    BY <1>1, <1>2, <1>3, <2>1, <2>2
  <2>4. \A k \in 1..Width(n) :
            Proc(<<n, k>>) = Made(n, e.mode, e.nodes[k], k - 1, e.gpus,
                                  k = 1 \/ (l = "per_node" /\ ~SpansNodes(job, e)))
    <3> SUFFICES ASSUME NEW k \in DOMAIN e.nodes
                 PROVE  ProcessesOf(job, n)[k]
                          = Made(n, e.mode, e.nodes[k], k - 1, e.gpus,
                                 k = 1 \/ (l = "per_node" /\ ~SpansNodes(job, e)))
      BY <1>2, <1>5, <2>1
    <3> QED
      BY <2>2, Zenon DEF Made
  <2>5. \A k \in 1..Width(n) :
            /\ Proc(<<n, k>>).endpoint = n /\ Proc(<<n, k>>).mode = e.mode /\ Proc(<<n, k>>).gpus = e.gpus
            /\ (Proc(<<n, k>>).http <=> k = 1 \/ (l = "per_node" /\ ~SpansNodes(job, e)))
    <3> SUFFICES ASSUME NEW k \in 1..Width(n)
                 PROVE  /\ Proc(<<n, k>>).endpoint = n /\ Proc(<<n, k>>).mode = e.mode
                        /\ Proc(<<n, k>>).gpus = e.gpus
                        /\ (Proc(<<n, k>>).http <=> k = 1 \/ (l = "per_node" /\ ~SpansNodes(job, e)))
      OBVIOUS
    <3> DEFINE d == e.nodes[k]
               h == k = 1 \/ (l = "per_node" /\ ~SpansNodes(job, e))
    <3>1. h \in BOOLEAN /\ Proc(<<n, k>>) = Made(n, e.mode, d, k - 1, e.gpus, h)
      BY <2>4
    <3> HIDE DEF d, h
    <3>2. /\ Proc(<<n, k>>).endpoint = n /\ Proc(<<n, k>>).mode = e.mode
          /\ Proc(<<n, k>>).gpus = e.gpus
          /\ (Proc(<<n, k>>).http <=> h)
      BY <3>1, MadeFields
    <3> QED
      BY <3>2 DEF h
  <2> QED
    BY <2>3, <2>5 DEF e, l
<1> QED
  BY <1>4, <1>6, <1>7, <1>8

LEMMA WorkersAre ==
  ASSUME job \in Jobs
  PROVE  /\ \A w : w \in Workers <=>
                     \E n \in DOMAIN job.endpoints : \E k \in 1..Width(n) : w = <<n, k>>
         /\ IsFiniteSet(Workers) /\ <<1, 1>> \in Workers
<1>1. Workers = UNION {{n} \X DOMAIN Processes[job][n] : n \in DOMAIN Processes[job]}
  BY DEF Workers, WorkersOf
<1>2. DOMAIN Processes[job] = DOMAIN job.endpoints
  BY DEF Processes
<1>3. \A n \in DOMAIN job.endpoints : DOMAIN Processes[job][n] = 1..Width(n) /\ Width(n) \in Nat \ {0}
  BY ProcessFacts
<1>4. \A w : w \in Workers <=> \E n \in DOMAIN job.endpoints : \E k \in 1..Width(n) : w = <<n, k>>
  BY <1>1, <1>2, <1>3
<1>5. IsFiniteSet(Workers)
  <2> DEFINE Part(n) == {n} \X DOMAIN Processes[job][n]
  <2>1. IsFiniteSet(DOMAIN job.endpoints)
    BY JobFacts, FS_Interval
  <2>2. IsFiniteSet({Part(n) : n \in DOMAIN job.endpoints})
    <3> DEFINE S == {Part(n) : n \in DOMAIN job.endpoints}
               f == [n \in DOMAIN job.endpoints |-> Part(n)]
    <3>1. f \in Surjection(DOMAIN job.endpoints, S)
      BY DEF Surjection
    <3> QED
      BY <2>1, <3>1, FS_Surjection
  <2>3. \A n \in DOMAIN job.endpoints : IsFiniteSet(Part(n))
    <3> SUFFICES ASSUME NEW n \in DOMAIN job.endpoints PROVE IsFiniteSet(Part(n))
      OBVIOUS
    <3>1. 1 \in Int /\ Width(n) \in Int
      BY <1>3
    <3>2. IsFiniteSet({n}) /\ IsFiniteSet(1..Width(n))
      BY <3>1, FS_Singleton, FS_Interval
    <3> QED
      BY <1>3, <3>2, FS_Product
  <2>4. IsFiniteSet(UNION {Part(n) : n \in DOMAIN job.endpoints})
    <3>1. \A T \in {Part(n) : n \in DOMAIN job.endpoints} : IsFiniteSet(T)
      BY <2>3
    <3> QED
      BY <2>2, <3>1, FS_UNION
  <2> QED
    BY <1>1, <1>2, <2>4
<1>6. <<1, 1>> \in Workers
  <2>1. 1 \in DOMAIN job.endpoints
    BY JobFacts
  <2>2. 1 \in 1..Width(1)
    BY <1>3, <2>1
  <2> QED
    BY <1>4, <2>1, <2>2
<1> QED
  BY <1>4, <1>5, <1>6

-----------------------------------------------------------------------------
(* The first of some workers                                               *)

\* The library's induction over finite sets, in the form of a least number.
LEMMA LeastNumber ==
  ASSUME NEW T, T \subseteq Nat, T # {}
  PROVE  \E m \in T : \A t \in T : m <= t
<1>1. PICK top \in T : top \in Nat
  OBVIOUS
<1> DEFINE S == 0..top
           C == {0..t : t \in T \cap S}
<1>2. C \subseteq FiniteSubsetsOf(S) /\ C # {}
  <2>1. \A t \in T \cap S : IsFiniteSet(0..t) /\ 0..t \subseteq S
    BY <1>1, FS_Interval
  <2>2. top \in T \cap S
    BY <1>1
  <2> QED
    BY <2>1, <2>2 DEF FiniteSubsetsOf
<1>3. IsWellFoundedOn(StrictSubsetOrdering(S), FiniteSubsetsOf(S))
  BY FS_StrictSubsetOrderingWellFounded
<1> HIDE DEF C
<1>4. PICK X \in C : \A Y \in C : ~(<<Y, X>> \in StrictSubsetOrdering(S))
  BY <1>2, <1>3, WFMin
<1>5. PICK m \in T \cap S : X = 0..m
  BY DEF C
<1>6. \A t \in T : m <= t
  <2> SUFFICES ASSUME NEW t \in T, t < m PROVE FALSE
    BY <1>1, <1>5
  <2>1. m \in Nat /\ t \in Nat /\ t \in T \cap S
    BY <1>1, <1>5
  <2>2. 0..t \in C
    BY <2>1 DEF C
  <2>3. 0..t \subseteq S /\ 0..m \subseteq S /\ 0..t \subseteq 0..m /\ m \notin 0..t /\ m \in 0..m
    BY <1>1, <1>5, <2>1
  <2>4. <<0..t, X>> \in StrictSubsetOrdering(S)
    BY <1>5, <2>3 DEF StrictSubsetOrdering
  <2> QED
    BY <1>4, <2>2, <2>4
<1> QED
  BY <1>6

LEMMA FirstOf ==
  ASSUME job \in Jobs, NEW ws \in SUBSET Workers, ws # {}
  PROVE  First(ws) \in ws /\ \A v \in ws : v = First(ws) \/ Before(First(ws), v)
<1>1. \A w \in ws : w = <<w[1], w[2]>> /\ w[1] \in Nat /\ w[2] \in Nat
  <2> SUFFICES ASSUME NEW w \in ws PROVE w = <<w[1], w[2]>> /\ w[1] \in Nat /\ w[2] \in Nat
    OBVIOUS
  <2>1. PICK n \in DOMAIN job.endpoints : \E k \in 1..Width(n) : w = <<n, k>>
    BY WorkersAre
  <2>2. PICK k \in 1..Width(n) : w = <<n, k>>
    BY <2>1
  <2> QED
    BY <2>2, JobFacts, ProcessFacts
<1>2. PICK n \in {w[1] : w \in ws} : \A w \in ws : n <= w[1]
  <2>1. {w[1] : w \in ws} \subseteq Nat /\ {w[1] : w \in ws} # {}
    BY <1>1
  <2>2. \E m \in {w[1] : w \in ws} : \A t \in {w[1] : w \in ws} : m <= t
    BY <2>1, LeastNumber
  <2> QED
    BY <2>2
<1> DEFINE those == {w \in ws : w[1] = n}
<1>3. PICK k \in {w[2] : w \in those} : \A w \in those : k <= w[2]
  <2>1. {w[2] : w \in those} \subseteq Nat /\ {w[2] : w \in those} # {}
    BY <1>1, <1>2
  <2>2. \E m \in {w[2] : w \in those} : \A t \in {w[2] : w \in those} : m <= t
    BY <2>1, LeastNumber
  <2> QED
    BY <2>2
<1>4. <<n, k>> \in ws
  BY <1>1, <1>3
<1>5. \A v \in ws : v = <<n, k>> \/ Before(<<n, k>>, v)
  <2> SUFFICES ASSUME NEW v \in ws, ~Before(<<n, k>>, v) PROVE v = <<n, k>>
    OBVIOUS
  <2>1. n <= v[1] /\ ~(n < v[1]) /\ ~(n = v[1] /\ k < v[2]) /\ v = <<v[1], v[2]>>
    BY <1>1, <1>2 DEF Before
  <2>2. n \in Nat /\ k \in Nat /\ v[1] \in Nat /\ v[2] \in Nat
    BY <1>1, <1>2, <1>3
  <2>3. v[1] = n
    BY <2>1, <2>2
  <2>4. k <= v[2]
    BY <1>3, <2>3
  <2> QED
    BY <2>1, <2>2, <2>3, <2>4
<1> QED
  BY <1>4, <1>5 DEF First

LEMMA FirstWorker ==
  ASSUME job \in Jobs
  PROVE  First(Workers) = <<1, 1>>
<1>1. First(Workers) \in Workers /\ (<<1, 1>> = First(Workers) \/ Before(First(Workers), <<1, 1>>))
  BY WorkersAre, FirstOf
<1>2. PICK n \in DOMAIN job.endpoints : \E k \in 1..Width(n) : First(Workers) = <<n, k>>
  BY <1>1, WorkersAre
<1>3. PICK k \in 1..Width(n) : First(Workers) = <<n, k>>
  BY <1>2
<1>4. n \in Nat \ {0} /\ k \in Nat \ {0}
  BY <1>3, JobFacts, ProcessFacts
<1> QED
  BY <1>1, <1>3, <1>4 DEF Before

-----------------------------------------------------------------------------
(* What the wait expects of a side is what there is to route to.           *)

\* The mode of a side's workers.
ModeOf(s) == IF HasMode(job, "agg") /\ s = "decode" THEN "agg" ELSE s

LEMMA SideHasOneMode ==
  ASSUME job \in Jobs, NEW s \in {"prefill", "decode"}, NEW w \in OfSide(s)
  PROVE  /\ Proc(w).mode = ModeOf(s) /\ Proc(w).endpoint = w[1]
         /\ \E n \in DOMAIN job.endpoints : \E k \in 1..Width(n) : w = <<n, k>> /\ Mode(n) = ModeOf(s)
<1>1. w \in Workers /\ Side(Proc(w).mode) = s
  BY DEF OfSide
<1>2. PICK n \in DOMAIN job.endpoints : \E k \in 1..Width(n) : w = <<n, k>>
  BY <1>1, WorkersAre
<1>3. PICK k \in 1..Width(n) : w = <<n, k>>
  BY <1>2
<1>4. Proc(w).endpoint = n /\ Proc(w).mode = Mode(n)
  BY <1>3, ProcessFacts DEF Mode
<1>5. Mode(n) \in Modes /\ HasMode(job, Mode(n))
  BY JobFacts DEF Endpoint, Mode, HasMode
<1>6. HasMode(job, "agg") => ~HasMode(job, "prefill") /\ ~HasMode(job, "decode")
  BY JobFacts DEF Valid
<1>7. Mode(n) = ModeOf(s)
  BY <1>1, <1>4, <1>5, <1>6 DEF Side, ModeOf, Modes
<1> QED
  BY <1>3, <1>4, <1>7

\* If only the first processes of the endpoints are routed to, there is one for each.
LEMMA LeadersCounted ==
  ASSUME job \in Jobs, NEW s \in {"prefill", "decode"},
         NEW ws \in SUBSET OfSide(s), \A w \in ws : w[2] = 1
  PROVE  LogicalWorkers(s) \in Nat /\ Cardinality(ws) <= LogicalWorkers(s)
<1> DEFINE ends == {Proc(w).endpoint : w \in OfSide(s)}
           f == [w \in ws |-> w[1]]
<1>1. \A w \in OfSide(s) : Proc(w).endpoint = w[1] /\ w = <<w[1], w[2]>> /\ w[1] \in 1..Len(job.endpoints)
  BY SideHasOneMode, JobFacts
<1>2. IsFiniteSet(ends)
  <2>1. IsFiniteSet(1..Len(job.endpoints))
    BY JobFacts, FS_Interval
  <2>2. ends \in SUBSET (1..Len(job.endpoints))
    BY <1>1
  <2> QED
    BY <2>1, <2>2, FS_Subset
<1>3. f \in Injection(ws, ends)
  <2>1. f \in [ws -> ends]
    BY <1>1
  <2>2. \A v, w \in ws : f[v] = f[w] => v = w
    BY <1>1
  <2> QED
    BY <2>1, <2>2 DEF Injection, IsInjective
<1> HIDE DEF f
<1>4. Cardinality(ws) <= Cardinality(ends) /\ Cardinality(ends) \in Nat
  BY <1>2, <1>3, FS_Injection, FS_CardinalityType
<1> QED
  BY <1>4 DEF LogicalWorkers

\* As many as each endpoint has ranks, if each is a process.
LEMMA RanksCounted ==
  ASSUME job \in Jobs, NEW s \in {"prefill", "decode"}, NEW d \in Nat,
         \A n \in DOMAIN job.endpoints : Mode(n) = ModeOf(s) => Width(n) = d
  PROVE  /\ LogicalWorkers(s) \in Nat /\ Cardinality(OfSide(s)) <= LogicalWorkers(s) * d
<1> DEFINE ends == {Proc(w).endpoint : w \in OfSide(s)}
           f == [w \in OfSide(s) |-> <<w[1], w[2]>>]
<1>1. \A w \in OfSide(s) : /\ Proc(w).endpoint = w[1] /\ w = <<w[1], w[2]>>
                           /\ w[1] \in 1..Len(job.endpoints) /\ w[2] \in 1..d
  <2> SUFFICES ASSUME NEW w \in OfSide(s)
               PROVE  /\ Proc(w).endpoint = w[1] /\ w = <<w[1], w[2]>>
                      /\ w[1] \in 1..Len(job.endpoints) /\ w[2] \in 1..d
    OBVIOUS
  <2>1. PICK n \in DOMAIN job.endpoints : \E k \in 1..Width(n) : w = <<n, k>> /\ Mode(n) = ModeOf(s)
    BY SideHasOneMode
  <2>2. PICK k \in 1..Width(n) : w = <<n, k>> /\ Mode(n) = ModeOf(s)
    BY <2>1
  <2>3. Proc(w).endpoint = w[1]
    BY SideHasOneMode
  <2> QED
    BY <2>2, <2>3, JobFacts
<1>2. IsFiniteSet(ends)
  <2>1. IsFiniteSet(1..Len(job.endpoints))
    BY JobFacts, FS_Interval
  <2>2. ends \in SUBSET (1..Len(job.endpoints))
    BY <1>1
  <2> QED
    BY <2>1, <2>2, FS_Subset
<1>3. IsFiniteSet(1..d) /\ Cardinality(1..d) = d
  BY FS_Interval
<1>4. f \in Injection(OfSide(s), ends \X (1..d))
  <2>1. f \in [OfSide(s) -> ends \X (1..d)]
    BY <1>1
  <2>2. \A v, w \in OfSide(s) : f[v] = f[w] => v = w
    BY <1>1
  <2> QED
    BY <2>1, <2>2 DEF Injection, IsInjective
<1> HIDE DEF f, ends
<1>5. IsFiniteSet(ends \X (1..d)) /\ Cardinality(ends \X (1..d)) = Cardinality(ends) * d
  BY <1>2, <1>3, FS_Product
<1>6. Cardinality(OfSide(s)) <= Cardinality(ends) * d /\ Cardinality(ends) \in Nat
  BY <1>2, <1>4, <1>5, FS_Injection, FS_CardinalityType
<1> QED
  BY <1>6 DEF LogicalWorkers, ends

\* Which processes of an endpoint are routed to, but by vLLM Router.
LEMMA RoutedProcess ==
  ASSUME job \in Jobs, job.frontend # "vllm-router", NEW n \in DOMAIN job.endpoints, NEW k \in 1..Width(n),
         <<n, k>> \in Routable, k # 1
  PROVE  \/ Layout(job, Mode(n)) = "per_gpu"
         \/ Layout(job, Mode(n)) = "per_node" /\ ~SpansNodes(job, job.endpoints[n])
<1>1. /\ Proc(<<n, k>>).mode = Mode(n)
      /\ (Proc(<<n, k>>).http <=>
            k = 1 \/ (Layout(job, Mode(n)) = "per_node" /\ ~SpansNodes(job, job.endpoints[n])))
  BY ProcessFacts DEF Mode
<1> QED
  BY <1>1 DEF Routable

\* The number a wait for Dynamo or SGLang's router asks for is not less than what there is.
LEMMA EnoughExpected ==
  ASSUME job \in Jobs, job.frontend \in {"dynamo", "sglang"}, NEW s \in {"prefill", "decode"}
  PROVE  Expected(s) \in Nat /\ Cardinality(Routable \cap OfSide(s)) <= Expected(s)
<1> DEFINE m == ModeOf(s)
           mine == Routable \cap OfSide(s)
<1>1. /\ job.dp \in [Modes -> Nat \ {0}] /\ job.model_parallel \in [Modes -> Nat \ {0}]
      /\ job.dp_launch_mode \in {"per_node", "per_gpu"} /\ m \in Modes
      /\ job.frontend = "sglang" => job.backend = "sglang"
  BY JobFacts DEF Job, Valid, ModeOf, Modes
<1>2. IsFiniteSet(OfSide(s)) /\ IsFiniteSet(mine)
  <2>1. OfSide(s) \in SUBSET Workers /\ mine \in SUBSET Workers
    BY DEF OfSide
  <2> QED
    BY <2>1, WorkersAre, FS_Subset
<1>3. Cardinality(OfSide(s)) \in Nat /\ Cardinality(mine) <= Cardinality(OfSide(s))
  <2>1. mine \in SUBSET OfSide(s)
    OBVIOUS
  <2> QED
    BY <1>2, <2>1, FS_Subset, FS_CardinalityType
<1>4. ASSUME \A n \in DOMAIN job.endpoints : Mode(n) = m =>
                /\ Layout(job, Mode(n)) # "per_gpu"
                /\ Layout(job, Mode(n)) = "per_node" => SpansNodes(job, job.endpoints[n])
      PROVE  LogicalWorkers(s) \in Nat /\ Cardinality(mine) <= LogicalWorkers(s)
  <2>1. \A w \in mine : w[2] = 1
    <3> SUFFICES ASSUME NEW w \in mine PROVE w[2] = 1
      OBVIOUS
    <3>1. PICK n \in DOMAIN job.endpoints : \E k \in 1..Width(n) : w = <<n, k>> /\ Mode(n) = m
      BY SideHasOneMode
    <3>2. PICK k \in 1..Width(n) : w = <<n, k>> /\ Mode(n) = m
      BY <3>1
    <3>3. k = 1
      BY <1>4, <3>2, RoutedProcess
    <3> QED
      BY <3>2, <3>3
  <2>2. mine \in SUBSET OfSide(s)
    OBVIOUS
  <2> QED
    BY <2>1, <2>2, LeadersCounted
<1>5. CASE ~(job.frontend = "dynamo" /\ job.backend = "vllm")
  <2>1. job.backend # "vllm"
    BY <1>1, <1>5
  <2>2. \A n \in DOMAIN job.endpoints : Layout(job, Mode(n)) \in {"mpi", "standard"}
    BY <2>1 DEF Layout
  <2>3. Expected(s) = LogicalWorkers(s)
    BY <1>5 DEF Expected
  <2> QED
    BY <1>4, <2>2, <2>3
<1>6. CASE job.frontend = "dynamo" /\ job.backend = "vllm"
  <2>1. Expected(s) = HealthEntries(s)
    BY <1>6 DEF Expected
  <2>2. CASE job.dp[m] = 1
    <3>1. \A n \in DOMAIN job.endpoints : Mode(n) = m => Layout(job, Mode(n)) = "standard"
      BY <1>6, <2>2 DEF Layout
    <3>2. LogicalWorkers(s) \in Nat /\ Cardinality(mine) <= LogicalWorkers(s)
      BY <1>4, <3>1
    <3>3. Expected(s) = LogicalWorkers(s) * 1
      BY <2>1, <2>2 DEF HealthEntries, ModeOf
    <3> QED
      BY <3>2, <3>3
  <2>3. CASE job.dp[m] # 1 /\ job.dp_launch_mode = "per_gpu"
    <3>1. ASSUME NEW n \in DOMAIN job.endpoints, Mode(n) = m PROVE Width(n) = job.dp[m]
      <4>1. Layout(job, Mode(n)) = "per_gpu"
        BY <1>6, <2>3, <3>1 DEF Layout
      <4>2. /\ job.dp[m] * job.model_parallel[m] = job.endpoints[n].gpus * Len(job.endpoints[n].nodes)
            /\ job.model_parallel[m] = 1
        BY <3>1, <4>1, JobFacts DEF Valid, Mode
      <4>3. Width(n) = Len(job.endpoints[n].nodes) * job.endpoints[n].gpus
        BY <4>1 DEF Width
      <4>4. job.endpoints[n].gpus \in Nat /\ Len(job.endpoints[n].nodes) \in Nat
        BY JobFacts DEF Endpoint
      <4> QED
        BY <1>1, <4>2, <4>3, <4>4
    <3>2. LogicalWorkers(s) \in Nat /\ Cardinality(OfSide(s)) <= LogicalWorkers(s) * job.dp[m]
      BY <1>1, <3>1, RanksCounted
    <3>3. Expected(s) = LogicalWorkers(s) * job.dp[m]
      BY <2>1, <2>3 DEF HealthEntries, ModeOf
    <3>4. Cardinality(mine) \in Nat
      BY <1>2, FS_CardinalityType
    <3>5. LogicalWorkers(s) * job.dp[m] \in Nat
      BY <1>1, <3>2
    <3> QED
      BY <1>3, <3>2, <3>3, <3>4, <3>5
  <2>4. CASE job.dp[m] # 1 /\ job.dp_launch_mode = "per_node"
    <3>1. CASE OfSide(s) # {} /\ job.model_parallel[m] > Proc(First(OfSide(s))).gpus
      <4>1. \A n \in DOMAIN job.endpoints : Mode(n) = m => Layout(job, Mode(n)) = "per_node"
        BY <1>6, <2>4 DEF Layout
      <4>2. OfSide(s) \in SUBSET Workers
        BY DEF OfSide
      <4>3. First(OfSide(s)) \in OfSide(s)
        BY <3>1, <4>2, FirstOf
      <4>4. PICK h \in DOMAIN job.endpoints : \E k \in 1..Width(h) : First(OfSide(s)) = <<h, k>> /\ Mode(h) = m
        BY <4>3, SideHasOneMode
      <4>5. Proc(First(OfSide(s))).gpus = job.endpoints[h].gpus
        BY <4>1, <4>4, ProcessFacts DEF Mode
      <4>6. \A n \in DOMAIN job.endpoints : Mode(n) = m => SpansNodes(job, job.endpoints[n])
        <5>1. \A n \in DOMAIN job.endpoints : Mode(n) = m => job.endpoints[n].gpus = job.endpoints[h].gpus
          BY <4>4, JobFacts DEF Valid, Mode
        <5> QED
          BY <3>1, <4>5, <5>1 DEF SpansNodes, Mode
      <4>7. Expected(s) = LogicalWorkers(s)
        BY <2>1, <2>4, <3>1 DEF HealthEntries, ModeOf
      <4> QED
        BY <1>4, <4>1, <4>6, <4>7
    <3>2. CASE ~(OfSide(s) # {} /\ job.model_parallel[m] > Proc(First(OfSide(s))).gpus)
      <4>1. Expected(s) = Cardinality(OfSide(s))
        BY <2>1, <2>4, <3>2 DEF HealthEntries, ModeOf
      <4> QED
        BY <1>3, <4>1
    <3> QED
      BY <3>1, <3>2
  <2> QED
    BY <1>1, <2>2, <2>3, <2>4
<1> QED
  BY <1>5, <1>6
-----------------------------------------------------------------------------
(* The invariant                                                           *)

\* Who serves has served; what was waited for, and what a frontend counts that counts
\* processes, has served.
ServedIsKept ==
  /\ \A w \in Workers : worker[w] = "serving" => w \in served
  /\ gate \subseteq served
  /\ job.frontend # "vllm-router" => \A f \in Fronts : listed[f] \subseteq served

\* A thread is never ahead of its batch, and only what it has started does anything.
BatchesInOrder ==
  /\ \A n \in Nodes : /\ Cardinality(thread[n].started) <= Batch(n)
                      /\ \A w \in thread[n].healthy : worker[w] \in {"serving", "dead"}
  /\ \A w \in Workers : worker[w] # "off" => \E n \in Nodes : w \in thread[n].started

\* What brought the orchestrator to each wait.
WaitsFollow ==
  /\ at \in {"model", "model_get"} => gate = Gated
  /\ at = "models_get" => IsDirect(job)
  /\ at \in {"backend", "backend_get"} => job.frontend = "vllm-router"

\* What a pass over the URLs has seen.
PassIsTrue ==
  /\ \A w \in pass.dead : worker[w] = "dead"
  /\ ~pass.pending => pass.asked \subseteq served /\ pass.asked \cap pass.dead = {}

ReadinessInv ==
  ReadinessTyped /\ ServedIsKept /\ BatchesInOrder /\ WaitsFollow /\ PassIsTrue /\ ReadyMeansServed

\* The job, and with it all that is computed from it, stays.
LEMMA SameJob ==
  ASSUME job' = job
  PROVE  /\ Workers' = Workers /\ Nodes' = Nodes /\ Routable' = Routable /\ Gated' = Gated
         /\ Fronts' = Fronts /\ Nginx' = Nginx /\ \A n : StartedOn(n)' = StartedOn(n)
         /\ \A w : Proc(w)' = Proc(w)
<1>1. Workers' = Workers
  BY DEF Workers
<1>2. \A w : Proc(w)' = Proc(w)
  BY DEF Proc
<1>3. \A n : StartedOn(n)' = StartedOn(n)
  BY <1>1, <1>2 DEF StartedOn
<1>4. Nodes' = Nodes
  BY <1>1, <1>2 DEF Nodes
<1>5. Routable' = Routable
  BY <1>1, <1>2 DEF Routable
<1>6. Gated' = Gated
  BY <1>1 DEF Gated, IsDirect, HasMode
<1> QED
  BY <1>1, <1>2, <1>3, <1>4, <1>5, <1>6 DEF Fronts, Nginx

LEMMA JobStays ==
  ASSUME [ReadinessNext]_readinessVars
  PROVE  job' = job
BY DEF ReadinessNext, readinessVars, Orchestrator, TimesOut, Over, StartWorker, WorkerHealthy, WorkerNotHealthy,
       AllStarted, GateOpens, GateFails, StartFrontends, StartDynamo, StartStaticRouter, StartOrchestrator,
       StartDirect, Refuse, Launch, Leave, StopSeen, GiveUp, AskModel, ModelAnswers, ModelsAnswer, BeginPass,
       UrlAnswers, EndPass, LeaveWait, MonitorSees, Serves, Dies, FrontendUp, Lists, Forgets

\* The workers of a batch.
LEMMA BatchArithmetic ==
  ASSUME NEW c \in Nat \ {0}, NEW h \in Nat
  PROVE  /\ h < c * ((h \div c) + 1) /\ c * ((h \div c) + 1) - h <= c
         /\ c * ((h \div c) + 1) \in Nat /\ c * ((h \div c) + 1) <= c * (((h + 1) \div c) + 1)
<1> DEFINE q == h \div c
           r == (h + 1) \div c
<1>1. q \in Nat /\ r \in Nat
  OBVIOUS
<1>2. c * q <= h /\ h < c * q + c
  OBVIOUS
<1>3. c * r <= h + 1 /\ h + 1 < c * r + c
  OBVIOUS
<1>4. c * (q + 1) = c * q + c /\ c * (r + 1) = c * r + c /\ c * q \in Nat /\ c * r \in Nat
  BY <1>1
<1> HIDE DEF q, r
<1>5. q <= r
  <2> SUFFICES ASSUME r < q PROVE FALSE
    BY <1>1
  <2>1. r + 1 <= q
    BY <1>1
  <2>2. c * (r + 1) <= c * q
    BY <1>1, <2>1
  <2> QED
    BY <1>2, <1>3, <1>4, <2>2
<1>6. c * q <= c * r
  BY <1>1, <1>5
<1>7. h < c * (q + 1) /\ c * (q + 1) - h <= c /\ c * (q + 1) \in Nat /\ c * (q + 1) <= c * (r + 1)
  BY <1>2, <1>4, <1>6
<1> QED
  BY <1>7 DEF q, r

LEMMA SizeOfBatch ==
  ASSUME job \in Jobs
  PROVE  Concurrency(job) \in Nat \ {0} /\ (Sequential(job) => Concurrency(job) = job.sequential_node_start)
<1>1. Cardinality(Workers) \in Nat \ {0}
  BY WorkersAre, FS_CardinalityType, FS_EmptySet
<1>2. job.sequential_node_start \in Nat
  BY JobFacts DEF Job
<1> QED
  BY <1>1, <1>2 DEF Concurrency, Sequential, Workers

\* The threads' sets are finite, and a full batch has one that is not yet healthy.
LEMMA ThreadFacts ==
  ASSUME ReadinessInv, NEW n \in Nodes
  PROVE  /\ thread[n] \in [started: SUBSET Workers, healthy: SUBSET Workers, failed: BOOLEAN]
         /\ thread[n].healthy \subseteq thread[n].started /\ thread[n].started \subseteq StartedOn(n)
         /\ IsFiniteSet(thread[n].started) /\ IsFiniteSet(thread[n].healthy)
         /\ Cardinality(thread[n].started) \in Nat /\ Cardinality(thread[n].healthy) \in Nat
         /\ Batch(n) \in Nat /\ Cardinality(thread[n].healthy) < Batch(n)
<1>1. /\ thread[n] \in [started: SUBSET Workers, healthy: SUBSET Workers, failed: BOOLEAN] /\ job \in Jobs
      /\ thread[n].healthy \subseteq thread[n].started /\ thread[n].started \subseteq StartedOn(n)
  BY DEF ReadinessInv, ReadinessTyped
<1>2. /\ IsFiniteSet(thread[n].started) /\ IsFiniteSet(thread[n].healthy)
      /\ Cardinality(thread[n].started) \in Nat /\ Cardinality(thread[n].healthy) \in Nat
  <2>1. thread[n].started \in SUBSET Workers /\ thread[n].healthy \in SUBSET Workers
    BY <1>1
  <2> QED
    BY <1>1, <2>1, WorkersAre, FS_Subset, FS_CardinalityType
<1>3. Batch(n) \in Nat /\ Cardinality(thread[n].healthy) < Batch(n)
  BY <1>1, <1>2, SizeOfBatch, BatchArithmetic DEF Batch
<1> QED
  BY <1>1, <1>2, <1>3

\* No worker is started by two threads.
LEMMA StartedOnce ==
  ASSUME job \in Jobs, NEW n \in Nodes
  PROVE  /\ StartedOn(n) \subseteq Workers /\ (Sequential(job) => \A w \in StartedOn(n) : Proc(w).node = n)
         /\ \A l \in Nodes : \A w \in StartedOn(n) : w \in StartedOn(l) => l = n
BY DEF StartedOn

\* What a step leaves alone stays true.
LEMMA LeftAlone ==
  ASSUME ReadinessInv, job' = job
  PROVE  /\ UNCHANGED <<worker, thread>> => BatchesInOrder'
         /\ UNCHANGED <<worker, served, gate, listed>> => ServedIsKept'
         /\ UNCHANGED <<worker, served, pass>> => PassIsTrue'
         /\ UNCHANGED <<at, gate>> => WaitsFollow'
         /\ UNCHANGED <<served, pass>> /\ (at' = at \/ at' # "ready") => ReadyMeansServed'
<1>1. UNCHANGED <<worker, thread>> => BatchesInOrder'
  BY SameJob DEF ReadinessInv, BatchesInOrder, Batch
<1>2. UNCHANGED <<worker, served, gate, listed>> => ServedIsKept'
  BY SameJob DEF ReadinessInv, ServedIsKept
<1>3. UNCHANGED <<worker, served, pass>> => PassIsTrue'
  BY DEF ReadinessInv, PassIsTrue
<1>4. UNCHANGED <<at, gate>> => WaitsFollow'
  BY SameJob DEF ReadinessInv, WaitsFollow, IsDirect, HasMode
<1>5. UNCHANGED <<served, pass>> /\ (at' = at \/ at' # "ready") => ReadyMeansServed'
  BY SameJob DEF ReadinessInv, ReadyMeansServed
<1> QED
  BY <1>1, <1>2, <1>3, <1>4, <1>5

\* The types, part by part.
LEMMA TypedAgain ==
  ASSUME ReadinessInv, job' = job
  PROVE  /\ /\ thread' \in [Nodes -> [started: SUBSET Workers, healthy: SUBSET Workers, failed: BOOLEAN]]
            /\ \A n \in Nodes : /\ thread'[n].healthy \subseteq thread'[n].started
                                /\ thread'[n].started \subseteq StartedOn(n)
            /\ worker' \in [Workers -> {"off", "loading", "serving", "dead"}]
            /\ UNCHANGED <<at, served, managed, stop_event, gate, front, listed, pass, deaths>>
            => ReadinessTyped'
         /\ /\ at' \in {"workers", "frontend", "model", "model_get", "models_get", "backend",
                        "backend_get", "ready", "failed"}
            /\ UNCHANGED <<thread, worker, served, managed, stop_event, gate, front, listed, pass, deaths>>
            => ReadinessTyped'
<1> USE SameJob DEF ReadinessInv, ReadinessTyped
<1>1. ASSUME /\ thread' \in [Nodes -> [started: SUBSET Workers, healthy: SUBSET Workers, failed: BOOLEAN]]
             /\ \A n \in Nodes : /\ thread'[n].healthy \subseteq thread'[n].started
                                 /\ thread'[n].started \subseteq StartedOn(n)
             /\ worker' \in [Workers -> {"off", "loading", "serving", "dead"}]
             /\ UNCHANGED <<at, served, managed, stop_event, gate, front, listed, pass, deaths>>
      PROVE  ReadinessTyped'
  BY <1>1
<1>2. ASSUME /\ at' \in {"workers", "frontend", "model", "model_get", "models_get", "backend",
                         "backend_get", "ready", "failed"}
             /\ UNCHANGED <<thread, worker, served, managed, stop_event, gate, front, listed, pass, deaths>>
      PROVE  ReadinessTyped'
  BY <1>2
<1> QED
  BY <1>1, <1>2

LEMMA InitEstablishes == ReadinessInit => ReadinessInv
<1> SUFFICES ASSUME ReadinessInit PROVE ReadinessInv
  OBVIOUS
<1> USE DEF ReadinessInit
<1>1. ReadinessTyped
  <2>1. deaths \in 0..MaxDeaths
    BY MaxDeathsAssumption
  <2>2. thread \in [Nodes -> [started: SUBSET Workers, healthy: SUBSET Workers, failed: BOOLEAN]]
    OBVIOUS
  <2> QED
    BY <2>1, <2>2 DEF ReadinessTyped
<1>2. ServedIsKept /\ WaitsFollow /\ PassIsTrue /\ ReadyMeansServed
  BY DEF ServedIsKept, WaitsFollow, PassIsTrue, ReadyMeansServed
<1>3. BatchesInOrder
  <2> SUFFICES ASSUME NEW n \in Nodes PROVE Cardinality(thread[n].started) <= Batch(n)
    BY DEF BatchesInOrder
  <2>1. thread[n].started = {} /\ thread[n].healthy = {} /\ Cardinality({}) = 0
    BY FS_EmptySet
  <2>2. Batch(n) \in Nat
    <3>1. 0 \in Nat
      OBVIOUS
    <3> QED
      BY <2>1, <3>1, SizeOfBatch, BatchArithmetic DEF Batch
  <2> QED
    BY <2>1, <2>2
<1> QED
  BY <1>1, <1>2, <1>3 DEF ReadinessInv

-----------------------------------------------------------------------------
(* The threads                                                             *)

LEMMA StartWorkerKeeps ==
  ASSUME ReadinessInv, NEW n \in Nodes, StartWorker(n)
  PROVE  ReadinessInv'
<1> DEFINE w == First(StartedOn(n) \ thread[n].started)
<1> USE DEF StartWorker
<1>1. job' = job /\ job \in Jobs
  BY DEF ReadinessInv, ReadinessTyped
<1>2. w \in StartedOn(n) /\ w \notin thread[n].started /\ w \in Workers
  <2>1. StartedOn(n) \ thread[n].started # {} /\ StartedOn(n) \ thread[n].started \in SUBSET Workers
    BY <1>1, ThreadFacts, StartedOnce DEF ThreadOver
  <2> QED
    BY <1>1, <2>1, FirstOf
<1> HIDE DEF w
<1>3. worker' = [worker EXCEPT ![w] = "loading"]
  BY DEF w
<1>4. thread' = [thread EXCEPT ![n].started = @ \cup {w}]
  BY DEF w
<1>5. /\ thread' \in [Nodes -> [started: SUBSET Workers, healthy: SUBSET Workers, failed: BOOLEAN]]
      /\ thread'[n].started = thread[n].started \cup {w} /\ thread'[n].healthy = thread[n].healthy
      /\ \A l \in Nodes \ {n} : thread'[l] = thread[l]
  <2> DEFINE T == [started: SUBSET Workers, healthy: SUBSET Workers, failed: BOOLEAN]
             r == [thread[n] EXCEPT !.started = @ \cup {w}]
  <2>1. thread' = [thread EXCEPT ![n] = r]
    BY <1>4
  <2>2. thread[n] \in T /\ thread \in [Nodes -> T]
    BY DEF ReadinessInv, ReadinessTyped
  <2>3. r \in T /\ r.started = thread[n].started \cup {w} /\ r.healthy = thread[n].healthy
    BY <1>2, <2>2
  <2> HIDE DEF T, r
  <2>4. thread' \in [Nodes -> T] /\ thread'[n] = r /\ \A l \in Nodes \ {n} : thread'[l] = thread[l]
    BY <2>1, <2>2, <2>3
  <2> QED
    BY <2>3, <2>4 DEF T
<1>6. /\ worker' \in [Workers -> {"off", "loading", "serving", "dead"}]
      /\ worker'[w] = "loading" /\ \A v \in Workers \ {w} : worker'[v] = worker[v]
  <2>1. worker \in [Workers -> {"off", "loading", "serving", "dead"}]
    BY DEF ReadinessInv, ReadinessTyped
  <2> HIDE DEF StartWorker
  <2> QED
    BY <1>2, <1>3, <2>1
<1>7. \A l \in Nodes : thread[l].started \subseteq thread'[l].started /\ thread'[l].healthy = thread[l].healthy
  BY <1>5
<1>8. worker[w] = "off"
  <2> SUFFICES ASSUME worker[w] # "off" PROVE FALSE
    OBVIOUS
  <2>1. PICK l \in Nodes : w \in thread[l].started
    BY <1>2 DEF ReadinessInv, BatchesInOrder
  <2>2. w \in StartedOn(l)
    BY <2>1, ThreadFacts
  <2> QED
    BY <1>1, <1>2, <2>1, <2>2, StartedOnce
<1>9. ReadinessTyped'
  <2>1. \A l \in Nodes : thread'[l].healthy \subseteq thread'[l].started /\ thread'[l].started \subseteq StartedOn(l)
    <3> SUFFICES ASSUME NEW l \in Nodes
                 PROVE  thread'[l].healthy \subseteq thread'[l].started /\ thread'[l].started \subseteq StartedOn(l)
      OBVIOUS
    <3>1. thread[l].healthy \subseteq thread[l].started /\ thread[l].started \subseteq StartedOn(l)
      BY ThreadFacts
    <3> QED
      BY <1>2, <1>5, <3>1
  <2> QED
    BY <1>1, <1>5, <1>6, <2>1, TypedAgain
<1>10. ServedIsKept'
  BY <1>1, <1>6, SameJob DEF ReadinessInv, ServedIsKept
<1>11. BatchesInOrder'
  <2>1. ASSUME NEW l \in Nodes
        PROVE  /\ Cardinality(thread'[l].started) <= Batch(l)'
               /\ \A v \in thread'[l].healthy : worker'[v] \in {"serving", "dead"}
    <3>1. /\ Cardinality(thread[l].started) <= Batch(l)
          /\ \A v \in thread[l].healthy : worker[v] \in {"serving", "dead"}
      BY DEF ReadinessInv, BatchesInOrder
    <3>2. Batch(l)' = Batch(l)
      BY <1>1, <1>7 DEF Batch
    <3>3. Cardinality(thread'[l].started) <= Batch(l)
      <4>1. CASE l # n
        BY <1>5, <3>1, <4>1
      <4>2. CASE l = n
        <5>1. IsFiniteSet(thread[n].started) /\ Cardinality(thread[n].started) \in Nat /\ Batch(n) \in Nat
          BY ThreadFacts
        <5>2. Cardinality(thread[n].started \cup {w}) = Cardinality(thread[n].started) + 1
          BY <1>2, <5>1, FS_AddElement
        <5>3. Cardinality(thread[n].started) < Batch(n)
          OBVIOUS
        <5> QED
          <6>1. Cardinality(thread[n].started) + 1 <= Batch(n)
            BY <5>1, <5>3
          <6> HIDE DEF StartWorker
          <6> QED
            BY <1>5, <4>2, <5>2, <6>1
      <4> QED
        BY <4>1, <4>2
    <3>4. \A v \in thread'[l].healthy : worker'[v] \in {"serving", "dead"}
      <4>1. \A v \in thread[l].healthy : v \in Workers
        BY ThreadFacts
      <4> QED
        BY <1>6, <1>7, <1>8, <3>1, <4>1
    <3> QED
      BY <3>2, <3>3, <3>4
  <2>2. ASSUME NEW v \in Workers, worker'[v] # "off"
        PROVE  \E l \in Nodes : v \in thread'[l].started
    <3>1. CASE v = w
      BY <1>5, <3>1
    <3>2. CASE v # w
      BY <1>6, <1>7, <2>2, <3>2 DEF ReadinessInv, BatchesInOrder
    <3> QED
      BY <3>1, <3>2
  <2> QED
    BY <1>1, <2>1, <2>2, SameJob DEF BatchesInOrder
<1>12. PassIsTrue'
  <2>1. \A v \in pass.dead : worker[v] = "dead" /\ v \in Workers
    BY DEF ReadinessInv, PassIsTrue, ReadinessTyped
  <2> QED
    BY <1>6, <1>8, <2>1 DEF ReadinessInv, PassIsTrue
<1> QED
  BY <1>1, <1>9, <1>10, <1>11, <1>12, LeftAlone DEF ReadinessInv

LEMMA WorkerHealthyKeeps ==
  ASSUME ReadinessInv, NEW n \in Nodes, WorkerHealthy(n)
  PROVE  ReadinessInv'
<1> DEFINE w == Awaited(n)
<1>1. /\ job' = job /\ job \in Jobs /\ worker[w] = "serving"
      /\ thread' = [thread EXCEPT ![n].healthy = @ \cup {w}]
      /\ UNCHANGED <<at, worker, served, managed, stop_event, gate, front, listed, pass, deaths>>
      /\ Cardinality(thread[n].started) = Batch(n)
  BY DEF WorkerHealthy, WaitsForBatch, ReadinessInv, ReadinessTyped
<1>2. w \in thread[n].started /\ w \notin thread[n].healthy /\ w \in Workers
  <2>1. thread[n].started \ thread[n].healthy # {}
    <3>1. thread[n].started # thread[n].healthy /\ thread[n].healthy \subseteq thread[n].started
      BY <1>1, ThreadFacts
    <3> QED
      BY <3>1
  <2>2. thread[n].started \ thread[n].healthy \in SUBSET Workers
    BY ThreadFacts
  <2> QED
    BY <1>1, <2>1, <2>2, FirstOf DEF Awaited
<1> HIDE DEF w
<1>3. /\ thread' \in [Nodes -> [started: SUBSET Workers, healthy: SUBSET Workers, failed: BOOLEAN]]
      /\ thread'[n].healthy = thread[n].healthy \cup {w} /\ thread'[n].started = thread[n].started
      /\ \A l \in Nodes \ {n} : thread'[l] = thread[l]
  <2> DEFINE T == [started: SUBSET Workers, healthy: SUBSET Workers, failed: BOOLEAN]
             r == [thread[n] EXCEPT !.healthy = @ \cup {w}]
  <2>1. thread' = [thread EXCEPT ![n] = r]
    BY <1>1
  <2>2. thread[n] \in T /\ thread \in [Nodes -> T]
    BY DEF ReadinessInv, ReadinessTyped
  <2>3. r \in T /\ r.healthy = thread[n].healthy \cup {w} /\ r.started = thread[n].started
    BY <1>2, <2>2
  <2> HIDE DEF T, r
  <2>4. thread' \in [Nodes -> T] /\ thread'[n] = r /\ \A l \in Nodes \ {n} : thread'[l] = thread[l]
    BY <2>1, <2>2, <2>3
  <2> QED
    BY <2>3, <2>4 DEF T
<1>4. \A l \in Nodes : thread'[l].started = thread[l].started
  BY <1>3
<1>5. ReadinessTyped'
  <2>1. \A l \in Nodes : thread'[l].healthy \subseteq thread'[l].started /\ thread'[l].started \subseteq StartedOn(l)
    <3> SUFFICES ASSUME NEW l \in Nodes
                 PROVE  thread'[l].healthy \subseteq thread'[l].started /\ thread'[l].started \subseteq StartedOn(l)
      OBVIOUS
    <3>1. thread[l].healthy \subseteq thread[l].started /\ thread[l].started \subseteq StartedOn(l)
      BY ThreadFacts
    <3> QED
      BY <1>2, <1>3, <3>1
  <2>2. worker \in [Workers -> {"off", "loading", "serving", "dead"}]
    BY DEF ReadinessInv, ReadinessTyped
  <2> QED
    BY <1>1, <1>3, <2>1, <2>2, TypedAgain
<1>6. BatchesInOrder'
  <2>1. ASSUME NEW l \in Nodes
        PROVE  /\ Cardinality(thread'[l].started) <= Batch(l)'
               /\ \A v \in thread'[l].healthy : worker'[v] \in {"serving", "dead"}
    <3>1. /\ Cardinality(thread[l].started) <= Batch(l)
          /\ \A v \in thread[l].healthy : worker[v] \in {"serving", "dead"}
      BY DEF ReadinessInv, BatchesInOrder
    <3>2. CASE l # n
      <4>1. Batch(l)' = Batch(l) /\ thread'[l] = thread[l]
        BY <1>1, <1>3, <3>2 DEF Batch
      <4> QED
        BY <1>1, <3>1, <4>1
    <3>3. CASE l = n
      <4> DEFINE h == Cardinality(thread[n].healthy)
                 c == Concurrency(job)
      <4>1. IsFiniteSet(thread[n].healthy) /\ h \in Nat /\ c \in Nat \ {0}
        BY <1>1, ThreadFacts, SizeOfBatch
      <4>2. Cardinality(thread[n].healthy \cup {w}) = h + 1
        BY <1>2, <4>1, FS_AddElement
      <4>3. Batch(n) = c * ((h \div c) + 1)
        BY DEF Batch
      <4>4. Batch(n)' = c * (((h + 1) \div c) + 1)
        BY <1>1, <1>3, <4>2 DEF Batch, Concurrency
      <4>5. c * ((h \div c) + 1) <= c * (((h + 1) \div c) + 1)
        BY <4>1, BatchArithmetic
      <4>6. Cardinality(thread'[n].started) <= Batch(n)'
        <5>1. c * ((h \div c) + 1) \in Nat /\ c * (((h + 1) \div c) + 1) \in Nat
          <6>1. h + 1 \in Nat
            BY <4>1
          <6> QED
            BY <4>1, <6>1, BatchArithmetic
        <5>2. thread'[n].started = thread[n].started /\ Cardinality(thread[n].started) = c * ((h \div c) + 1)
          BY <1>1, <1>4, <4>3
        <5> HIDE DEF h, c
        <5> QED
          BY <4>4, <4>5, <5>1, <5>2
      <4> QED
        BY <1>1, <1>3, <3>1, <3>3, <4>6
    <3> QED
      BY <3>2, <3>3
  <2> QED
    BY <1>1, <1>4, <2>1, SameJob DEF ReadinessInv, BatchesInOrder
<1> QED
  BY <1>1, <1>5, <1>6, LeftAlone DEF ReadinessInv

LEMMA WorkerNotHealthyKeeps ==
  ASSUME ReadinessInv, NEW n \in Nodes, WorkerNotHealthy(n)
  PROVE  ReadinessInv'
<1>1. /\ job' = job /\ thread' = [thread EXCEPT ![n].failed = TRUE]
      /\ UNCHANGED <<at, worker, served, managed, stop_event, gate, front, listed, pass, deaths>>
  BY DEF WorkerNotHealthy
<1>2. /\ thread' \in [Nodes -> [started: SUBSET Workers, healthy: SUBSET Workers, failed: BOOLEAN]]
      /\ \A l \in Nodes : thread'[l].healthy = thread[l].healthy /\ thread'[l].started = thread[l].started
  <2> DEFINE T == [started: SUBSET Workers, healthy: SUBSET Workers, failed: BOOLEAN]
             r == [thread[n] EXCEPT !.failed = TRUE]
  <2>1. thread' = [thread EXCEPT ![n] = r]
    BY <1>1
  <2>2. thread[n] \in T /\ thread \in [Nodes -> T]
    BY DEF ReadinessInv, ReadinessTyped
  <2>3. r \in T /\ r.healthy = thread[n].healthy /\ r.started = thread[n].started
    BY <2>2
  <2> HIDE DEF T, r
  <2>4. thread' \in [Nodes -> T] /\ thread'[n] = r /\ \A l \in Nodes \ {n} : thread'[l] = thread[l]
    BY <2>1, <2>2, <2>3
  <2> QED
    BY <2>3, <2>4 DEF T
<1>3. ReadinessTyped'
  <2>1. \A l \in Nodes : thread[l].healthy \subseteq thread[l].started /\ thread[l].started \subseteq StartedOn(l)
    BY ThreadFacts
  <2>2. worker \in [Workers -> {"off", "loading", "serving", "dead"}]
    BY DEF ReadinessInv, ReadinessTyped
  <2> QED
    BY <1>1, <1>2, <2>1, <2>2, TypedAgain
<1>4. BatchesInOrder'
  <2>1. \A l \in Nodes : Batch(l)' = Batch(l)
    BY <1>1, <1>2 DEF Batch
  <2> QED
    BY <1>1, <1>2, <2>1, SameJob DEF ReadinessInv, BatchesInOrder
<1> QED
  BY <1>1, <1>3, <1>4, LeftAlone DEF ReadinessInv

LEMMA AllStartedKeeps ==
  ASSUME ReadinessInv, AllStarted
  PROVE  ReadinessInv'
<1>1. /\ job' = job /\ at' \in {"failed", "frontend"} /\ managed' \subseteq Workers
      /\ UNCHANGED <<thread, worker, served, stop_event, gate, front, listed, pass, deaths>>
  BY DEF AllStarted, Kept, ReadinessInv, ReadinessTyped
<1>2. ReadinessTyped'
  BY <1>1, SameJob DEF ReadinessInv, ReadinessTyped
<1>3. WaitsFollow'
  BY <1>1 DEF WaitsFollow
<1> QED
  BY <1>1, <1>2, <1>3, LeftAlone DEF ReadinessInv
-----------------------------------------------------------------------------
(* The frontend                                                            *)

LEMMA GateOpensKeeps ==
  ASSUME ReadinessInv, GateOpens
  PROVE  ReadinessInv'
<1>1. /\ job' = job /\ job \in Jobs /\ at = "frontend" /\ gate # Gated /\ gate' = gate \cup {NextGated}
      /\ worker[NextGated] = "serving"
      /\ UNCHANGED <<at, thread, worker, served, managed, stop_event, front, listed, pass, deaths>>
  BY DEF GateOpens, ReadinessInv, ReadinessTyped
<1>2. NextGated \in Gated /\ Gated \subseteq Workers
  <2> DEFINE left == Gated \ gate
             prefill == {w \in left : Proc(w).mode = "prefill"}
  <2>1. gate \subseteq Gated /\ Gated \subseteq Workers
    BY DEF ReadinessInv, ReadinessTyped, Gated
  <2>2. left # {} /\ left \in SUBSET Workers /\ prefill \in SUBSET Workers
    BY <1>1, <2>1
  <2>3. prefill # {} => First(prefill) \in prefill
    BY <1>1, <2>2, FirstOf
  <2>4. First(left) \in left
    BY <1>1, <2>2, FirstOf
  <2> QED
    BY <2>1, <2>3, <2>4 DEF NextGated
<1>3. NextGated \in served
  BY <1>1, <1>2 DEF ReadinessInv, ServedIsKept
<1>4. ReadinessTyped'
  BY <1>1, <1>2, SameJob DEF ReadinessInv, ReadinessTyped
<1>5. ServedIsKept'
  BY <1>1, <1>3, SameJob DEF ReadinessInv, ServedIsKept
<1>6. WaitsFollow'
  BY <1>1 DEF WaitsFollow
<1> QED
  BY <1>1, <1>4, <1>5, <1>6, LeftAlone DEF ReadinessInv

\* A step that only moves the orchestrator on.
LEMMA MovesOn ==
  ASSUME ReadinessInv, job' = job, WaitsFollow', ReadyMeansServed',
         at' \in {"workers", "frontend", "model", "model_get", "models_get", "backend", "backend_get",
                  "ready", "failed"},
         UNCHANGED <<thread, worker, served, managed, stop_event, gate, front, listed, pass, deaths>>
  PROVE  ReadinessInv'
<1>1. ReadinessTyped'
  BY TypedAgain
<1> QED
  BY <1>1, LeftAlone DEF ReadinessInv

LEMMA GateFailsKeeps ==
  ASSUME ReadinessInv, GateFails
  PROVE  ReadinessInv'
<1>1. /\ job' = job /\ at' = "failed"
      /\ UNCHANGED <<thread, worker, served, managed, stop_event, gate, front, listed, pass, deaths>>
  BY DEF GateFails
<1>2. WaitsFollow'
  BY <1>1 DEF WaitsFollow
<1>3. ReadyMeansServed'
  BY <1>1 DEF ReadyMeansServed
<1> QED
  BY <1>1, <1>2, <1>3, MovesOn

\* Whatever it starts, the frontend stage leaves for a wait whose workers have served if they must.
LEMMA LeaveKeeps ==
  ASSUME ReadinessInv, NEW to \in {"model", "failed"}, NEW fronts, Leave(to, fronts),
         to = "model" => gate = Gated
  PROVE  ReadinessInv'
<1>1. /\ job' = job /\ at' = to
      /\ front' = [f \in DOMAIN front |-> IF f \in Nginx \cup fronts THEN "loading" ELSE front[f]]
      /\ UNCHANGED <<thread, worker, served, managed, stop_event, gate, listed, pass, deaths>>
  BY DEF Leave
<1>2. front' \in [Nginx \cup Fronts -> {"off", "loading", "up"}]
  <2>1. front \in [Nginx \cup Fronts -> {"off", "loading", "up"}]
    BY DEF ReadinessInv, ReadinessTyped
  <2> QED
    BY <1>1, <2>1
<1>3. ReadinessTyped'
  BY <1>1, <1>2, SameJob DEF ReadinessInv, ReadinessTyped
<1>4. WaitsFollow'
  BY <1>1, SameJob DEF WaitsFollow
<1> QED
  BY <1>1, <1>3, <1>4, LeftAlone DEF ReadinessInv

LEMMA StartFrontendsKeeps ==
  ASSUME ReadinessInv, StartFrontends
  PROVE  ReadinessInv'
<1>1. gate \subseteq Gated
  BY DEF ReadinessInv, ReadinessTyped
<1>2. CASE StartDynamo
  <2>1. gate = Gated
    BY <1>1, <1>2 DEF StartDynamo, Gated
  <2> QED
    BY <1>2, <2>1, LeaveKeeps DEF StartDynamo, Launch
<1>3. CASE StartStaticRouter
  <2>1. gate = Gated
    BY <1>1, <1>3 DEF StartStaticRouter, Gated
  <2> QED
    BY <1>3, <2>1, LeaveKeeps DEF StartStaticRouter, Launch, Refuse
<1>4. CASE StartOrchestrator
  BY <1>4, LeaveKeeps DEF StartOrchestrator, Launch, Refuse
<1>5. CASE StartDirect
  <2>1. gate = Gated
    BY <1>1, <1>5 DEF StartDirect, Gated
  <2> QED
    BY <1>5, <2>1, LeaveKeeps DEF StartDirect
<1> QED
  BY <1>2, <1>3, <1>4, <1>5 DEF StartFrontends

-----------------------------------------------------------------------------
(* The waits                                                               *)

\* A server that owns the public port is the only worker a request is sent to.
LEMMA DirectHasOne ==
  ASSUME job \in Jobs, IsDirect(job)
  PROVE  Routable \subseteq {First(Workers)} /\ job.frontend # "vllm-router"
<1>1. /\ Len(job.endpoints) = 1 /\ DOMAIN job.endpoints = 1..1
      /\ job.frontend \in {"vllm", "trtllm_serve"}
      /\ job.frontend = "vllm" => job.backend = "vllm"
      /\ job.frontend = "trtllm_serve" => job.backend = "trtllm"
  BY JobFacts DEF Valid, IsDirect
<1>2. Layout(job, Mode(1)) \in {"mpi", "standard"}
  BY <1>1 DEF Layout
<1>3. ASSUME NEW w \in Routable PROVE w = <<1, 1>>
  <2>1. w \in Workers
    BY DEF Routable
  <2>2. PICK n \in DOMAIN job.endpoints : \E k \in 1..Width(n) : w = <<n, k>>
    BY <2>1, WorkersAre
  <2>3. PICK k \in 1..Width(n) : w = <<n, k>>
    BY <2>2
  <2>4. n = 1
    BY <1>1
  <2>5. k = 1
    BY <1>1, <1>2, <2>3, <2>4, RoutedProcess
  <2> QED
    BY <2>3, <2>4, <2>5
<1> QED
  BY <1>1, <1>3, FirstWorker

LEMMA DirectServed ==
  ASSUME ReadinessInv, IsDirect(job), worker[First(Workers)] = "serving"
  PROVE  Routable \subseteq served /\ job.frontend # "vllm-router"
<1>1. job \in Jobs
  BY DEF ReadinessInv, ReadinessTyped
<1>2. First(Workers) \in Workers
  BY <1>1, FirstWorker, WorkersAre
<1>3. First(Workers) \in served
  BY <1>2 DEF ReadinessInv, ServedIsKept
<1> QED
  BY <1>1, <1>3, DirectHasOne

\* A frontend that counts as many workers as the wait expects counts them all.
LEMMA EnoughIsAll ==
  ASSUME ReadinessInv, job.frontend \in {"dynamo", "sglang"}, NEW f \in Fronts, EnoughWorkers(f)
  PROVE  Routable \subseteq served
<1>1. job \in Jobs /\ listed[f] \subseteq Routable /\ listed[f] \subseteq served
  BY DEF ReadinessInv, ReadinessTyped, ServedIsKept
<1>2. ASSUME NEW s \in {"prefill", "decode"} PROVE Routable \cap OfSide(s) \subseteq listed[f]
  <2> DEFINE all == Routable \cap OfSide(s)
             mine == listed[f] \cap OfSide(s)
  <2>1. IsFiniteSet(all)
    <3>1. all \in SUBSET Workers
      BY DEF OfSide
    <3> QED
      BY <1>1, <3>1, WorkersAre, FS_Subset
  <2>2. mine \in SUBSET all
    BY <1>1
  <2>3. Cardinality(mine) \in Nat /\ Cardinality(all) \in Nat /\ IsFiniteSet(mine)
    BY <2>1, <2>2, FS_Subset, FS_CardinalityType
  <2>4. Cardinality(mine) >= Expected(s)
    BY DEF EnoughWorkers, Counted
  <2>5. Expected(s) \in Nat /\ Cardinality(all) <= Expected(s)
    BY <1>1, EnoughExpected
  <2>6. Cardinality(all) <= Cardinality(mine)
    <3> HIDE DEF all, mine
    <3> QED
      BY <2>3, <2>4, <2>5
  <2>7. mine = all
    <3>1. Cardinality(mine) <= Cardinality(all)
      BY <2>1, <2>2, FS_Subset
    <3>2. Cardinality(mine) = Cardinality(all)
      <4> HIDE DEF all, mine
      <4> QED
        BY <2>3, <2>6, <3>1
    <3> QED
      BY <2>1, <2>2, <3>2, FS_Subset
  <2> QED
    BY <2>7
<1>3. \A w \in Routable : w \in OfSide("prefill") \/ w \in OfSide("decode")
  BY DEF Routable, OfSide, Side
<1> QED
  BY <1>1, <1>2, <1>3

LEMMA ModelAnswersKeeps ==
  ASSUME ReadinessInv, ModelAnswers
  PROVE  ReadinessInv'
<1> USE DEF ModelAnswers
<1>1. /\ job' = job /\ job \in Jobs /\ at = "model_get" /\ gate = Gated
      /\ at' \in {"model", "models_get", "backend", "ready"}
      /\ UNCHANGED <<thread, worker, served, managed, stop_event, gate, front, listed, pass, deaths>>
  BY DEF LeaveWait, AfterModel, ReadinessInv, ReadinessTyped, WaitsFollow
<1>2. at' = "models_get" => IsDirect(job)
  BY DEF LeaveWait, AfterModel
<1>3. at' \in {"backend", "backend_get"} => job.frontend = "vllm-router"
  BY DEF LeaveWait, AfterModel
<1>4. WaitsFollow'
  BY <1>1, <1>2, <1>3, SameJob DEF WaitsFollow, IsDirect, HasMode
<1>5. at' = "ready" => Routable \subseteq served /\ job.frontend # "vllm-router"
  <2> SUFFICES ASSUME at' = "ready" PROVE Routable \subseteq served /\ job.frontend # "vllm-router"
    OBVIOUS
  <2>1. CASE IsDirect(job)
    <3>1. worker[First(Workers)] = "serving"
      BY <2>1 DEF LeaveWait
    <3> QED
      BY <2>1, <3>1, DirectServed
  <2>2. CASE ~IsDirect(job)
    <3>1. PICK f \in Fronts : Ready(f) /\ AfterModel = "ready"
      BY <2>2 DEF LeaveWait
    <3>2. job.frontend # "vllm-router"
      BY <3>1 DEF AfterModel
    <3>3. CASE job.frontend = "trtllm_serve"
      <4>1. gate = Workers /\ gate \subseteq served
        BY <1>1, <2>2, <3>3 DEF Gated, ReadinessInv, ServedIsKept
      <4> QED
        BY <3>2, <4>1 DEF Routable
    <3>4. CASE job.frontend # "trtllm_serve"
      <4>1. job.frontend \in {"dynamo", "sglang"}
        BY <2>2, <3>2, <3>4, JobFacts, <1>1 DEF Job, Frontends, IsDirect
      <4>2. EnoughWorkers(f)
        BY <3>1, <3>4 DEF Ready
      <4> QED
        BY <3>2, <4>1, <4>2, EnoughIsAll
    <3> QED
      BY <3>3, <3>4
  <2> QED
    BY <2>1, <2>2
<1>6. ReadyMeansServed'
  BY <1>1, <1>5, SameJob DEF ReadyMeansServed
<1> QED
  BY <1>1, <1>4, <1>6, MovesOn

LEMMA ModelsAnswerKeeps ==
  ASSUME ReadinessInv, ModelsAnswer
  PROVE  ReadinessInv'
<1>1. /\ job' = job /\ IsDirect(job) /\ at' \in {"ready", "model"} /\ gate = Gated
      /\ at' = "ready" => worker[First(Workers)] = "serving"
      /\ UNCHANGED <<thread, worker, served, managed, stop_event, gate, front, listed, pass, deaths>>
  BY DEF ModelsAnswer, LeaveWait, ReadinessInv, ReadinessTyped, WaitsFollow, Gated
<1>2. WaitsFollow'
  BY <1>1, SameJob DEF WaitsFollow
<1>3. ReadyMeansServed'
  BY <1>1, DirectServed, SameJob DEF ReadyMeansServed
<1> QED
  BY <1>1, <1>2, <1>3, MovesOn

\* The steps of the waits that make no benchmark begin.
LEMMA WaitsKeep ==
  ASSUME ReadinessInv, StopSeen \/ GiveUp \/ AskModel
  PROVE  ReadinessInv'
<1>1. /\ job' = job /\ at' \in {"failed", "model_get"} /\ (at' = "model_get" => at = "model")
      /\ UNCHANGED <<thread, worker, served, managed, stop_event, gate, front, listed, pass, deaths>>
  BY DEF StopSeen, GiveUp, AskModel, LeaveWait
<1>2. WaitsFollow'
  BY <1>1, SameJob DEF WaitsFollow, ReadinessInv
<1>3. ReadyMeansServed'
  BY <1>1 DEF ReadyMeansServed
<1> QED
  BY <1>1, <1>2, <1>3, MovesOn

LEMMA EndPassKeeps ==
  ASSUME ReadinessInv, EndPass
  PROVE  ReadinessInv'
<1>1. /\ job' = job /\ job.frontend = "vllm-router" /\ at' \in {"backend", "ready"}
      /\ pass.asked = Routable /\ (at' = "ready" => ~pass.pending)
      /\ UNCHANGED <<thread, worker, served, managed, stop_event, gate, front, listed, pass, deaths>>
  BY DEF EndPass, LeaveWait, ReadinessInv, WaitsFollow
<1>2. WaitsFollow'
  BY <1>1 DEF WaitsFollow
<1>3. ReadyMeansServed'
  BY <1>1, SameJob DEF ReadyMeansServed, ReadinessInv, PassIsTrue
<1> QED
  BY <1>1, <1>2, <1>3, MovesOn

LEMMA BeginPassKeeps ==
  ASSUME ReadinessInv, BeginPass
  PROVE  ReadinessInv'
<1> DEFINE dead == {w \in Workers : worker[w] = "dead"}
<1>1. /\ job' = job /\ at = "backend" /\ at' = "backend_get"
      /\ pass' = [asked |-> {}, pending |-> FALSE, dead |-> dead]
      /\ UNCHANGED <<thread, worker, served, managed, stop_event, gate, front, listed, deaths>>
  BY DEF BeginPass
<1>2. pass'.asked = {} /\ pass'.dead = dead
  BY <1>1
<1>3. pass' \in [asked: SUBSET Routable, pending: BOOLEAN, dead: SUBSET Workers]
  BY <1>1
<1> HIDE DEF dead
<1>4. ReadinessTyped'
  BY <1>1, <1>3, SameJob DEF ReadinessInv, ReadinessTyped
<1>5. WaitsFollow'
  BY <1>1 DEF ReadinessInv, WaitsFollow
<1>6. PassIsTrue'
  BY <1>1, <1>2 DEF PassIsTrue, dead
<1>7. ReadyMeansServed'
  BY <1>1 DEF ReadyMeansServed
<1> QED
  BY <1>1, <1>4, <1>5, <1>6, <1>7, LeftAlone DEF ReadinessInv

LEMMA UrlAnswersKeeps ==
  ASSUME ReadinessInv, UrlAnswers
  PROVE  ReadinessInv'
<1> DEFINE w == First(Routable \ pass.asked)
           p == pass.pending \/ worker[w] # "serving"
<1>1. /\ job' = job /\ job \in Jobs /\ at = "backend_get" /\ pass.asked # Routable
      /\ pass' = [pass EXCEPT !.asked = @ \cup {w}, !.pending = @ \/ worker[w] # "serving"]
      /\ UNCHANGED <<at, thread, worker, served, managed, stop_event, gate, front, listed, deaths>>
      /\ pass \in [asked: SUBSET Routable, pending: BOOLEAN, dead: SUBSET Workers]
  BY DEF UrlAnswers, ReadinessInv, ReadinessTyped
<1>2. w \in Routable /\ w \in Workers
  <2>1. Routable \ pass.asked # {} /\ Routable \ pass.asked \in SUBSET Workers
    BY <1>1 DEF Routable
  <2> QED
    BY <1>1, <2>1, FirstOf
<1> HIDE DEF w
<1>3. pass' = [asked |-> pass.asked \cup {w}, pending |-> p, dead |-> pass.dead]
  BY <1>1
<1>4. p \in BOOLEAN
  BY <1>1
<1>5. p \/ (~pass.pending /\ worker[w] = "serving")
  OBVIOUS
<1> HIDE DEF p
<1>6. pass'.asked = pass.asked \cup {w} /\ pass'.dead = pass.dead
  BY <1>3
<1>7. pass'.pending = p
  BY <1>3, Zenon
<1>8. pass' \in [asked: SUBSET Routable, pending: BOOLEAN, dead: SUBSET Workers]
  BY <1>1, <1>2, <1>3, <1>4
<1>9. ReadinessTyped'
  BY <1>1, <1>8, SameJob DEF ReadinessInv, ReadinessTyped
<1>10. PassIsTrue'
  <2>1. \A v \in pass.dead : worker[v] = "dead"
    BY DEF ReadinessInv, PassIsTrue
  <2>2. ~pass.pending => pass.asked \subseteq served /\ pass.asked \cap pass.dead = {}
    BY DEF ReadinessInv, PassIsTrue
  <2>3. worker[w] = "serving" => w \in served /\ w \notin pass.dead
    BY <1>2, <2>1 DEF ReadinessInv, ServedIsKept
  <2>4. ~p => pass'.asked \subseteq served /\ pass'.asked \cap pass'.dead = {}
    BY <1>5, <1>6, <2>2, <2>3
  <2> QED
    BY <1>1, <1>6, <1>7, <2>1, <2>4 DEF PassIsTrue
<1>11. ReadyMeansServed'
  BY <1>1 DEF ReadyMeansServed
<1> QED
  BY <1>1, <1>9, <1>10, <1>11, LeftAlone DEF ReadinessInv
-----------------------------------------------------------------------------
(* The workers, the frontends and the monitor                              *)

LEMMA ServesKeeps ==
  ASSUME ReadinessInv, NEW w \in Workers, Serves(w)
  PROVE  ReadinessInv'
<1>1. /\ job' = job /\ worker[w] = "loading" /\ worker' = [worker EXCEPT ![w] = "serving"]
      /\ served' = served \cup {w} /\ worker \in [Workers -> {"off", "loading", "serving", "dead"}]
      /\ UNCHANGED <<at, thread, managed, stop_event, gate, front, listed, pass, deaths>>
  BY DEF Serves, ReadinessInv, ReadinessTyped
<1>2. /\ worker' \in [Workers -> {"off", "loading", "serving", "dead"}]
      /\ worker'[w] = "serving" /\ \A v \in Workers \ {w} : worker'[v] = worker[v]
  BY <1>1
<1>3. ReadinessTyped'
  BY <1>1, <1>2, SameJob DEF ReadinessInv, ReadinessTyped
<1>4. ServedIsKept'
  <2>1. \A v \in Workers : worker'[v] = "serving" => v \in served'
    BY <1>1, <1>2 DEF ReadinessInv, ServedIsKept
  <2> QED
    BY <1>1, <2>1, SameJob DEF ReadinessInv, ServedIsKept
<1>5. BatchesInOrder'
  <2>1. ASSUME NEW n \in Nodes
        PROVE  /\ Cardinality(thread[n].started) <= Batch(n)' /\ Batch(n)' = Batch(n)
               /\ \A v \in thread[n].healthy : worker'[v] \in {"serving", "dead"}
    <3>1. Batch(n)' = Batch(n)
      BY <1>1 DEF Batch
    <3>2. \A v \in thread[n].healthy : v \in Workers
      BY ThreadFacts
    <3> QED
      BY <1>2, <3>1, <3>2 DEF ReadinessInv, BatchesInOrder
  <2>2. \A v \in Workers : worker'[v] # "off" => worker[v] # "off"
    BY <1>1, <1>2
  <2> QED
    BY <1>1, <2>1, <2>2, SameJob DEF ReadinessInv, BatchesInOrder
<1>6. PassIsTrue'
  <2>1. \A v \in pass.dead : worker[v] = "dead" /\ v \in Workers
    BY DEF ReadinessInv, PassIsTrue, ReadinessTyped
  <2> QED
    BY <1>1, <1>2, <2>1 DEF ReadinessInv, PassIsTrue
<1>7. ReadyMeansServed'
  BY <1>1, SameJob DEF ReadinessInv, ReadyMeansServed
<1> QED
  BY <1>1, <1>3, <1>4, <1>5, <1>6, <1>7, LeftAlone DEF ReadinessInv

LEMMA DiesKeeps ==
  ASSUME ReadinessInv, NEW w \in Workers, Dies(w)
  PROVE  ReadinessInv'
<1>1. /\ job' = job /\ worker[w] \in {"loading", "serving"} /\ worker' = [worker EXCEPT ![w] = "dead"]
      /\ deaths < MaxDeaths /\ deaths' = deaths + 1
      /\ worker \in [Workers -> {"off", "loading", "serving", "dead"}] /\ deaths \in 0..MaxDeaths
      /\ UNCHANGED <<at, thread, served, managed, stop_event, gate, front, listed, pass>>
  BY DEF Dies, ReadinessInv, ReadinessTyped
<1>2. /\ worker' \in [Workers -> {"off", "loading", "serving", "dead"}]
      /\ worker'[w] = "dead" /\ \A v \in Workers \ {w} : worker'[v] = worker[v]
  BY <1>1
<1>3. ReadinessTyped'
  <2>1. deaths' \in 0..MaxDeaths
    BY <1>1, MaxDeathsAssumption
  <2> QED
    BY <1>1, <1>2, <2>1, SameJob DEF ReadinessInv, ReadinessTyped
<1>4. ServedIsKept'
  <2>1. \A v \in Workers : worker'[v] = "serving" => v \in served
    BY <1>2 DEF ReadinessInv, ServedIsKept
  <2> QED
    BY <1>1, <2>1, SameJob DEF ReadinessInv, ServedIsKept
<1>5. BatchesInOrder'
  <2>1. ASSUME NEW n \in Nodes
        PROVE  /\ Cardinality(thread[n].started) <= Batch(n)' /\ Batch(n)' = Batch(n)
               /\ \A v \in thread[n].healthy : worker'[v] \in {"serving", "dead"}
    <3>1. Batch(n)' = Batch(n)
      BY <1>1 DEF Batch
    <3>2. \A v \in thread[n].healthy : v \in Workers
      BY ThreadFacts
    <3> QED
      BY <1>2, <3>1, <3>2 DEF ReadinessInv, BatchesInOrder
  <2>2. \A v \in Workers : worker'[v] # "off" => worker[v] # "off"
    BY <1>1, <1>2
  <2> QED
    BY <1>1, <2>1, <2>2, SameJob DEF ReadinessInv, BatchesInOrder
<1>6. PassIsTrue'
  <2>1. \A v \in pass.dead : worker[v] = "dead" /\ v \in Workers
    BY DEF ReadinessInv, PassIsTrue, ReadinessTyped
  <2> QED
    BY <1>1, <1>2, <2>1 DEF ReadinessInv, PassIsTrue
<1> QED
  BY <1>1, <1>3, <1>4, <1>5, <1>6, LeftAlone DEF ReadinessInv

LEMMA FrontendUpKeeps ==
  ASSUME ReadinessInv, NEW f \in DOMAIN front, FrontendUp(f)
  PROVE  ReadinessInv'
<1>1. /\ job' = job /\ front' = [front EXCEPT ![f] = "up"]
      /\ UNCHANGED <<at, thread, worker, served, managed, stop_event, gate, listed, pass, deaths>>
  BY DEF FrontendUp
<1>2. front' \in [Nginx \cup Fronts -> {"off", "loading", "up"}]
  BY <1>1 DEF ReadinessInv, ReadinessTyped
<1>3. ReadinessTyped'
  BY <1>1, <1>2, SameJob DEF ReadinessInv, ReadinessTyped
<1> QED
  BY <1>1, <1>3, LeftAlone DEF ReadinessInv

LEMMA ListsKeeps ==
  ASSUME ReadinessInv, NEW f \in Fronts, NEW w \in Workers, Lists(f, w) \/ Forgets(f, w)
  PROVE  ReadinessInv'
<1>1. /\ job' = job /\ listed \in [Fronts -> SUBSET Routable]
      /\ UNCHANGED <<at, thread, worker, served, managed, stop_event, gate, front, pass, deaths>>
  BY DEF Lists, Forgets, ReadinessInv, ReadinessTyped
<1>2. CASE Lists(f, w)
  <2>1. w \in Routable /\ listed' = [listed EXCEPT ![f] = @ \cup {w}] /\ Discoverable(w)
    BY <1>2 DEF Lists
  <2>2. job.frontend # "vllm-router" => w \in served
    BY <2>1 DEF Discoverable, ReadinessInv, ServedIsKept
  <2>3. listed' \in [Fronts -> SUBSET Routable]
    BY <1>1, <2>1
  <2>4. \A g \in Fronts : listed'[g] \subseteq listed[g] \cup {w}
    BY <1>1, <2>1
  <2>5. ReadinessTyped'
    BY <1>1, <2>3, SameJob DEF ReadinessInv, ReadinessTyped
  <2>6. ServedIsKept'
    BY <1>1, <2>2, <2>4, SameJob DEF ReadinessInv, ServedIsKept
  <2> QED
    BY <1>1, <2>5, <2>6, LeftAlone DEF ReadinessInv
<1>3. CASE Forgets(f, w)
  <2>1. listed' = [listed EXCEPT ![f] = @ \ {w}]
    BY <1>3 DEF Forgets
  <2>2. listed' \in [Fronts -> SUBSET Routable]
    BY <1>1, <2>1
  <2>3. \A g \in Fronts : listed'[g] \subseteq listed[g]
    BY <1>1, <2>1
  <2>4. ReadinessTyped'
    BY <1>1, <2>2, SameJob DEF ReadinessInv, ReadinessTyped
  <2>5. ServedIsKept'
    BY <1>1, <2>3, SameJob DEF ReadinessInv, ServedIsKept
  <2> QED
    BY <1>1, <2>4, <2>5, LeftAlone DEF ReadinessInv
<1> QED
  BY <1>2, <1>3

LEMMA MonitorSeesKeeps ==
  ASSUME ReadinessInv, MonitorSees
  PROVE  ReadinessInv'
<1>1. /\ job' = job /\ stop_event' = TRUE
      /\ UNCHANGED <<at, thread, worker, served, managed, gate, front, listed, pass, deaths>>
  BY DEF MonitorSees
<1>2. ReadinessTyped'
  BY <1>1, SameJob DEF ReadinessInv, ReadinessTyped
<1> QED
  BY <1>1, <1>2, LeftAlone DEF ReadinessInv

LEMMA NothingKeeps ==
  ASSUME ReadinessInv, UNCHANGED readinessVars
  PROVE  ReadinessInv'
<1>1. /\ job' = job
      /\ UNCHANGED <<at, thread, worker, served, managed, stop_event, gate, front, listed, pass, deaths>>
  BY DEF readinessVars
<1>2. ReadinessTyped'
  BY <1>1, SameJob DEF ReadinessInv, ReadinessTyped
<1> QED
  BY <1>1, <1>2, LeftAlone DEF ReadinessInv

-----------------------------------------------------------------------------
LEMMA ReadinessKept ==
  ASSUME ReadinessInv, [ReadinessNext]_readinessVars
  PROVE  ReadinessInv'
<1>1. CASE Orchestrator
  <2>1. CASE \E n \in Nodes : StartWorker(n) \/ WorkerHealthy(n)
    BY <2>1, StartWorkerKeeps, WorkerHealthyKeeps
  <2>2. CASE AllStarted \/ GateOpens \/ StartFrontends
    BY <2>2, AllStartedKeeps, GateOpensKeeps, StartFrontendsKeeps
  <2>3. CASE StopSeen \/ AskModel
    BY <2>3, WaitsKeep
  <2>4. CASE ModelAnswers \/ ModelsAnswer
    BY <2>4, ModelAnswersKeeps, ModelsAnswerKeeps
  <2>5. CASE BeginPass \/ UrlAnswers \/ EndPass
    BY <2>5, BeginPassKeeps, UrlAnswersKeeps, EndPassKeeps
  <2> QED
    BY <1>1, <2>1, <2>2, <2>3, <2>4, <2>5 DEF Orchestrator
<1>2. CASE TimesOut
  BY <1>2, WorkerNotHealthyKeeps, GateFailsKeeps, WaitsKeep DEF TimesOut
<1>3. CASE MonitorSees
  BY <1>3, MonitorSeesKeeps
<1>4. CASE Over \/ UNCHANGED readinessVars
  BY <1>4, NothingKeeps DEF Over
<1>5. CASE \E w \in Workers : Serves(w) \/ Dies(w)
  BY <1>5, ServesKeeps, DiesKeeps
<1>6. CASE \E f \in DOMAIN front : FrontendUp(f)
  BY <1>6, FrontendUpKeeps
<1>7. CASE \E f \in Fronts, w \in Workers : Lists(f, w) \/ Forgets(f, w)
  BY <1>7, ListsKeeps
<1> QED
  BY <1>1, <1>2, <1>3, <1>4, <1>5, <1>6, <1>7 DEF ReadinessNext

\* The readiness invariant (ReadinessInv): the invariant of the way from the launch to the
\* benchmark, for every job and any number of deaths (worker_stage.py, frontends/, health.py).
THEOREM ReadinessInvariant == ReadinessSpec => []ReadinessInv
<1>1. ReadinessInit => ReadinessInv
  BY InitEstablishes
<1>2. ReadinessInv /\ [ReadinessNext]_readinessVars => ReadinessInv'
  BY ReadinessKept
<1> QED
  BY <1>1, <1>2, PTL DEF ReadinessSpec

\* ReadinessSound: whatever the job, the benchmark begins only when every worker that a
\* request can be routed to has served (health.py wait_for_model, wait_for_http_endpoints).
THEOREM ReadinessIsSound == ReadinessSpec => []ReadinessSound
<1>1. ReadinessInv => ReadinessSound
  BY DEF ReadinessInv, ReadinessSound
<1> QED
  BY <1>1, ReadinessInvariant, PTL

\* What a thread has started and not yet found healthy is less than a batch.
LEMMA NoMoreThanABatch ==
  ASSUME ReadinessInv
  PROVE  OneBatchLoads
<1> SUFFICES ASSUME Sequential(job), NEW n \in Nodes
             PROVE  Cardinality({w \in Workers : Proc(w).node = n /\ worker[w] = "loading"})
                      <= job.sequential_node_start
  BY DEF OneBatchLoads
<1> DEFINE loading == {w \in Workers : Proc(w).node = n /\ worker[w] = "loading"}
           waiting == thread[n].started \ thread[n].healthy
           h == Cardinality(thread[n].healthy)
           s == Cardinality(thread[n].started)
           c == Concurrency(job)
<1>1. job \in Jobs /\ c \in Nat \ {0} /\ c = job.sequential_node_start
  <2>1. job \in Jobs
    BY DEF ReadinessInv, ReadinessTyped
  <2> QED
    BY <2>1, SizeOfBatch
<1>2. /\ thread[n].healthy \subseteq thread[n].started /\ IsFiniteSet(thread[n].started)
      /\ h \in Nat /\ s \in Nat
  BY ThreadFacts
<1>3. loading \subseteq waiting
  <2> SUFFICES ASSUME NEW w \in Workers, Proc(w).node = n, worker[w] = "loading"
               PROVE  w \in waiting
    OBVIOUS
  <2>1. PICK l \in Nodes : w \in thread[l].started
    BY DEF ReadinessInv, BatchesInOrder
  <2>2. w \in StartedOn(l)
    BY <2>1, ThreadFacts
  <2>3. l = n
    BY <1>1, <2>2, StartedOnce
  <2> QED
    BY <2>1, <2>3 DEF ReadinessInv, BatchesInOrder
<1>4. IsFiniteSet(waiting) /\ Cardinality(waiting) = s - h
  <2>1. thread[n].started \cap thread[n].healthy = thread[n].healthy
    BY <1>2
  <2> QED
    BY <1>2, <2>1, FS_Difference
<1>5. s <= c * ((h \div c) + 1)
  BY DEF ReadinessInv, BatchesInOrder, Batch
<1>6. c * ((h \div c) + 1) - h <= c /\ c * ((h \div c) + 1) \in Nat
  BY <1>1, <1>2, BatchArithmetic
<1>7. Cardinality(loading) <= Cardinality(waiting) /\ Cardinality(loading) \in Nat
  <2>1. loading \in SUBSET waiting
    BY <1>3
  <2> QED
    BY <1>4, <2>1, FS_Subset, FS_CardinalityType
<1> HIDE DEF loading, waiting, h, s, c
<1>8. s - h <= c
  <2> DEFINE b == c * ((h \div c) + 1)
  <2>1. b \in Nat /\ s <= b /\ b - h <= c
    BY <1>5, <1>6
  <2> HIDE DEF b
  <2> QED
    BY <1>1, <1>2, <2>1
<1> QED
  <2>1. Cardinality(loading) <= c
    BY <1>1, <1>2, <1>4, <1>7, <1>8
  <2> QED
    BY <1>1, <2>1 DEF loading

\* OneBatchLoads: on every node, whatever the job, no more workers load at a time than the
\* recipe allows (worker_stage.py start_node_workers, sequential_node_start).
THEOREM BatchesAreKept == ReadinessSpec => []OneBatchLoads
BY ReadinessInvariant, NoMoreThanABatch, PTL
=============================================================================
