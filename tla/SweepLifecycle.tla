---------------------------- MODULE SweepLifecycle ----------------------------
(***************************************************************************)
(* SweepOrchestrator.run (srtctl/cli/do_sweep.py) with its three flows of  *)
(* control: the main thread, which launches the processes of a job stage   *)
(* by stage, runs the workload and cleans up; the ProcessMonitor thread;   *)
(* and the SIGTERM/SIGINT handler, whose frames run on top of the main     *)
(* thread at any of its steps, inside a registry call as well, and end it  *)
(* with SystemExit.                                                        *)
(*                                                                         *)
(* `pc' is the statement of run() (and of the stage methods it calls) that *)
(* the main thread executes next.                                          *)
(***************************************************************************)
EXTENDS ProcessRegistry

CONSTANT Configs        \* the job configurations considered

(***************************************************************************)
(* The launch stages whose processes are registered, and a configuration:  *)
(* the processes of each stage (none: the stage is skipped), what the job  *)
(* runs, the telemetry policy, RUN_EVAL, host_setup with a teardown, how   *)
(* the model gets there ("hub": pre-downloaded from Hugging Face;          *)
(* "staged": copied to the nodes), whether postprocess uploads to S3, and  *)
(* a bound of the model: how many signals arrive during the job.           *)
(***************************************************************************)
Stages == {"head", "mooncake", "workers", "frontend", "exporters", "tachometer"}

ConfigType ==
    [group : [Stages -> SUBSET Procs],
     mode : {"serve_only", "eval_only", "benchmark"},
     telemetry : {"off", "best_effort", "required"},
     post_eval : BOOLEAN,
     host_setup : BOOLEAN,
     model : {"plain", "hub", "staged"},
     s3 : BOOLEAN,
     signals : Nat]

ASSUME ConfigsAssumption == Configs \subseteq ConfigType
ASSUME FramesAssumption == Frames = {"main", "handler", "nested", "monitor"}

VARIABLES config,
          pc,           \* the main thread
          depth,        \* how many handler frames are on top of it
          signals,      \* how many signals have arrived
          unwinding,    \* SystemExit is propagating out of run()
          mpc,          \* the ProcessMonitor thread
          stop,         \* stop_event
          exit_code,    \* the local of run()
          process_code, \* the exit status of the orchestrator process
          status,       \* the status last PUT to the job status API
          hostRan,      \* _host_setup_ran
          nodes,        \* "clean", "modified" by host_setup, "restored": the
                        \* teardown commands were run
          power,        \* the power telemetry session
          windows,      \* finalization converted running windows
          interrupted,  \* the argument of stop_and_finalize
          bench,        \* the benchmark srun client
          reaped,       \* benchmark_child_reaped
          allows,       \* benchmark_child_allows_window_mutation
          eval          \* the lm-eval srun client

result == <<exit_code, process_code, status>>
host == <<hostRan, nodes>>
session == <<power, windows, interrupted>>
work == <<bench, reaped, allows, eval>>
signalVars == <<depth, signals, unwinding>>
vars == <<registryVars, config, pc, result, host, session, work, signalVars,
          mpc, stop>>

FinallyPcs == {"finalize", "settle", "set_stop", "teardown", "teardown_kill", "details",
               "postprocess", "report_completed"}
TryPcs == {"host_setup", "host_commands", "host_kill"} \union Stages
          \union {"model", "model_kill", "staging", "telemetry", "collector",
                  "dispatch", "health", "serve", "judge", "benchmark",
                  "bench_enter", "bench_wait", "bench_finally", "eval_ready",
                  "eval_wait"}

(* The main thread is in a proc.wait() without a timeout, which does not   *)
(* look at stop_event either: for an srun client it has just killed, or    *)
(* for the copies of _stage_model.                                         *)
UntimedPcs == {"host_kill", "model_kill", "staging", "teardown_kill"}

Init ==
    /\ RegistryInit
    /\ config \in Configs
    /\ pc = "host_setup"
    /\ depth = 0 /\ signals = 0 /\ unwinding = FALSE
    /\ mpc = "loop"
    /\ stop = FALSE
    /\ exit_code = 1 /\ process_code = 2
    /\ status = "starting"
    /\ hostRan = FALSE /\ nodes = "clean"
    /\ power = "none" /\ windows = "untouched" /\ interrupted = FALSE
    /\ bench = "none" /\ reaped = "unset" /\ allows = FALSE
    /\ eval = "none"

Alive == pc # "exited"

(* The main frame runs when no handler is on top and no call is pending.   *)
At(label) == pc = label /\ depth = 0 /\ call["main"] = "idle"

Goto(label) == pc' = label

Report(new) == status' = new

(* Leaving the try block with an exit code; the except clause of run().    *)
Return(code) == exit_code' = code /\ Goto("finalize") /\ UNCHANGED process_code
Raise == Return(1) /\ Report("failed")

-----------------------------------------------------------------------------
(* Stage 0: _host_setup_ran is set before the commands run on the nodes.   *)
RunHostSetup ==
    /\ At("host_setup")
    /\ IF config.host_setup
       THEN hostRan' = TRUE /\ nodes' = "modified" /\ Goto("host_commands")
       ELSE UNCHANGED host /\ Goto("head")
    /\ UNCHANGED <<registryVars, result, session, work>>

(* The commands failed, or they did not, or that is ignored.               *)
AfterHostCommands == Raise \/ (Goto("head") /\ UNCHANGED result)

(* A client that is over its time limit is killed, and waited for.         *)
RunHostCommands ==
    /\ At("host_commands")
    /\ AfterHostCommands \/ (Goto("host_kill") /\ UNCHANGED result)
    /\ UNCHANGED <<registryVars, host, session, work>>

HostClientReaped ==
    /\ At("host_kill")
    /\ AfterHostCommands
    /\ UNCHANGED <<registryVars, host, session, work>>

-----------------------------------------------------------------------------
(* The launch stages.                                                      *)

NextPc == [head |-> "mooncake", mooncake |-> "model", workers |-> "frontend",
           frontend |-> "telemetry", tachometer |-> "dispatch"]

Group(stage) == config.group[stage]
Launched(stage) == {p \in Group(stage) : child[p] # "unborn"}

(* start_srun_process for the next process of a stage.                     *)
LaunchIn(stage) ==
    /\ At(stage)
    /\ Group(stage) \intersect registered = {}
    /\ \E p \in Group(stage) : Popen(p)
    /\ UNCHANGED <<registered, failed, lock, call, todo, verdict, pc, result,
                   host, session, work>>

(* A launch or a readiness wait fails before anything is registered.       *)
StageRaises(stage) ==
    /\ At(stage)
    /\ Group(stage) # {} /\ Group(stage) \intersect registered = {}
    /\ Raise
    /\ UNCHANGED <<registryVars, host, session, work>>

RegisterIn(stage) ==
    /\ At(stage)
    /\ Launched(stage) = Group(stage)
    /\ \E p \in Group(stage) \ registered : RequestAdd("main", p)
    /\ UNCHANGED <<child, registered, failed, lock, verdict, pc, result, host,
                   session, work>>

StageDone(stage) ==
    /\ At(stage)
    /\ Group(stage) \subseteq registered
    /\ Goto(NextPc[stage])
    /\ IF stage = "workers" THEN Report("frontend") ELSE UNCHANGED status
    /\ UNCHANGED <<registryVars, exit_code, process_code, host, session, work>>

(* One stage of run(): every process is launched, then each is registered. *)
RunStage(stage) ==
    LaunchIn(stage) \/ StageRaises(stage) \/ RegisterIn(stage) \/ StageDone(stage)

StartHeadInfrastructure == RunStage("head")
StartMooncakeMaster == RunStage("mooncake")
StartAllWorkers == RunStage("workers")
StartFrontend == RunStage("frontend")
StartTachometer == RunStage("tachometer")

ModelReady == Goto("workers") /\ Report("workers") /\ UNCHANGED <<exit_code, process_code>>

(* The Hugging Face pre-download is best effort and killed after an hour;  *)
(* _stage_model starts a copy on every node and waits for all of them.     *)
PrepareModel ==
    /\ At("model")
    /\ \/ config.model \in {"plain", "hub"} /\ ModelReady
       \/ config.model = "hub" /\ Goto("model_kill") /\ UNCHANGED result
       \/ config.model = "staged" /\ Raise
       \/ config.model = "staged" /\ Goto("staging") /\ UNCHANGED result
    /\ UNCHANGED <<registryVars, host, session, work>>

DownloadReaped ==
    /\ At("model_kill")
    /\ ModelReady
    /\ UNCHANGED <<registryVars, host, session, work>>

(* The last copy has ended; one that failed fails the job.                 *)
ModelStaged ==
    /\ At("staging")
    /\ Raise \/ ModelReady
    /\ UNCHANGED <<registryVars, host, session, work>>

(***************************************************************************)
(* start_power_telemetry: the session is stored before anything can raise, *)
(* each exporter is owned (registered) right after its launch, and a       *)
(* launch that fails leaves the session without readiness.                 *)
(***************************************************************************)
StartPowerTelemetry ==
    /\ At("telemetry")
    /\ IF config.telemetry = "off" \/ config.mode = "eval_only"
       THEN Goto("tachometer") /\ UNCHANGED <<power, result>>
       ELSE /\ power' = "started"
            /\ Raise \/ (Goto("exporters") /\ UNCHANGED result)
    /\ UNCHANGED <<registryVars, host, windows, interrupted, work>>

StartExporter ==
    /\ At("exporters")
    /\ Launched("exporters") \subseteq registered
    /\ \E p \in Group("exporters") : Popen(p)
    /\ UNCHANGED <<registered, failed, lock, call, todo, verdict, pc, result,
                   host, session, work>>

OwnExporter ==
    /\ At("exporters")
    /\ \E p \in Launched("exporters") \ registered : RequestAdd("main", p)
    /\ UNCHANGED <<child, registered, failed, lock, verdict, pc, result, host,
                   session, work>>

ExportersLaunched ==
    /\ At("exporters")
    /\ Launched("exporters") \subseteq registered
    /\ IF Launched("exporters") = Group("exporters")
       THEN Goto("collector") ELSE Goto("tachometer")
    /\ UNCHANGED <<registryVars, result, host, session, work>>

WaitForCollector ==
    /\ At("collector")
    /\ power' \in {"started", "ready"}
    /\ Goto("tachometer")
    /\ UNCHANGED <<registryVars, result, host, windows, interrupted, work>>

StartExporters == StartExporter \/ OwnExporter \/ ExportersLaunched \/ WaitForCollector

-----------------------------------------------------------------------------
(* The workload.                                                           *)

PowerTelemetryBlocksBenchmark ==
    power = "started" /\ config.telemetry = "required"

Dispatch ==
    /\ At("dispatch")
    /\ \/ /\ config.mode = "serve_only"
          /\ Goto("health") /\ UNCHANGED result
       \/ /\ config.mode = "eval_only"
          /\ Goto("eval_ready") /\ Report("benchmark")
          /\ UNCHANGED <<exit_code, process_code>>
       \/ /\ config.mode = "benchmark"
          /\ IF PowerTelemetryBlocksBenchmark THEN Raise
             ELSE Goto("health") /\ UNCHANGED result
    /\ UNCHANGED <<registryVars, host, session, work>>

(* run_benchmark: the readiness waits give up when stop_event is set.      *)
WaitForServiceReady ==
    /\ At("health")
    /\ \/ /\ ~stop
          /\ IF config.mode = "serve_only" THEN Report("frontend") /\ Goto("serve")
             ELSE Report("benchmark") /\ Goto("benchmark")
          /\ UNCHANGED <<exit_code, process_code>>
       \/ Raise
    /\ UNCHANGED <<registryVars, host, session, work>>

(* The serving loop: while not stop_event.is_set(): check_failures ...     *)
ServeCheck ==
    /\ At("serve") /\ ~stop
    /\ Request("main", "check")
    /\ Goto("judge")
    /\ UNCHANGED <<child, registered, failed, lock, verdict, result, host,
                   session, work>>

ServeJudge ==
    /\ At("judge")
    /\ IF verdict["main"] THEN Return(1) /\ UNCHANGED status
       ELSE Goto("serve") /\ UNCHANGED result
    /\ UNCHANGED <<registryVars, host, session, work>>

ServeStopped ==
    /\ At("serve") /\ stop
    /\ Return(0)
    /\ UNCHANGED <<registryVars, status, host, session, work>>

ServeUntilStopped == ServeCheck \/ ServeJudge \/ ServeStopped

(***************************************************************************)
(* _run_benchmark_script.  The benchmark client is started one statement   *)
(* before the flags are reset and the try block that reaps it is entered.  *)
(***************************************************************************)
StartBenchmark ==
    /\ At("benchmark")
    /\ \/ bench' = "up" /\ Goto("bench_enter") /\ UNCHANGED exit_code
       \/ Return(1) /\ UNCHANGED bench       \* unknown runner, invalid config
    /\ UNCHANGED <<registryVars, process_code, status, host, session, reaped,
                   allows, eval>>

EnterBenchmarkTry ==
    /\ At("bench_enter")
    /\ reaped' = "no" /\ allows' = FALSE
    /\ Goto("bench_wait")
    /\ UNCHANGED <<registryVars, result, host, session, bench, eval>>

(* Mutant: the wait for the client does not look at stop_event.            *)
WaitForBenchmark_ignoresStop ==
    /\ At("bench_wait")
    /\ bench \in {"ok", "failed"}
    /\ reaped' = "yes" /\ allows' = TRUE
    /\ Goto("bench_finally")
    /\ UNCHANGED <<registryVars, result, host, session, bench, eval>>

WaitForBenchmark ==
    /\ At("bench_wait")
    /\ \/ /\ bench \in {"ok", "failed"}
          /\ reaped' = "yes" /\ allows' = TRUE
       \/ /\ bench = "up" /\ stop
          /\ UNCHANGED <<reaped, allows>>
    /\ Goto("bench_finally")
    /\ UNCHANGED <<registryVars, result, host, session, bench, eval>>

(* Mutant: a force-killed client counts as one that can no longer write.   *)
Reap_forgetsForceKill ==
    IF bench = "up"
    THEN \E end \in {"stopped", "killed", "wedged"} :
           /\ bench' = end
           /\ reaped' = IF end = "wedged" THEN "no" ELSE "yes"
           /\ allows' = (end # "wedged")
    ELSE reaped' = "yes" /\ UNCHANGED <<bench, allows>>

(* terminate_and_reap: ended by SIGTERM, by SIGKILL, or not at all.        *)
Reap ==
    IF bench = "up"
    THEN \E end \in {"stopped", "killed", "wedged"} :
           /\ bench' = end
           /\ reaped' = IF end = "wedged" THEN "no" ELSE "yes"
           /\ allows' = (end = "stopped")
    ELSE /\ reaped' = "yes"
         /\ allows' = IF reaped = "no" THEN TRUE ELSE allows
         /\ UNCHANGED bench

(* Mutant: `returncode or 0' for a client that was told to stop.           *)
BenchmarkReturns_noneIsZero ==
    /\ exit_code' = IF bench = "failed" THEN 1 ELSE 0
    /\ UNCHANGED status /\ Goto("finalize")

(* The script's code is its client's if the loop saw the client end, else  *)
(* 1; run() goes on to the post-benchmark evaluation after a 0.            *)
BenchmarkReturns ==
    /\ exit_code' = IF reaped = "yes" /\ bench = "ok" THEN 0 ELSE 1
    /\ IF exit_code' = 0 /\ config.post_eval
       THEN Report("benchmark") /\ Goto("eval_ready")
       ELSE UNCHANGED status /\ Goto("finalize")

(* The finally block, entered by a return or by SystemExit.                *)
ReapBenchmark ==
    /\ At("bench_finally")
    /\ Reap
    /\ IF unwinding THEN Goto("finalize") /\ UNCHANGED <<exit_code, status>>
       ELSE BenchmarkReturns
    /\ UNCHANGED <<registryVars, process_code, host, session, eval>>

RunBenchmarkScript ==
    StartBenchmark \/ EnterBenchmarkTry \/ WaitForBenchmark \/ ReapBenchmark

(* _run_post_eval: its code decides an eval-only job and no other.         *)
EvalCode(code) == IF config.mode = "eval_only" THEN code ELSE exit_code

StartEval ==
    /\ At("eval_ready")
    /\ \/ /\ eval' = "up" /\ Goto("eval_wait") /\ UNCHANGED exit_code
       \/ Return(EvalCode(1)) /\ UNCHANGED eval
    /\ UNCHANGED <<registryVars, process_code, status, host, session, bench,
                   reaped, allows>>

(* When stop_event is set the client is signalled and not waited for.      *)
WaitForEval ==
    /\ At("eval_wait")
    /\ \/ eval = "ok" /\ Return(EvalCode(0)) /\ UNCHANGED eval
       \/ eval = "failed" /\ Return(EvalCode(1)) /\ UNCHANGED eval
       \/ eval = "up" /\ stop /\ Return(EvalCode(1)) /\ eval' = "stopped"
    /\ UNCHANGED <<registryVars, status, host, session, bench, reaped, allows>>

RunPostEval == StartEval \/ WaitForEval

-----------------------------------------------------------------------------
(* The finally block of run().                                             *)

(***************************************************************************)
(* finalize_power_telemetry.  Whether the monitor or a signal has asked to *)
(* stop is read first; then the session joins its collector, looks at the  *)
(* exporters and writes its manifest.  What it decides about the samples   *)
(* and windows is abstracted to whether the artifacts can be published.    *)
(* "broken" stands for a collector that cannot be joined and for an        *)
(* exception in the finalizer, the windows converted by then or not.       *)
(***************************************************************************)
BeginFinalize ==
    /\ At("finalize")
    /\ IF power = "none" THEN Goto("set_stop") /\ UNCHANGED interrupted
       ELSE Goto("settle") /\ interrupted' = stop
    /\ UNCHANGED <<registryVars, result, host, power, windows, work>>

(* Every fatal reason, a benchmark whose windows cannot exist, and required *)
(* telemetry that was never ready, rule publication out.                   *)
Publishable ==
    /\ ~interrupted /\ reaped # "no" /\ bench # "none"
    /\ ~PowerTelemetryBlocksBenchmark
    /\ \A p \in Launched("exporters") : IsRunning(p)

FinalizePower ==
    /\ At("settle")
    /\ power' \in {"invalid", "broken"} \union
                 (IF Publishable THEN {"published"} ELSE {})
    /\ windows' \in (IF allows THEN {"converted"} ELSE {windows}) \union
                   (IF power' = "broken" THEN {windows} ELSE {})
    /\ exit_code' = IF \/ reaped = "no"
                      \/ power' = "broken"
                      \/ (config.telemetry = "required" /\ power' = "invalid")
                   THEN 1 ELSE exit_code
    /\ Goto("set_stop")
    /\ UNCHANGED <<registryVars, process_code, status, host, interrupted, work>>

(* Mutant: the finally block leaves the clean-up to the other threads.     *)
SetStop_noCleanup ==
    /\ At("set_stop")
    /\ stop' = TRUE
    /\ Goto("teardown")
    /\ UNCHANGED <<registryVars, result, host, session, work>>

SetStop ==
    /\ At("set_stop")
    /\ stop' = TRUE
    /\ Request("main", "cleanup")
    /\ Goto("teardown")
    /\ UNCHANGED <<child, registered, failed, lock, verdict, result, host,
                   session, work>>

(* The same commands' time limit holds here; nothing is raised.            *)
RunHostTeardown ==
    /\ At("teardown")
    /\ \/ nodes' = (IF hostRan THEN "restored" ELSE nodes) /\ Goto("details")
       \/ hostRan /\ UNCHANGED nodes /\ Goto("teardown_kill")
    /\ UNCHANGED <<registryVars, result, hostRan, session, work>>

TeardownClientReaped ==
    /\ At("teardown_kill")
    /\ nodes' = "restored"
    /\ Goto("details")
    /\ UNCHANGED <<registryVars, result, hostRan, session, work>>

PrintFailureDetails ==
    /\ At("details")
    /\ IF exit_code # 0 /\ failed # {} THEN Request("main", "print")
       ELSE UNCHANGED <<call, todo>>
    /\ Goto("postprocess")
    /\ UNCHANGED <<child, registered, failed, lock, verdict, result, host,
                   session, work>>

(* Mutant: the artifacts are reported with a status of their own.          *)
RunPostprocess_ownStatus ==
    /\ At("postprocess")
    /\ \/ config.s3 /\ Report("artifacts")
       \/ UNCHANGED status
    /\ Goto("report_completed")
    /\ UNCHANGED <<registryVars, exit_code, process_code, host, session, work>>

(* run_postprocess; once an upload succeeded, report_artifacts is sent with *)
(* the status of a running benchmark.                                      *)
RunPostprocess ==
    /\ At("postprocess")
    /\ \/ config.s3 /\ Report("benchmark")
       \/ UNCHANGED status
    /\ Goto("report_completed")
    /\ UNCHANGED <<registryVars, exit_code, process_code, host, session, work>>

(* The last report; then run() returns exit_code, or SystemExit goes on.   *)
ReportCompleted ==
    /\ At("report_completed")
    /\ Report(IF exit_code = 0 THEN "completed" ELSE "failed")
    /\ process_code' = IF unwinding THEN 1 ELSE exit_code
    /\ Goto("exited")
    /\ UNCHANGED <<registryVars, exit_code, host, session, work>>

RunFinally == BeginFinalize \/ FinalizePower \/ RunHostTeardown \/ PrintFailureDetails
              \/ RunPostprocess \/ ReportCompleted

RunTry == \/ RunHostSetup \/ RunHostCommands
          \/ StartHeadInfrastructure \/ StartMooncakeMaster \/ PrepareModel
          \/ StartAllWorkers \/ StartFrontend
          \/ StartPowerTelemetry \/ StartExporters \/ StartTachometer
          \/ Dispatch \/ WaitForServiceReady \/ ServeUntilStopped
          \/ RunBenchmarkScript \/ RunPostEval

(* A registry call of the main frame, while no handler is on top of it.    *)
MainInRegistry ==
    /\ depth = 0 /\ Alive
    /\ RegistryStep("main")
    /\ UNCHANGED <<pc, result, host, session, work>>

(* The ways out of the waits without a limit: when the main thread gets    *)
(* there is up to the client it waits for, stop_event or not.              *)
UntimedWaitEnds ==
    /\ HostClientReaped \/ DownloadReaped \/ ModelStaged \/ TeardownClientReaped
    /\ UNCHANGED <<config, signalVars, mpc, stop>>

MainThread ==
    /\ \/ (RunTry \/ RunFinally \/ MainInRegistry) /\ UNCHANGED stop
       \/ SetStop
    /\ UNCHANGED <<config, signalVars, mpc>>

-----------------------------------------------------------------------------
(***************************************************************************)
(* SIGTERM or SIGINT: the handler frame sets stop_event and calls cleanup. *)
(* A second signal may arrive while it does and runs the handler again, on *)
(* top of the first.                                                       *)
(***************************************************************************)
HandlerAt(level) == IF level = 1 THEN "handler" ELSE "nested"

SignalArrives ==
    /\ Alive /\ signals < config.signals /\ depth < 2
    /\ signals' = signals + 1
    /\ depth' = depth + 1
    /\ stop' = TRUE
    /\ Request(HandlerAt(depth + 1), "cleanup")
    /\ UNCHANGED <<child, registered, failed, lock, verdict, config, pc, result,
                   host, session, work, unwinding, mpc>>

HandlerInRegistry ==
    /\ depth > 0 /\ Alive
    /\ RegistryStep(HandlerAt(depth))
    /\ UNCHANGED <<config, pc, result, host, session, work, signalVars, mpc, stop>>

(***************************************************************************)
(* sys.exit(1) in the handler: SystemExit unwinds every frame below,       *)
(* abandons the calls they were waiting in, runs the finally block of the  *)
(* benchmark script and of run(), and cuts the latter short when it is     *)
(* already there.                                                          *)
(***************************************************************************)
HandlerExits ==
    /\ depth > 0 /\ Alive
    /\ call[HandlerAt(depth)] = "idle"
    /\ depth' = 0
    /\ unwinding' = TRUE
    /\ call' = [f \in Frames |-> IF f = "monitor" THEN call[f] ELSE "idle"]
    /\ todo' = [f \in Frames |-> IF f = "monitor" THEN todo[f] ELSE {}]
    /\ \/ pc = "bench_wait" /\ Goto("bench_finally") /\ UNCHANGED process_code
       \/ pc \in TryPcs \ {"bench_wait"} /\ Goto("finalize") /\ UNCHANGED process_code
       \/ pc \in FinallyPcs /\ Goto("exited") /\ process_code' = 1
    /\ UNCHANGED <<child, registered, failed, lock, verdict, config, exit_code,
                   status, host, session, work, signals, mpc, stop>>

SignalHandler == HandlerInRegistry \/ HandlerExits

-----------------------------------------------------------------------------
(* monitor_loop, in its daemon thread.                                     *)
MonitorAt(label) == mpc = label /\ call["monitor"] = "idle"

monitorFrame == <<config, pc, result, host, session, work, signalVars>>

MonitorChecks ==
    /\ MonitorAt("loop")
    /\ IF stop THEN mpc' = "dead" /\ UNCHANGED <<call, todo>>
       ELSE mpc' = "judge" /\ Request("monitor", "check")
    /\ UNCHANGED <<child, registered, failed, lock, verdict, stop>>

(* Mutant: the monitor looks at the processes once.                        *)
MonitorJudges_once ==
    /\ MonitorAt("judge")
    /\ mpc' = "dead"
    /\ IF verdict["monitor"] THEN stop' = TRUE /\ Request("monitor", "cleanup")
       ELSE UNCHANGED <<stop, call, todo>>
    /\ UNCHANGED <<child, registered, failed, lock, verdict>>

MonitorJudges ==
    /\ MonitorAt("judge")
    /\ IF verdict["monitor"]
       THEN stop' = TRUE /\ mpc' = "dead" /\ Request("monitor", "cleanup")
       ELSE mpc' = "loop" /\ UNCHANGED <<stop, call, todo>>
    /\ UNCHANGED <<child, registered, failed, lock, verdict>>

Monitor ==
    /\ Alive
    /\ \/ MonitorChecks
       \/ MonitorJudges
       \/ RegistryStep("monitor") /\ UNCHANGED <<mpc, stop>>
    /\ UNCHANGED monitorFrame

-----------------------------------------------------------------------------
(* Children end by themselves at any moment.                               *)
ClientExits ==
    \/ /\ bench = "up" /\ bench' \in {"ok", "failed"} /\ UNCHANGED eval
    \/ /\ eval = "up" /\ eval' \in {"ok", "failed"} /\ UNCHANGED bench

Environment ==
    /\ Alive
    /\ \/ (\E p \in Procs : ChildExits(p)) /\ UNCHANGED work
       \/ ClientExits /\ UNCHANGED <<registryVars, reaped, allows>>
    /\ UNCHANGED <<config, pc, result, host, session, signalVars, mpc, stop>>

Next == MainThread \/ UntimedWaitEnds \/ SignalArrives \/ SignalHandler \/ Monitor \/ Environment

(* The operating system schedules the threads of the process; how long a   *)
(* child runs, and with it a wait for one that has no timeout, and whether *)
(* a signal comes, is nobody's promise.                                    *)
Fairness == WF_vars(MainThread) /\ WF_vars(SignalHandler) /\ WF_vars(Monitor)

Spec == Init /\ [][Next]_vars /\ Fairness
-----------------------------------------------------------------------------
TypeOK ==
    /\ RegistryTypeOK
    /\ config \in Configs
    /\ pc \in TryPcs \union FinallyPcs \union {"exited"}
    /\ exit_code \in {0, 1} /\ process_code \in {0, 1, 2}
    /\ status \in {"starting", "workers", "frontend", "benchmark", "completed",
                   "failed"}
    /\ hostRan \in BOOLEAN /\ nodes \in {"clean", "modified", "restored"}
    /\ power \in {"none", "started", "ready", "published", "invalid",
                  "broken"}
    /\ windows \in {"untouched", "converted"} /\ interrupted \in BOOLEAN
    /\ bench \in {"none", "up", "ok", "failed", "stopped", "killed", "wedged"}
    /\ reaped \in {"unset", "no", "yes"} /\ allows \in BOOLEAN
    /\ eval \in {"none", "up", "ok", "failed", "stopped"}
    /\ depth \in 0..2 /\ signals \in 0..config.signals /\ unwinding \in BOOLEAN
    /\ mpc \in {"loop", "judge", "dead"} /\ stop \in BOOLEAN

(* Safety: however the orchestrator process ends (run() returns, a signal  *)
(* at any statement, a signal during the clean-up itself), no process of   *)
(* the registry is left running without having been signalled.             *)
RegisteredStopped ==
    ~Alive => \A p \in registered : child[p] # "up"

(* Safety: host state is restored only once the registered processes have  *)
(* been stopped ("so the GPUs are idle before node state is reverted").    *)
TeardownOnIdleNodes ==
    nodes = "restored" => \A p \in registered : child[p] # "up"

(* Safety: "completed" is reported only for a workload that succeeded, and *)
(* with required telemetry only if its artifacts were published, whatever  *)
(* signals and monitor clean-ups came in between.                          *)
TruthfulSuccess ==
    status = "completed" =>
        /\ config.mode = "benchmark" => bench = "ok"
        /\ config.mode = "eval_only" => eval = "ok"
        /\ (config.mode = "benchmark" /\ config.telemetry = "required")
              => power = "published"

(* Safety: running measurement windows are converted only when the client  *)
(* that writes them has ended, and was not force-killed (its remote step   *)
(* might still be writing).                                                *)
WindowsConvertedAfterClient ==
    windows = "converted" => bench \in {"ok", "failed", "stopped"}

(* Safety: power artifacts are published only for a benchmark whose client *)
(* ended by itself: a stop request, from whichever thread, that ended the  *)
(* client early is known to the finalization that comes after it.          *)
PublishedOnlyAfterBenchmark ==
    power = "published" => bench \in {"ok", "failed"}

(* Safety: the state keeps its types, and the measurement files change     *)
(* hands in order: what is done with them at the end waits for the client, *)
(* and knows how the client ended.                                         *)
WindowsInOrder == TypeOK /\ WindowsConvertedAfterClient /\ PublishedOnlyAfterBenchmark

(* A handler frame waits for the lock that a frame below it holds: the     *)
(* main thread is stuck for good.                                          *)
SelfDeadlock ==
    \/ depth > 0 /\ lock = "main"
    \/ depth = 2 /\ lock = "handler"

(* Liveness: the failure of a registered critical process stops the sweep. *)
CriticalFailureStops ==
    \A p \in Procs \ NonCritical :
        (p \in registered /\ child[p] = "failed") ~> stop

(* Liveness: a stop request ends the orchestrator, whichever phase it is   *)
(* in.  There are two ways out, both the code's: the main thread has       *)
(* caught itself in the registry's lock, a fault of the program, or it is  *)
(* for good in one of its waits without a timeout, which only a signal,    *)
(* not a stop requested by the monitor, gets it out of.                    *)
StopEndsRun == stop ~> (~Alive \/ SelfDeadlock \/ [](pc \in UntimedPcs))

-----------------------------------------------------------------------------
(* What the repository says of the program, which the code does not keep.  *)

(* Claimed in config-reference.md:1671, "it fires on failure and           *)
(* cancellation too": no exit skips the teardown of a node that host_setup *)
(* modified.  A signal during the finally block does.                      *)
TeardownOnEveryExit == (~Alive /\ hostRan) => nodes = "restored"

(* Claimed in cli.md:292, "srtctl then cleans up the processes it started": *)
(* nothing it started runs on unsignalled.  A process between its launch   *)
(* and its registration does, and so do the clients it never registers.    *)
AllChildrenStopped ==
    ~Alive => /\ \A p \in Procs : child[p] # "up"
              /\ bench # "up" /\ eval # "up"
=============================================================================
