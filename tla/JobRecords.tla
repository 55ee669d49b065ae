----------------------------- MODULE JobRecords -----------------------------
(***************************************************************************)
(* What is recorded of a job, and where: srtctl writes the job's directory *)
(* and creates its entry with the status APIs while the job may already be *)
(* running (cli/submit.py); the job snapshots its resources, reports each  *)
(* stage it enters (core/status.py), lets its workers capture their        *)
(* environments, verifies its identity (cli/mixins/benchmark_stage.py) and *)
(* writes its lockfile (core/lockfile.py); when it is over it prepares its *)
(* log directory, uploads it and reports the end (cli/do_sweep.py,         *)
(* cli/mixins/postprocess_stage.py).                                       *)
(*                                                                         *)
(* Every endpoint may answer late, wrongly or never, every container may   *)
(* hang: nothing of this may stop the job.                                 *)
(***************************************************************************)
EXTENDS RunIdentity

CONSTANT Jobs  \* configuration and environment of the jobs

\* A job has: kind "bench", "eval", "serve" or "manual"; its flags, a set of "dynamo",
\* "override", "s3", "ai", "rollup", "metrics", "ruter", "post_eval" and "power"; the reporting
\* endpoints; its identity block; the fingerprints of the lock it was started from;
\* the processes of its workers, each with its worker and its machine; its allocation;
\* and max_trouble, the bound on requests, probes and steps that do not go well.
Has(j, flag) == flag \in j.flags

Url == [host : STRING, slash : BOOLEAN]

ASSUME JobsAssumption ==
    \A j \in Jobs : /\ j.max_trouble \in Nat
                    /\ j.reporting.endpoint \in {None} \cup Url /\ j.reporting.endpoints \in Seq(Url)

\* What the log directory may hold.
LogNames == {"snapshot", "copy", "rollup", "report", "metrics", "ruter", "dashboard", "parsed"}

\* None is none of the values it is the absence of.
ASSUME NoneAssumption ==
    /\ \A names \in SUBSET LogNames : names # None
    /\ \A j \in Jobs : \A p \in DOMAIN j.processes :
         LET machine == j.processes[p].machine
         IN  /\ None \notin {<<"line", machine.cuda_version>>, <<"token", machine.cuda_version>>}
             /\ \A failed \in SUBSET Probes : ScriptCapture(machine, failed) # None

VARIABLES job,
          sub,        \* how far srtctl has come after sbatch
          post,       \* endpoints srtctl has created the entry with
          files,      \* of the job's directory: runtime configuration and metadata
          pc,         \* of the job
          put,        \* endpoints the report being made has been sent to
          sent,       \* the reports the job has made
          seen,       \* the requests each endpoint has applied
          late,       \* requests given up after five seconds but not lost
          capturing,  \* each process of a worker: where its capture script is
          prints,     \* each worker's fingerprint file
          checks,     \* the identity checks made
          snapshot,   \* logs/resource_snapshot.json
          lock,       \* recipe.lock.yaml
          issues,     \* logs/reproduction-report.txt
          logs,       \* what the log directory holds for the upload
          child,      \* the process post-processing waits for
          s3,         \* what has been uploaded
          url,        \* _last_logs_url
          code,       \* exit code
          trouble

vars == <<job, sub, post, files, pc, put, sent, seen, late, capturing, prints, checks,
          snapshot, lock, issues, logs, child, s3, url, code, trouble>>
submitVars == <<sub, post>>
apiVars == <<put, sent, seen, late>>
workerVars == <<capturing, prints>>
recordVars == <<checks, snapshot, lock, issues>>
uploadVars == <<logs, child, s3, url>>

Trouble == trouble < job.max_trouble /\ trouble' = trouble + 1

-----------------------------------------------------------------------------
(* The status APIs.                                                        *)

\* A URL is a host and the slashes behind it.
rstrip(u) == u.host

\* _resolve_endpoints: one after the other, each once.
Urls(r) == (IF r.endpoint = None THEN <<>> ELSE <<rstrip(r.endpoint)>>)
           \o [i \in DOMAIN r.endpoints |-> rstrip(r.endpoints[i])]
Endpoints(j) ==
    LET all == Urls(j.reporting)
        first == {i \in DOMAIN all : \A k \in 1..(i - 1) : all[k] # all[i]}
    IN  [n \in 1..Cardinality(first) |->
            all[CHOOSE i \in first : Cardinality({k \in first : k <= i}) = n]]

Message(status, with_url, with_code) == [status |-> status, url |-> with_url, code |-> with_code]

\* One request, by requests' timeout answered, refused, or given up while the server
\* may yet get to it.
Request(e, m) ==
    \/ /\ seen' = [seen EXCEPT ![e] = @ \cup {m}]
       /\ UNCHANGED <<late, trouble>>
    \/ /\ Trouble
       /\ UNCHANGED <<seen, late>>
    \/ /\ Trouble
       /\ late' = late \cup {<<e, m>>}
       /\ UNCHANGED seen

Arrives ==
    \E r \in late :
        /\ seen' = [seen EXCEPT ![r[1]] = @ \cup {r[2]}]
        /\ late' = late \ {r}
        /\ UNCHANGED <<job, submitVars, files, pc, put, sent, workerVars, recordVars, uploadVars, code, trouble>>

-----------------------------------------------------------------------------
(* srtctl, after sbatch (submit_with_orchestrator).                        *)

submitStays == UNCHANGED <<job, pc, put, sent, workerVars, recordVars, uploadVars, code>>

\* The configuration the job script names is the last one written.
WriteConfig ==
    /\ sub = "config"
    /\ sub' = "metadata"
    /\ files' = [files EXCEPT !.config = TRUE]
    /\ UNCHANGED <<post, seen, late, trouble>> /\ submitStays

\* open(..., "w") and json.dump
OpenMetadata ==
    /\ sub = "metadata"
    /\ sub' = "dump"
    /\ files' = [files EXCEPT !.metadata = "torn"]
    /\ UNCHANGED <<post, seen, late, trouble>> /\ submitStays

DumpMetadata ==
    /\ sub = "dump"
    /\ sub' = "record"
    /\ files' = [files EXCEPT !.metadata = "whole"]
    /\ UNCHANGED <<post, seen, late, trouble>> /\ submitStays

CreateJobRecord ==
    /\ sub = "record" /\ post < Len(Endpoints(job))
    /\ Request(Endpoints(job)[post + 1], Message("submitted", None, None))
    /\ post' = post + 1
    /\ UNCHANGED <<sub, files>> /\ submitStays

Submitted ==
    /\ sub = "record" /\ post = Len(Endpoints(job))
    /\ sub' = "done"
    /\ UNCHANGED <<post, files, seen, late, trouble>> /\ submitStays

\* The directory cannot be written, or srtctl is interrupted.
SubmitFails ==
    /\ sub \notin {"done", "failed"}
    /\ Trouble
    /\ sub' = "failed"
    /\ UNCHANGED <<post, files, seen, late>> /\ submitStays

-----------------------------------------------------------------------------
(* The stages that report.                                                 *)

\* What the job reports at a step: StatusReporter's methods, and run's calls of report.
Report(step) ==
    CASE step \in {"started", "head"} -> Message("starting", None, None)
      [] step = "workers"   -> Message("workers", None, None)
      [] step \in {"frontend", "ready"} -> Message("frontend", None, None)
      [] step \in {"benchmark", "eval_only", "post_eval"} -> Message("benchmark", None, None)
      [] step \in {"unhealthy", "blocked", "raised"} -> Message("failed", None, None)
      [] step = "artifacts" -> Message("benchmark", url, None)
      [] step = "final"     -> Message(IF code = 0 THEN "completed" ELSE "failed", url, code)

Reports == {"started", "head", "workers", "frontend", "ready", "benchmark", "eval_only",
            "post_eval", "unhealthy", "blocked", "raised", "artifacts", "final"}

AfterReport(step) ==
    CASE step = "started"    -> "lock"
      [] step = "head"       -> "infra"
      [] step = "workers"    -> "launch"
      [] step = "frontend"   -> "front"
      [] step = "ready"      -> "serving"
      [] step \in {"benchmark", "eval_only"} -> "running"
      [] step = "post_eval"  -> "evaluating"
      [] step \in {"unhealthy", "blocked", "raised"} -> "cleanup"
      [] step = "artifacts"  -> "analysis"
      [] step = "final"      -> "over"

jobStays == UNCHANGED <<job, submitVars, apiVars>>

\* _put: one endpoint after the other.
Put ==
    /\ pc \in Reports /\ put < Len(Endpoints(job))
    /\ Request(Endpoints(job)[put + 1], Report(pc))
    /\ put' = put + 1
    /\ UNCHANGED <<job, submitVars, files, pc, sent, workerVars, recordVars, uploadVars, code>>

Reported ==
    /\ pc \in Reports /\ put = Len(Endpoints(job))
    /\ sent' = Append(sent, [step |-> pc, status |-> Report(pc).status])
    /\ put' = 0
    /\ pc' = AfterReport(pc)
    /\ UNCHANGED <<job, submitVars, files, seen, late, workerVars, recordVars, uploadVars, code, trouble>>

-----------------------------------------------------------------------------
(* Starting.                                                               *)

NoPrint == [kind |-> "absent", print |-> None]

Init ==
    /\ job \in Jobs
    /\ sub = "config" /\ post = 0
    /\ files = [config |-> FALSE, metadata |-> "absent"]
    /\ pc = "queued" /\ put = 0 /\ sent = <<>>
    /\ seen = [e \in Range(Endpoints(job)) |-> {}] /\ late = {}
    /\ capturing = [p \in DOMAIN job.processes |-> "off"]
    /\ prints = [w \in {job.processes[p].worker : p \in DOMAIN job.processes} |-> NoPrint]
    /\ checks = None /\ snapshot = None /\ lock = None /\ issues = None
    /\ logs = {} /\ child = "none" /\ s3 = None /\ url = None
    /\ code = 1 /\ trouble = 0

\* do_sweep main, whenever SLURM gets to it.
Boot ==
    /\ pc = "queued"
    /\ pc' = IF files.config THEN "snapshot" ELSE "over"
    /\ jobStays /\ UNCHANGED <<files, workerVars, recordVars, uploadVars, code, trouble>>

\* record_resource_snapshot: what fails is only missed.
Snapshot ==
    /\ pc = "snapshot"
    /\ \/ /\ snapshot' = CpuCheck(job.allocation)
          /\ logs' = logs \cup {"snapshot"}
          /\ pc' = "metadata"
          /\ UNCHANGED trouble
       \/ /\ Trouble
          /\ pc' = "started"
          /\ UNCHANGED <<snapshot, logs>>
    /\ jobStays /\ UNCHANGED <<files, workerVars, checks, lock, issues, child, s3, url, code>>

\* Mutant: metadata srtctl has not written yet are created.
ReadMetadata_create ==
    /\ pc = "metadata"
    /\ pc' = IF files.metadata \in {"whole", "absent"} THEN "replace" ELSE "started"
    /\ jobStays /\ UNCHANGED <<files, workerVars, recordVars, uploadVars, code, trouble>>

\* _update_job_metadata: not there, or not readable yet, is left alone.
ReadMetadata ==
    /\ pc = "metadata"
    /\ pc' = IF files.metadata = "whole" THEN "replace" ELSE "started"
    /\ jobStays /\ UNCHANGED <<files, workerVars, recordVars, uploadVars, code, trouble>>

ReplaceMetadata ==
    /\ pc = "replace"
    /\ files' = [files EXCEPT !.metadata = "with_cpus"]
    /\ pc' = "started"
    /\ jobStays /\ UNCHANGED <<workerVars, recordVars, uploadVars, code, trouble>>

-----------------------------------------------------------------------------
(* The lockfile.                                                           *)

\* collect_worker_fingerprints: what cannot be read is skipped.
Collected ==
    [w \in {v \in DOMAIN prints : prints[v].kind = "whole"} |-> prints[w].print]

LockSection(verification) ==
    [verification |-> Verification(verification), fingerprints |-> Collected,
     resource_snapshot |-> snapshot]

\* write_lockfile never raises.
WriteLock(verification) ==
    \/ lock' = LockSection(verification) /\ trouble' = trouble
    \/ Trouble /\ UNCHANGED lock

InitialLock ==
    /\ pc = "lock"
    /\ WriteLock({})
    /\ pc' = IF Has(job, "dynamo") THEN "head" ELSE "workers"
    /\ jobStays /\ UNCHANGED <<files, workerVars, checks, snapshot, issues, uploadVars, code>>

-----------------------------------------------------------------------------
(* The stages.                                                             *)

Goes(to) == /\ pc' = to
            /\ jobStays
            /\ UNCHANGED <<files, workerVars, recordVars, uploadVars>>

\* A stage that starts something may raise.
Stage(step, to) == pc = step /\ Goes(to) /\ UNCHANGED <<code, trouble>>

StageRaises == /\ pc \in {"infra", "launch", "front", "running", "evaluating"}
               /\ Trouble
               /\ Goes("raised") /\ code' = 1

StartHead == Stage("infra", "workers")
LaunchWorkers == Stage("launch", "frontend")
StartFrontend ==
    /\ pc = "front"
    /\ \/ Goes(IF job.kind = "eval" THEN "eval_only" ELSE "waiting") /\ UNCHANGED <<code, trouble>>
       \/ Has(job, "power") /\ job.kind \in {"bench", "manual"} /\ Trouble /\ Goes("blocked") /\ code' = 1

\* Workers run from the launch on, until they are cleaned up.
WorkersRun == pc \in {"frontend", "front", "waiting", "unhealthy", "verify", "ready", "serving",
                      "benchmark", "running", "eval_only", "post_eval", "evaluating", "blocked",
                      "raised", "cleanup"}

workerStays == UNCHANGED <<job, submitVars, apiVars, files, pc, recordVars, uploadVars, code>>

MachineOf(p) == job.processes[p].machine
WorkerOf(p) == job.processes[p].worker

\* generate_capture_script, in front of the worker's command: every process of a worker
\* writes the same file.  Opening it empties it.
OpenPrint(p) ==
    /\ WorkersRun \/ pc = "launch"
    /\ capturing[p] = "off"
    /\ capturing' = [capturing EXCEPT ![p] = "open"]
    /\ prints' = [prints EXCEPT ![WorkerOf(p)] = [kind |-> "torn", print |-> None]]
    /\ UNCHANGED trouble /\ workerStays

\* Written over what another process wrote meanwhile, it may leave a tail of that.
WritePrint(p) ==
    /\ capturing[p] = "open"
    /\ capturing' = [capturing EXCEPT ![p] = "over"]
    /\ \E failed \in {{}} \cup {{probe} : probe \in Probes} :
          LET fp == ScriptCapture(MachineOf(p), failed)
              before == prints[WorkerOf(p)]
          IN  /\ IF failed = {} THEN UNCHANGED trouble ELSE Trouble
              /\ \/ prints' = [prints EXCEPT ![WorkerOf(p)] = [kind |-> "whole", print |-> fp]]
                 \/ /\ before.kind = "whole" /\ before.print # fp
                    /\ prints' = [prints EXCEPT ![WorkerOf(p)] = [kind |-> "torn", print |-> None]]
    /\ workerStays

\* "|| true"
CaptureFails(p) ==
    /\ capturing[p] = "off" /\ (WorkersRun \/ pc = "launch")
    /\ Trouble
    /\ capturing' = [capturing EXCEPT ![p] = "over"]
    /\ UNCHANGED prints /\ workerStays

\* Mutant: capturing goes on behind the worker's back.
Serving_background(p) == capturing[p] # "off"

\* A worker can serve only when its command has begun.
Serving(p) == capturing[p] = "over"

Healthy ==
    /\ pc = "waiting"
    /\ \A p \in DOMAIN job.processes : Serving(p)
    /\ Goes("verify") /\ UNCHANGED <<code, trouble>>

Unhealthy == pc = "waiting" /\ Trouble /\ Goes("unhealthy") /\ code' = 1

\* run_benchmark, healthy.
Verify ==
    /\ pc = "verify"
    /\ checks' = verify_identity(job.identity, Collected)
    /\ pc' = IF job.kind \in {"serve", "manual"} THEN "ready" ELSE "benchmark"
    /\ jobStays /\ UNCHANGED <<files, workerVars, snapshot, lock, issues, uploadVars, code, trouble>>

\* Stopped, or a worker failed.
Served == pc = "serving" /\ Goes("cleanup")
          /\ \/ code' = 0 /\ UNCHANGED trouble
             \/ code' = 1 /\ Trouble

Ran ==
    /\ pc = "running"
    /\ \/ /\ code' = 0 /\ UNCHANGED trouble
          /\ Goes(IF Has(job, "post_eval") /\ job.kind = "bench" THEN "post_eval" ELSE "cleanup")
       \/ code' = 1 /\ Trouble /\ Goes("cleanup")

\* An evaluation that fails leaves the code as it is.
Evaluated == Stage("evaluating", "cleanup")

\* finalize_power_telemetry, registry.cleanup: what captures is killed where it is.
Cleanup ==
    /\ pc = "cleanup"
    /\ pc' = "copy"
    /\ capturing' = [p \in DOMAIN capturing |-> "over"]
    /\ \/ UNCHANGED <<code, trouble>>
       \/ Has(job, "power") /\ Trouble /\ code' = 1
    /\ jobStays /\ UNCHANGED <<files, prints, recordVars, uploadVars>>

-----------------------------------------------------------------------------
(* run_postprocess                                                         *)

\* The steps that only add to the log directory, in their order.
Preparation == <<"copy", "rollup", "lock2", "compare", "metrics", "ruter", "dashboard", "upload">>
AfterPreparing(step) == Preparation[(CHOOSE i \in DOMAIN Preparation : Preparation[i] = step) + 1]

Wanted(step) ==
    CASE step = "rollup"  -> job.kind = "bench" /\ Has(job, "rollup")
      [] step = "metrics" -> Has(job, "metrics")
      [] step = "ruter"   -> Has(job, "dynamo") /\ Has(job, "ruter")
      [] OTHER            -> TRUE

preparing == UNCHANGED <<job, submitVars, apiVars, files, workerVars, code>>

\* _copy_config_to_logs, _normalize_ruter, _build_perf_dashboard: failures are swallowed.
Prepare ==
    /\ pc \in {"copy", "ruter", "dashboard"}
    /\ \/ /\ logs' = IF Wanted(pc) THEN logs \cup {pc} ELSE logs
          /\ UNCHANGED trouble
       \/ Wanted(pc) /\ Trouble /\ UNCHANGED logs
    /\ pc' = AfterPreparing(pc)
    /\ preparing /\ UNCHANGED <<recordVars, child, s3, url>>

\* _generate_rollup, _export_node_metrics_csv: a process of their own, for 30 and 600
\* seconds at most.
RunTool ==
    /\ pc \in {"rollup", "metrics"} /\ child = "none"
    /\ IF Wanted(pc) THEN child' = "running" /\ UNCHANGED pc
       ELSE pc' = AfterPreparing(pc) /\ UNCHANGED child
    /\ preparing /\ UNCHANGED <<recordVars, logs, s3, url, trouble>>

ToolEnds ==
    /\ pc \in {"rollup", "metrics"} /\ child = "running"
    /\ child' = "exited"
    /\ \/ logs' = logs \cup {pc} /\ UNCHANGED trouble
       \/ Trouble /\ UNCHANGED logs
    /\ preparing /\ UNCHANGED <<pc, recordVars, s3, url>>

\* subprocess.run ends or kills it.
ToolOver ==
    /\ pc \in {"rollup", "metrics"} /\ child \in {"running", "exited"}
    /\ child' = "none"
    /\ pc' = AfterPreparing(pc)
    /\ preparing /\ UNCHANGED <<recordVars, logs, s3, url, trouble>>

FinalLock ==
    /\ pc = "lock2"
    /\ WriteLock(IF checks = None THEN {} ELSE checks)
    /\ pc' = AfterPreparing(pc)
    /\ preparing /\ UNCHANGED <<checks, snapshot, issues, uploadVars>>

\* _compare_against_previous_lock
Compare ==
    /\ pc = "compare"
    /\ issues' = IF job.previous = None THEN None ELSE ReproductionIssues(job.previous, Collected)
    /\ logs' = IF issues' = None THEN logs ELSE logs \cup {"report"}
    /\ pc' = AfterPreparing(pc)
    /\ preparing /\ UNCHANGED <<checks, snapshot, lock, child, s3, url, trouble>>

\* _run_postprocess_container
Upload ==
    /\ pc = "upload"
    /\ IF Has(job, "s3") THEN child' = "installing" /\ pc' = "uploading"
       ELSE pc' = "analysis" /\ UNCHANGED child
    /\ preparing /\ UNCHANGED <<recordVars, logs, s3, url, trouble>>

containerStays == preparing /\ UNCHANGED <<pc, recordVars, url>>

Part == {"part"}

\* _build_postprocess_script: srtlog is best effort, the upload is not.
Install ==
    /\ child = "installing"
    /\ \/ child' = "parsing" /\ UNCHANGED trouble
       \/ child' = "exit 11" /\ Trouble
    /\ containerStays /\ UNCHANGED <<logs, s3>>

Parse ==
    /\ child = "parsing"
    /\ \/ child' = "syncing" /\ logs' = logs \cup {"parsed"} /\ UNCHANGED trouble
       \/ child' = "syncing raw" /\ Trouble /\ UNCHANGED logs
    /\ containerStays /\ UNCHANGED s3

Sync ==
    /\ child \in {"syncing", "syncing raw"}
    /\ \/ /\ s3' = logs
          /\ child' = IF child = "syncing" THEN "exit 0" ELSE "exit 20"
          /\ UNCHANGED trouble
       \/ /\ s3' = Part /\ child' = "exit 11" /\ Trouble
    /\ containerStays /\ UNCHANGED logs

\* Mutant: the address is known before the container has run.
UploadOver_any ==
    /\ pc = "uploading" /\ child \in {"exit 0", "exit 20", "exit 11"}
    /\ url' = "logs_url"
    /\ pc' = "artifacts"
    /\ child' = "none"
    /\ preparing /\ UNCHANGED <<recordVars, logs, s3, trouble>>

\* The address of the logs is known only after an upload seen to succeed.
UploadOver ==
    /\ pc = "uploading" /\ child \in {"exit 0", "exit 20", "exit 11"}
    /\ IF child = "exit 11" THEN pc' = "analysis" /\ UNCHANGED url
       ELSE pc' = "artifacts" /\ url' = "logs_url"
    /\ child' = "none"
    /\ preparing /\ UNCHANGED <<recordVars, logs, s3, trouble>>

\* After 600 seconds.
UploadTimesOut ==
    /\ pc = "uploading" /\ child \in {"installing", "parsing", "syncing", "syncing raw"}
    /\ s3' = IF child \in {"syncing", "syncing raw"} THEN Part ELSE s3
    /\ child' = "none"
    /\ pc' = "analysis"
    /\ preparing /\ UNCHANGED <<recordVars, logs, url, trouble>>

\* run_postprocess, _run_ai_analysis: only of a job that failed.
Analyze ==
    /\ pc = "analysis"
    /\ IF code # 0 /\ Has(job, "ai") THEN pc' = "analyzing" /\ child' = "running"
       ELSE pc' = "final" /\ UNCHANGED child
    /\ preparing /\ UNCHANGED <<recordVars, logs, s3, url, trouble>>

AnalystEnds ==
    /\ pc = "analyzing" /\ child = "running"
    /\ child' = "exited"
    /\ preparing /\ UNCHANGED <<pc, recordVars, logs, s3, url, trouble>>

\* Mutant: polled without a limit.
AnalysisOver_patient ==
    /\ pc = "analyzing" /\ child = "exited"
    /\ child' = "none"
    /\ pc' = "final"
    /\ preparing /\ UNCHANGED <<recordVars, logs, s3, url, trouble>>

\* Polled for 900 seconds, then terminated.
AnalysisOver ==
    /\ pc = "analyzing"
    /\ child' = "none"
    /\ pc' = "final"
    /\ preparing /\ UNCHANGED <<recordVars, logs, s3, url, trouble>>

-----------------------------------------------------------------------------
Submit == WriteConfig \/ OpenMetadata \/ DumpMetadata \/ CreateJobRecord \/ Submitted \/ SubmitFails

Capturing == \E p \in DOMAIN job.processes : OpenPrint(p) \/ WritePrint(p) \/ CaptureFails(p)

Starting == Boot \/ Snapshot \/ ReadMetadata \/ ReplaceMetadata \/ InitialLock

Staging == \/ StartHead \/ LaunchWorkers \/ StartFrontend \/ StageRaises \/ Healthy \/ Unhealthy \/ Verify
           \/ Served \/ Ran \/ Evaluated

Ending == \/ Cleanup \/ Prepare \/ RunTool \/ ToolOver \/ FinalLock \/ Compare
          \/ Upload \/ UploadOver \/ UploadTimesOut \/ Analyze \/ AnalysisOver

Containers == ToolEnds \/ Install \/ Parse \/ Sync \/ AnalystEnds

Next == Submit \/ Arrives \/ Put \/ Reported \/ Starting \/ Capturing \/ Staging \/ Ending \/ Containers

\* The orchestrator goes on by itself from the moment it cleans up; containers, tools
\* and servers need not.
Spec == Init /\ [][Next]_vars /\ WF_vars(Put) /\ WF_vars(Reported) /\ WF_vars(Ending)
-----------------------------------------------------------------------------
(* Properties                                                              *)

Rank == [starting |-> 1, workers |-> 2, frontend |-> 3, benchmark |-> 4, completed |-> 5, failed |-> 5]

\* The shape of the state; a report is only under way at a step that makes one, and what
\* post-processing waits for runs only while it waits.
TypeOK ==
    /\ pc \in Reports => put \in 0..Len(Endpoints(job))
    /\ pc \notin Reports => put = 0
    /\ post \in 0..Len(Endpoints(job))
    /\ \A n \in DOMAIN sent : sent[n].step \in Reports /\ sent[n].status \in DOMAIN Rank
    /\ child # "none" => pc \in {"rollup", "metrics", "uploading", "analyzing"}
    /\ \A w \in DOMAIN prints : prints[w].kind = "whole" <=> prints[w].print # None
    /\ code \in {0, 1} /\ trouble \in 0..job.max_trouble

InOrder(ns) ==
    \A m, n \in ns :
        m < n => /\ Rank[sent[m].status] <= Rank[sent[n].status]
                 /\ sent[m].status = "failed" => sent[n].status = "failed"

\* The pointer to the artifacts aside, a job's status never goes back and a failure it has
\* reported (do_sweep.py:837, benchmark_stage.py:304) is what it ends with.
StatusForward == InOrder({n \in DOMAIN sent : sent[n].step # "artifacts"})

Told(m) == m.url # None
Whole == s3 \notin {None, Part} /\ logs \subseteq s3

\* An endpoint is given the address of the logs only when all that was prepared for them
\* is there, and the report of the end repeats it (status.py:239, postprocess_stage.py:223).
LogsAreThere ==
    \A e \in DOMAIN seen : \A m \in seen[e] :
        /\ Told(m) => Whole
        /\ m.code # None => Told(m) = (url # None)

\* What the status servers are told is in order and has the artifacts to show for it.
ReportsSound == StatusForward /\ LogsAreThere

\* The verification in a lockfile is that of the fingerprints next to it, although it is
\* made when the server gets healthy and they are collected when all is over.
VerifiedIsRecorded ==
    lock # None /\ lock.verification # None =>
        lock.verification = verify_identity(job.identity, lock.fingerprints)

SameRelease(c) == c.field = "cuda_version" /\ Short(c.field, c.before) = Short(c.field, c.after)

\* A reproduction report without issues means what srtctl diff would show: the same workers
\* and, patch releases of CUDA aside, no difference (lockfile.py:266, fingerprint.py:529).
ReportAgreesWithDiff ==
    issues = {} =>
        /\ DOMAIN Collected = DOMAIN job.previous
        /\ \A w \in DOMAIN Collected : \A c \in Diff(job.previous[w], Collected[w]) : SameRelease(c)

\* fingerprint.py:14, srtctl check: a machine that has not changed matches the fingerprint
\* a worker captured on it, but for the CUDA line, which the two captures cut differently.
SameMachineMatches ==
    lock # None =>
        \A p \in DOMAIN job.processes :
            LET w == WorkerOf(p)
            IN  w \in DOMAIN lock.fingerprints /\ lock.fingerprints[w] = ScriptCapture(MachineOf(p), {})
                => Check(lock.fingerprints[w], capture_fingerprint(MachineOf(p), {}))
                     \subseteq {[field |-> "cuda_version", status |-> "mismatch"]}

\* SLURM lists its counts in the order of its node list.
OrderKnown(a) == NodeNames(a) = a.nodes

\* Where names and counts are in one order, a snapshot that says "ok" has a CPU for every
\* backend GPU on every node (resource_snapshot.py:178).
ShortageWarned ==
    snapshot = "ok" /\ OrderKnown(job.allocation) =>
        \A n \in Range(job.allocation.worker) : job.allocation.cpus[n] >= job.allocation.gpus[n]

\* What is recorded of a job is well formed, and its parts agree: verification with
\* fingerprints, report with comparison, a check with its capture.
RecordsSound == TypeOK /\ VerifiedIsRecorded /\ ReportAgreesWithDiff /\ SameMachineMatches

\* CPU numbers the job has put into its metadata are not lost to srtctl's own writing of
\* the file (resource_snapshot.py:362, submit.py:856).
CpusKept == [][files.metadata = "with_cpus" => files'.metadata = "with_cpus"]_files

\* Whatever tool, container or server hangs, a job that cleans up gets to its end.
CleanupEnds == pc = "cleanup" ~> pc = "over"
=============================================================================
