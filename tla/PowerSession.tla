---------------------------- MODULE PowerSession ----------------------------
(***************************************************************************)
(* PowerTelemetrySession (srtctl/core/power/session.py): the collector     *)
(* thread, which appends scrapes to samples.csv, against the main thread,  *)
(* which starts it, waits for readiness under one deadline and, when the   *)
(* benchmark is over, stops it and commits the terminal manifest under     *)
(* another.  The exporters are children that end when they please.         *)
(*                                                                         *)
(* A deadline is a flag the environment raises (late: of the startup;      *)
(* expired: of the shutdown).  The collector is given no fairness at all:  *)
(* a poll or a write may hang.  _reasons keeps the reasons that decide the *)
(* status; those of single endpoints, of devices and of windows only       *)
(* decide whether the rows can be published, which is left open beyond     *)
(* the coverage of the devices.  There is one device on each node.         *)
(***************************************************************************)
EXTENDS Naturals, FiniteSets

CONSTANTS Expected,     \* the expected devices
          Exporters,    \* the exporter containers to launch, by chunk of nodes
          MaxCycles     \* bound: cycles before the one that follows the stop

ASSUME DevicesAssumption == Expected # {}
ASSUME MaxCyclesAssumption == MaxCycles \in Nat

VARIABLES required,     \* telemetry.required
          main,         \* the statement of the main thread
          collector,    \* the statement of the collector thread
          last,         \* it is in the cycle that follows the loop
          exporter,     \* exporter[e]
          endpoints,    \* the devices whose node was resolved
          gate,         \* _power_telemetry_ready
          late,         \* the startup deadline has passed
          expired,      \* the shutdown deadline has passed
          stop,         \* _stop
          ready,        \* _ready_at_monotonic, against the startup deadline
          lock,         \* the collector holds _writer_lock
          batch,        \* the rows of the scrape in hand
          scrape_seq,   \* _scrape_seq
          sampled,      \* the rows of samples.csv
          reasons,      \* _reasons
          sealed,       \* _mutation_disabled
          interrupted,  \* the argument of stop_and_finalize
          manifest,     \* the status in manifest.json
          verdict,      \* what became of the publication
          fails,        \* SessionOutcome.exit_nonzero
          lost          \* history: collection was lost while it went on

startupVars == <<endpoints, gate, late, ready>>
fileVars == <<lock, batch, scrape_seq, sampled, sealed>>
outcomeVars == <<manifest, verdict, fails>>
sessionVars == <<required, main, collector, last, exporter, startupVars, expired, stop,
                 fileVars, reasons, interrupted, outcomeVars, lost>>

FatalLifecycleReasons ==
    {"exporter_exited", "collector_exception", "collector_interrupted",
     "collector_join_timeout", "benchmark_child_reap_timeout"}
OperationalFailureReasons ==
    {"benchmark_child_reap_timeout", "collector_join_timeout"}
StartupFailureReasons ==
    {"exporter_startup_timeout", "exporter_launch_failed",
     "endpoint_resolution_failed"}

StartupPcs == {"initialize", "launch", "resolve", "run", "create", "spawn", "wait"}
FinalizePcs == {"join", "settle", "seal", "finalize"}

SessionInit ==
    /\ required \in BOOLEAN
    /\ main = "initialize" /\ collector = "none" /\ last = FALSE
    /\ exporter = [e \in Exporters |-> "none"]
    /\ endpoints = {} /\ gate = FALSE /\ late = FALSE /\ ready = "unset"
    /\ expired = FALSE /\ stop = FALSE
    /\ lock = FALSE /\ batch = {} /\ scrape_seq = 0 /\ sampled = {} /\ sealed = FALSE
    /\ reasons = {} /\ interrupted = FALSE
    /\ manifest = "none" /\ verdict = "pending" /\ fails = FALSE
    /\ lost = FALSE

CollectorAlive == collector \notin {"none", "created", "dead"}
AnyExporterExited == \E e \in Exporters : exporter[e] = "exited"
Covered(rows) == \A d \in Expected : \E row \in rows : row[2] = d

RecordReason(reason) == reasons' = reasons \union {reason}
RecordIf(condition, reason) ==
    reasons' = IF condition THEN reasons \union {reason} ELSE reasons

-----------------------------------------------------------------------------
(* The main thread until the benchmark: start_power_telemetry.             *)

At(label) == main = label
Goto(label) == main' = label
startupFrame == <<required, last, expired, stop, fileVars, interrupted, verdict,
                  fails, lost>>

(* The header of samples.csv, then the first manifest.                     *)
Initialize ==
    /\ At("initialize")
    /\ manifest' = "starting"
    /\ Goto("launch")
    /\ UNCHANGED <<startupFrame, collector, exporter, startupVars, reasons>>

(* One chunk after the other; a launch that fails is a reason.             *)
LaunchExporter ==
    /\ At("launch")
    /\ \/ \E e \in Exporters :
            /\ exporter[e] = "none"
            /\ exporter' = [exporter EXCEPT ![e] = "up"]
            /\ UNCHANGED <<main, reasons>>
       \/ /\ \E e \in Exporters : exporter[e] = "none"
          /\ RecordReason("exporter_launch_failed")
          /\ Goto("measuring")
          /\ UNCHANGED exporter
       \/ /\ \A e \in Exporters : exporter[e] # "none"
          /\ Goto("resolve")
          /\ UNCHANGED <<exporter, reasons>>
    /\ UNCHANGED <<startupFrame, collector, startupVars, manifest>>

(* _run_daemon_workers: a thread for each job, and those that settle by the *)
(* deadline; the others go on and are forgotten.                           *)
Settled(jobs) == SUBSET jobs

ResolveEndpoints ==
    /\ At("resolve")
    /\ endpoints' \in Settled(Expected)
    /\ RecordIf(endpoints' # Expected, "endpoint_resolution_failed")
    /\ Goto(IF endpoints' = {} THEN "measuring" ELSE "run")
    /\ UNCHANGED <<startupFrame, collector, exporter, gate, late, ready, manifest>>

WriteRunning ==
    /\ At("run")
    /\ manifest' = "running"
    /\ Goto("create")
    /\ UNCHANGED <<startupFrame, collector, exporter, startupVars, reasons>>

(* self._thread is assigned before the thread is started.                  *)
StartCollector ==
    /\ \/ At("create") /\ collector' = "created" /\ Goto("spawn")
       \/ At("spawn") /\ collector' = "cycle" /\ Goto("wait")
    /\ UNCHANGED <<startupFrame, exporter, startupVars, reasons, manifest>>

WaitForReadiness ==
    /\ At("wait")
    /\ ready # "unset" \/ late
    /\ gate' = (ready = "in_time")
    /\ RecordIf(~gate', "exporter_startup_timeout")
    /\ Goto("measuring")
    /\ UNCHANGED <<startupFrame, collector, exporter, endpoints, late, ready,
                   manifest>>

Startup == \/ Initialize \/ LaunchExporter \/ ResolveEndpoints \/ WriteRunning
           \/ StartCollector \/ WaitForReadiness

-----------------------------------------------------------------------------
(* The collector thread.                                                   *)

collectorFrame == <<required, main, exporter, endpoints, gate, late, expired,
                    stop, sealed, interrupted, outcomeVars>>

(* _run: while not stopped, a cycle; one more after the stop.              *)
NextCycle ==
    /\ collector = "cycle"
    /\ stop \/ scrape_seq < MaxCycles
    /\ collector' = "snapshot" /\ last' = stop
    /\ UNCHANGED <<collectorFrame, ready, lock, batch, scrape_seq, sampled, reasons, lost>>

(* The statement of _run that follows collect_once.                        *)
AfterCycle == IF last THEN "dead" ELSE "check"

(* collect_once up to its poll: nothing is polled for a sealed file.       *)
BeginScrape ==
    /\ collector = "snapshot"
    /\ IF sealed THEN collector' = AfterCycle /\ UNCHANGED scrape_seq
       ELSE collector' = "poll" /\ scrape_seq' = scrape_seq + 1
    /\ UNCHANGED <<collectorFrame, last, ready, lock, batch, sampled, reasons, lost>>

(* An exception in a worker is raised again.                               *)
Poll ==
    /\ collector = "poll"
    /\ \/ /\ \E answered \in Settled(endpoints) : batch' = {scrape_seq} \X answered
          /\ collector' = "append"
       \/ collector' = "raise" /\ UNCHANGED batch
    /\ UNCHANGED <<collectorFrame, last, ready, lock, scrape_seq, sampled, reasons, lost>>

(* Mutant: the file is not looked at again once the poll is over.          *)
BeginAppend_trustsSnapshot ==
    /\ collector = "append"
    /\ collector' = "write" /\ lock' = TRUE /\ UNCHANGED batch
    /\ UNCHANGED <<collectorFrame, last, ready, scrape_seq, sampled, reasons, lost>>

BeginAppend ==
    /\ collector = "append"
    /\ IF sealed THEN collector' = AfterCycle /\ batch' = {} /\ UNCHANGED lock
       ELSE collector' = "write" /\ lock' = TRUE /\ UNCHANGED batch
    /\ UNCHANGED <<collectorFrame, last, ready, scrape_seq, sampled, reasons, lost>>

(* Mutant: readiness is judged over all scrapes together.                  *)
FullScrape_union(rows) == Covered(sampled \union rows)

(* One scrape in which every expected device was seen.                     *)
FullScrape(rows) == Covered(rows)

(* The write itself may stop half-way with an error.                       *)
AppendRows ==
    /\ collector = "write"
    /\ \/ /\ sampled' = sampled \union batch
          /\ ready' = IF FullScrape(batch) /\ ready = "unset"
                      THEN (IF late THEN "too_late" ELSE "in_time") ELSE ready
          /\ collector' = AfterCycle
       \/ /\ \E part \in SUBSET batch : sampled' = sampled \union part
          /\ collector' = "raise"
          /\ UNCHANGED ready
    /\ lock' = FALSE /\ batch' = {}
    /\ UNCHANGED <<collectorFrame, last, scrape_seq, reasons, lost>>

(* _check_exporters keeps quiet once the stop is requested.                *)
CheckExporters ==
    /\ collector = "check"
    /\ RecordIf(~stop /\ AnyExporterExited, "exporter_exited")
    /\ collector' = "cycle"
    /\ UNCHANGED <<collectorFrame, last, ready, lock, batch, scrape_seq, sampled, lost>>

CollectorException ==
    /\ collector = "raise"
    /\ RecordReason("collector_exception")
    /\ collector' = "dead" /\ lost' = TRUE
    /\ UNCHANGED <<collectorFrame, last, ready, lock, batch, scrape_seq, sampled>>

Collector == \/ NextCycle \/ BeginScrape \/ Poll \/ BeginAppend \/ AppendRows
             \/ CheckExporters \/ CollectorException

-----------------------------------------------------------------------------
(***************************************************************************)
(* The main thread after the benchmark: finalize_power_telemetry, which    *)
(* run() reaches from any statement of the start-up as well: by a signal,  *)
(* and by an exception where the start-up does not catch it.  A client     *)
(* that was not reaped is a reason.                                        *)
(***************************************************************************)
finalizeFrame == <<required, collector, last, exporter, startupVars, lock,
                   batch, scrape_seq, sampled, lost>>

StopCollecting ==
    /\ main \in StartupPcs \union {"measuring"}
    /\ interrupted' \in {TRUE} \union
          (IF main \in {"launch", "create", "wait"} THEN {} ELSE {FALSE})
    /\ \E unreaped \in BOOLEAN :
          reasons' = reasons
              \union (IF unreaped /\ main = "measuring"
                      THEN {"benchmark_child_reap_timeout"} ELSE {})
              \union (IF AnyExporterExited THEN {"exporter_exited"} ELSE {})
    /\ stop' = TRUE
    /\ Goto("join")
    /\ UNCHANGED <<finalizeFrame, expired, sealed, outcomeVars>>

(* An exception leaves the finalizer; the sweep goes on with exit code 1.  *)
Raise ==
    /\ verdict' = "raised" /\ fails' = TRUE
    /\ Goto("done")
    /\ UNCHANGED <<finalizeFrame, expired, stop, sealed, reasons, interrupted,
                   manifest>>

(* A failed write or a second signal, at any of its statements.            *)
FinalizerRaises == main \in FinalizePcs /\ Raise

(* A thread that was created and not started cannot be joined.             *)
JoinUnstarted == At("join") /\ collector = "created" /\ Raise

CollectorReasons(unjoined) ==
    reasons' = reasons
        \union (IF unjoined THEN {"collector_join_timeout"} ELSE {})
        \union (IF interrupted THEN {"collector_interrupted"} ELSE {})

(* Mutant: the thread is joined without a timeout.                         *)
JoinCollector_untimed ==
    /\ At("join") /\ collector # "created"
    /\ ~CollectorAlive
    /\ CollectorReasons(FALSE)
    /\ Goto("settle")
    /\ UNCHANGED <<finalizeFrame, expired, stop, sealed, interrupted, outcomeVars>>

JoinCollector ==
    /\ At("join") /\ collector # "created"
    /\ ~CollectorAlive \/ expired
    /\ CollectorReasons(CollectorAlive)
    /\ Goto("settle")
    /\ UNCHANGED <<finalizeFrame, expired, stop, sealed, interrupted, outcomeVars>>

(* Mutant: what the collector saw of the exporters is trusted.             *)
SettleExporters_trustsCollector ==
    /\ At("settle")
    /\ Goto("seal")
    /\ UNCHANGED <<finalizeFrame, expired, stop, sealed, reasons, interrupted,
                   outcomeVars>>

SettleExporters ==
    /\ At("settle")
    /\ RecordIf(AnyExporterExited, "exporter_exited")
    /\ Goto("seal")
    /\ UNCHANGED <<finalizeFrame, expired, stop, sealed, interrupted, outcomeVars>>

ExitNonzero(why, published) ==
    \/ why \intersect OperationalFailureReasons # {}
    \/ required /\ ~published

TerminalStatus(why) ==
    IF why \intersect FatalLifecycleReasons # {} THEN "incomplete"
    ELSE IF required /\ why \intersect StartupFailureReasons # {} THEN "failed"
    ELSE "complete"

(* The writer lock is taken with what is left of the deadline.  Without it *)
(* the rows are left alone and a minimal manifest is written.              *)
SealArtifacts ==
    /\ At("seal")
    /\ \/ /\ ~lock
          /\ sealed' = TRUE
          /\ Goto("finalize")
          /\ UNCHANGED <<reasons, outcomeVars>>
       \/ /\ lock /\ expired
          /\ RecordReason("collector_join_timeout")
          /\ manifest' = "incomplete" /\ verdict' = "minimal"
          /\ fails' = ExitNonzero(reasons', FALSE)
          /\ Goto("done")
          /\ UNCHANGED sealed
    /\ UNCHANGED <<finalizeFrame, expired, stop, interrupted>>

(* What else publication asks of rows and windows is not modelled.         *)
FinalizeManifest ==
    /\ At("finalize")
    /\ manifest' = TerminalStatus(reasons)
    /\ verdict' \in {"unpublished"} \union
          (IF manifest' = "complete" /\ Covered(sampled) THEN {"published"} ELSE {})
    /\ fails' = ExitNonzero(reasons, verdict' = "published")
    /\ Goto("done")
    /\ UNCHANGED <<finalizeFrame, expired, stop, sealed, reasons, interrupted>>

StopAndFinalize ==
    \/ JoinUnstarted \/ JoinCollector \/ SettleExporters \/ SealArtifacts
    \/ FinalizeManifest

-----------------------------------------------------------------------------
(* The environment: the clock and the exporters.                           *)

environmentFrame == <<required, main, collector, last, endpoints, gate, stop,
                      ready, fileVars, reasons, interrupted, outcomeVars>>

(* It matters until the first full scrape is there.                        *)
StartupDeadline ==
    /\ main \in {"resolve", "run", "create", "spawn", "wait"}
    /\ ready = "unset"
    /\ late' = TRUE
    /\ UNCHANGED <<environmentFrame, exporter, expired, lost>>

ShutdownDeadline ==
    /\ main \in FinalizePcs
    /\ expired' = TRUE
    /\ UNCHANGED <<environmentFrame, exporter, late, lost>>

ExporterExits ==
    /\ main # "done"
    /\ \E e \in Exporters :
          exporter[e] = "up" /\ exporter' = [exporter EXCEPT ![e] = "exited"]
    /\ lost' = (lost \/ CollectorAlive)
    /\ UNCHANGED <<environmentFrame, late, expired>>

Environment == StartupDeadline \/ ShutdownDeadline \/ ExporterExits

SessionNext == Startup \/ Collector \/ StopCollecting \/ StopAndFinalize
        \/ FinalizerRaises \/ Environment

(* The main thread is scheduled and time passes.  Nobody promises that the *)
(* collector gets on, that a benchmark ends or that a finalizer raises.    *)
Fairness ==
    /\ WF_sessionVars(StopAndFinalize)
    /\ WF_sessionVars(ShutdownDeadline)

SessionSpec == SessionInit /\ [][SessionNext]_sessionVars /\ Fairness
-----------------------------------------------------------------------------
SessionTyped ==
    /\ required \in BOOLEAN
    /\ main \in StartupPcs \union {"measuring"} \union FinalizePcs \union {"done"}
    /\ collector \in {"none", "created", "cycle", "snapshot", "poll", "append",
                     "write", "check", "raise", "dead"}
    /\ exporter \in [Exporters -> {"none", "up", "exited"}]
    /\ endpoints \subseteq Expected
    /\ scrape_seq \in 0..(MaxCycles + 1)
    /\ sampled \subseteq (1..(MaxCycles + 1)) \X Expected
    /\ batch \subseteq {scrape_seq} \X Expected
    /\ ready \in {"unset", "in_time", "too_late"}
    /\ reasons \subseteq FatalLifecycleReasons \union StartupFailureReasons
    /\ manifest \in {"none", "starting", "running", "complete", "incomplete", "failed"}
    /\ verdict \in {"pending", "published", "unpublished", "minimal", "raised"}
    /\ last \in BOOLEAN /\ gate \in BOOLEAN /\ late \in BOOLEAN
    /\ expired \in BOOLEAN /\ stop \in BOOLEAN /\ lock \in BOOLEAN
    /\ sealed \in BOOLEAN /\ interrupted \in BOOLEAN /\ fails \in BOOLEAN
    /\ lost \in BOOLEAN

(* Safety: the gate in front of the benchmark opens only for one scrape,   *)
(* written before the deadline, in which every expected device was seen    *)
(* ("The union of all scrapes is not enough").                             *)
ReadyMeansFullScrape ==
    gate => \E n \in 1..(MaxCycles + 1) : {n} \X Expected \subseteq sampled

(* Safety: a session that ends with its collector still running fails the  *)
(* job, in either mode, wherever the collector is stuck.                   *)
LiveCollectorFailsJob ==
    verdict # "pending" /\ CollectorAlive => fails

(* Safety: "complete" is never written over an interruption, an exporter   *)
(* that went away while rows were collected (in the very last scrape, too) *)
(* or a collector that died.                                               *)
CompleteMeansCollected ==
    manifest = "complete" => ~lost /\ ~interrupted /\ ~CollectorAlive

(* Safety: with required telemetry a start-up that did not prove readiness *)
(* in time fails the job: rows that came later do not make up for it.      *)
RequiredNeedsReadiness ==
    required /\ ~gate /\ verdict # "pending" => fails

(* Safety: the verdict on a session and the job's exit code never claim    *)
(* more than was collected, whatever was lost and whenever.                *)
VerdictSound ==
    SessionTyped /\ LiveCollectorFailsJob /\ CompleteMeansCollected /\ RequiredNeedsReadiness

(* Refinement: the session keeps its promise to the readers of artifacts.  *)
Contract == INSTANCE PowerContract WITH log <- sampled, Devices <- Expected
KeepsContract == Contract!Spec

(* Liveness: a stuck collector never keeps the orchestrator from reaching  *)
(* ProcessRegistry.cleanup().                                              *)
FinalizeEnds == (main = "join") ~> (main = "done")
=============================================================================
