----------------------------- MODULE Power_proofs -----------------------------
(***************************************************************************)
(* Two parts.  The safety of a power collection session and that it keeps  *)
(* its promise to the readers of its artifacts, for any number of devices, *)
(* exporters and cycles.                                                   *)
(*                                                                         *)
(* Then the audit of a session: it decides exactly, for any number of      *)
(* nodes, samples, window files and points to measure: what it publishes   *)
(* is sound and what is sound it publishes.  The verdict is computed from  *)
(* two algorithms, the bracketing sequence of a window and the scan of the *)
(* window files; each is shown to say what Sound says without it.  An      *)
(* induction over the samples is replaced by least and greatest elements.  *)
(*                                                                         *)
(* The two models share no variable: what is said of one holds whatever    *)
(* the other does.                                                         *)
(***************************************************************************)
EXTENDS PowerSession, PowerArtifacts, FiniteSetTheorems, WellFoundedInduction, TLAPS

-----------------------------------------------------------------------------
(* The session: start_power_telemetry, the collector thread, the shutdown  *)


Unstarted == {"none", "created"}

(* The loop makes MaxCycles scrapes, and one more after the stop.          *)
CycleCount ==
    /\ collector \in Unstarted \union {"cycle", "check"} => ~last
    /\ ~last => scrape_seq <= MaxCycles
    /\ collector = "snapshot" => scrape_seq <= MaxCycles /\ (last \/ scrape_seq < MaxCycles)
    /\ collector \in {"poll", "append", "write"} => scrape_seq >= 1
    /\ collector \notin {"append", "write"} => batch = {}

(* Who holds the writer lock, and that nothing is written once it is       *)
(* sealed.                                                                 *)
WriterLock ==
    /\ lock <=> collector = "write"
    /\ sealed => ~lock
    /\ main = "finalize" => sealed
    /\ verdict \in {"published", "unpublished"} => sealed

(* When there is a collector thread, and what there is without it.         *)
CollectorThread ==
    /\ main \in {"initialize", "launch", "resolve", "run", "create"}
          => collector = "none"
    /\ main = "spawn" => collector = "created"
    /\ collector \in Unstarted => sampled = {}

(* Readiness was proved by one scrape.                                     *)
Readiness ==
    /\ ready # "unset" =>
          \E n \in 1..(MaxCycles + 1) : {n} \X Expected \subseteq sampled
    /\ gate => ready = "in_time"

(* The reasons known by the time the manifest is written.                  *)
Fatal == reasons \intersect FatalLifecycleReasons # {}
NotReadyReason == reasons \intersect StartupFailureReasons # {}

KnownReasons ==
    /\ main \in {"settle", "seal", "finalize"} =>
          /\ CollectorAlive => "collector_join_timeout" \in reasons
          /\ interrupted => "collector_interrupted" \in reasons
    /\ lost => AnyExporterExited \/ "collector_exception" \in reasons
    /\ main \in {"seal", "finalize"} /\ lost => Fatal
    /\ main = "measuring" /\ ~gate => NotReadyReason
    /\ main \in FinalizePcs /\ ~gate =>
          NotReadyReason \/ interrupted \/ collector \in Unstarted

(* What the session says when it is over, and that it says nothing before. *)
Terminal ==
    /\ verdict = "pending" <=> main # "done"
    /\ main = "done" /\ CollectorAlive => fails
    /\ main = "done" /\ required /\ ~gate => fails
    /\ manifest = "complete" =>
          main = "done" /\ ~lost /\ ~interrupted /\ ~CollectorAlive
    /\ verdict = "published" => manifest = "complete"

Parts == /\ CycleCount /\ WriterLock /\ CollectorThread /\ Readiness
         /\ KnownReasons /\ Terminal

SessionInv == SessionTyped /\ Parts
-----------------------------------------------------------------------------
(* The types hold at the start.                                            *)
LEMMA InitType == SessionInit => SessionTyped
<1> SUFFICES ASSUME SessionInit PROVE SessionTyped
  OBVIOUS
<1>1. /\ required \in BOOLEAN /\ last \in BOOLEAN /\ gate \in BOOLEAN /\ late \in BOOLEAN
      /\ expired \in BOOLEAN /\ stop \in BOOLEAN /\ lock \in BOOLEAN
      /\ sealed \in BOOLEAN /\ interrupted \in BOOLEAN /\ fails \in BOOLEAN
      /\ lost \in BOOLEAN
  BY DEF SessionInit
<1>2. /\ scrape_seq = 0 /\ sampled = {} /\ batch = {} /\ endpoints = {} /\ reasons = {}
      /\ main = "initialize" /\ collector = "none" /\ ready = "unset"
      /\ manifest = "none" /\ verdict = "pending"
      /\ exporter = [e \in Exporters |-> "none"]
  BY DEF SessionInit
<1>3. QED
  BY <1>1, <1>2, MaxCyclesAssumption DEF SessionTyped, StartupPcs

(* The main thread keeps the types until the benchmark is over.            *)
LEMMA StartupType == ASSUME SessionTyped, Startup PROVE SessionTyped'
<1> USE DEF startupFrame, startupVars, fileVars, Goto, At, RecordReason, RecordIf,
            StartupPcs, FatalLifecycleReasons, StartupFailureReasons
<1>1. CASE Initialize
  BY <1>1 DEF SessionTyped, Initialize
<1>2. CASE LaunchExporter
  <2>1. exporter' \in [Exporters -> {"none", "up", "exited"}]
    BY <1>2 DEF SessionTyped, LaunchExporter
  <2>2. /\ reasons' \subseteq FatalLifecycleReasons \union StartupFailureReasons
        /\ main' \in {"launch", "measuring", "resolve"}
    BY <1>2 DEF SessionTyped, LaunchExporter
  <2>3. QED
    BY <1>2, <2>1, <2>2 DEF SessionTyped, LaunchExporter
<1>3. CASE ResolveEndpoints
  BY <1>3 DEF SessionTyped, ResolveEndpoints, Settled
<1>4. CASE WriteRunning
  BY <1>4 DEF SessionTyped, WriteRunning
<1>5. CASE StartCollector
  BY <1>5 DEF SessionTyped, StartCollector
<1>6. CASE WaitForReadiness
  BY <1>6 DEF SessionTyped, WaitForReadiness
<1>7. QED
  BY <1>1, <1>2, <1>3, <1>4, <1>5, <1>6 DEF Startup

(* The collector keeps them; MaxCycles bounds its scrapes.                 *)
LEMMA CollectorType == ASSUME SessionTyped, CycleCount, Collector PROVE SessionTyped'
<1> USE MaxCyclesAssumption
    DEF collectorFrame, outcomeVars, AfterCycle, RecordReason, RecordIf,
        FatalLifecycleReasons, StartupFailureReasons
<1>1. CASE NextCycle
  BY <1>1 DEF SessionTyped, NextCycle
<1>2. CASE BeginScrape
  <2>1. scrape_seq' \in 0..(MaxCycles + 1) /\ batch' = {}
    BY <1>2 DEF SessionTyped, BeginScrape, CycleCount
  <2>2. QED
    BY <1>2, <2>1 DEF SessionTyped, BeginScrape
<1>3. CASE Poll
  BY <1>3 DEF SessionTyped, Poll, Settled
<1>4. CASE BeginAppend
  <2>1. lock' \in BOOLEAN /\ batch' \subseteq {scrape_seq'} \X Expected
    BY <1>4 DEF SessionTyped, BeginAppend
  <2>2. QED
    BY <1>4, <2>1 DEF SessionTyped, BeginAppend
<1>5. CASE AppendRows
  <2>1. \E rows \in SUBSET batch : sampled' = sampled \union rows
    BY <1>5 DEF AppendRows
  <2>2. scrape_seq \in 1..(MaxCycles + 1)
    BY <1>5 DEF SessionTyped, AppendRows, CycleCount
  <2>3. sampled' \subseteq (1..(MaxCycles + 1)) \X Expected
    BY <2>1, <2>2 DEF SessionTyped
  <2>4. lock' \in BOOLEAN
    BY <1>5 DEF AppendRows
  <2>5. QED
    BY <1>5, <2>3, <2>4 DEF SessionTyped, AppendRows
<1>6. CASE CheckExporters
  BY <1>6 DEF SessionTyped, CheckExporters
<1>7. CASE CollectorException
  BY <1>7 DEF SessionTyped, CollectorException
<1>8. QED
  BY <1>1, <1>2, <1>3, <1>4, <1>5, <1>6, <1>7 DEF Collector

(* So do the finalizer, whatever ends it, and the environment.             *)
LEMMA FinalizeType ==
    ASSUME SessionTyped, StopCollecting \/ StopAndFinalize \/ FinalizerRaises \/ Environment
    PROVE  SessionTyped'
<1> USE DEF finalizeFrame, environmentFrame, startupVars, fileVars, outcomeVars, Goto, At,
            RecordReason, RecordIf, StartupPcs, FinalizePcs, FatalLifecycleReasons,
            StartupFailureReasons
<1>1. CASE StopCollecting
  <2>1. stop' \in BOOLEAN /\ interrupted' \in BOOLEAN
    BY <1>1 DEF StopCollecting
  <2>2. QED
    BY <1>1, <2>1 DEF SessionTyped, StopCollecting
<1>2. CASE Raise
  BY <1>2 DEF SessionTyped, Raise
<1>3. CASE JoinCollector
  BY <1>3 DEF SessionTyped, JoinCollector, CollectorReasons
<1>4. CASE SettleExporters
  BY <1>4 DEF SessionTyped, SettleExporters
<1>5. CASE SealArtifacts
  <2>1. fails' \in BOOLEAN /\ sealed' \in BOOLEAN
    BY <1>5 DEF SessionTyped, SealArtifacts, ExitNonzero
  <2>2. QED
    <3>1. /\ reasons' \subseteq FatalLifecycleReasons \union StartupFailureReasons
          /\ main' \in {"finalize", "done"}
          /\ manifest' \in {manifest, "incomplete"} /\ verdict' \in {verdict, "minimal"}
      BY <1>5 DEF SessionTyped, SealArtifacts
    <3>2. UNCHANGED <<finalizeFrame, expired, stop, interrupted>>
      BY <1>5 DEF SealArtifacts
    <3>3. QED
      BY <2>1, <3>1, <3>2 DEF SessionTyped
<1>6. CASE FinalizeManifest
  BY <1>6 DEF SessionTyped, FinalizeManifest, ExitNonzero, TerminalStatus
<1>7. CASE StartupDeadline
  BY <1>7 DEF SessionTyped, StartupDeadline
<1>8. CASE ShutdownDeadline
  BY <1>8 DEF SessionTyped, ShutdownDeadline
<1>9. CASE ExporterExits
  BY <1>9 DEF SessionTyped, ExporterExits, CollectorAlive
<1>10. QED
  BY <1>1, <1>2, <1>3, <1>4, <1>5, <1>6, <1>7, <1>8, <1>9
     DEF StopAndFinalize, JoinUnstarted, FinalizerRaises, Environment

-----------------------------------------------------------------------------
(* The start-up keeps the invariant: whoever leaves it without readiness   *)
(* has a reason, has been interrupted, or has started no collector.        *)
LEMMA StartupInv ==
    ASSUME SessionInv, Startup
    PROVE  Parts'
<1> USE DEF SessionInv, Parts, Unstarted, CollectorAlive, AnyExporterExited, FinalizePcs,
            startupFrame, startupVars, fileVars, Goto, At, RecordReason, RecordIf
<1>1. CASE Initialize
  <2>1. CycleCount' /\ WriterLock'
    BY <1>1 DEF SessionTyped, Initialize, CycleCount, WriterLock
  <2>2. CollectorThread' /\ Readiness'
    BY <1>1 DEF SessionTyped, Initialize, CollectorThread, Readiness
  <2>3. KnownReasons'
    BY <1>1 DEF SessionTyped, Initialize, CollectorThread, KnownReasons,
           Fatal, NotReadyReason, FatalLifecycleReasons, StartupFailureReasons
  <2>4. Terminal'
    BY <1>1 DEF SessionTyped, Initialize, Terminal
  <2>5. QED
    BY <2>1, <2>2, <2>3, <2>4
<1>2. CASE LaunchExporter
  <2>1. CycleCount' /\ WriterLock'
    BY <1>2 DEF SessionTyped, LaunchExporter, CycleCount, WriterLock
  <2>2. CollectorThread' /\ Readiness'
    BY <1>2 DEF SessionTyped, LaunchExporter, CollectorThread, Readiness
  <2>3. KnownReasons'
    BY <1>2 DEF SessionTyped, LaunchExporter, CollectorThread, KnownReasons,
           Fatal, NotReadyReason, FatalLifecycleReasons, StartupFailureReasons
  <2>4. Terminal'
    BY <1>2 DEF SessionTyped, LaunchExporter, Terminal
  <2>5. QED
    BY <2>1, <2>2, <2>3, <2>4
<1>3. CASE ResolveEndpoints
  <2>1. CycleCount' /\ WriterLock'
    BY <1>3 DEF SessionTyped, ResolveEndpoints, Settled, CycleCount, WriterLock
  <2>2. CollectorThread' /\ Readiness'
    BY <1>3 DEF SessionTyped, ResolveEndpoints, Settled, CollectorThread, Readiness
  <2>3. KnownReasons'
    <3>1. main' = "measuring" => "endpoint_resolution_failed" \in reasons'
      BY <1>3, DevicesAssumption DEF ResolveEndpoints, Settled
    <3>2. main' \in {"measuring", "run"} /\ reasons \subseteq reasons'
      BY <1>3 DEF ResolveEndpoints, Settled
    <3>3. UNCHANGED <<lost, exporter>>
      BY <1>3 DEF ResolveEndpoints, Settled
    <3>4. QED
      BY <3>1, <3>2, <3>3 DEF KnownReasons, NotReadyReason, StartupFailureReasons
  <2>4. Terminal'
    BY <1>3 DEF SessionTyped, ResolveEndpoints, Settled, Terminal
  <2>5. QED
    BY <2>1, <2>2, <2>3, <2>4
<1>4. CASE WriteRunning
  <2>1. CycleCount' /\ WriterLock'
    BY <1>4 DEF SessionTyped, WriteRunning, CycleCount, WriterLock
  <2>2. CollectorThread' /\ Readiness'
    BY <1>4 DEF SessionTyped, WriteRunning, CollectorThread, Readiness
  <2>3. KnownReasons'
    BY <1>4 DEF SessionTyped, WriteRunning, CollectorThread, KnownReasons,
           Fatal, NotReadyReason, FatalLifecycleReasons, StartupFailureReasons
  <2>4. Terminal'
    BY <1>4 DEF SessionTyped, WriteRunning, Terminal
  <2>5. QED
    BY <2>1, <2>2, <2>3, <2>4
<1>5. CASE StartCollector
  <2>1. CycleCount'
    BY <1>5 DEF SessionTyped, StartCollector, CycleCount, CollectorThread
  <2>2. WriterLock'
    <3>1. collector # "write" /\ collector' # "write"
      BY <1>5 DEF StartCollector, CollectorThread
    <3>2. main' # "finalize" /\ UNCHANGED <<lock, sealed, verdict>>
      BY <1>5 DEF StartCollector
    <3>3. QED
      BY <3>1, <3>2 DEF WriterLock
  <2>3. CollectorThread' /\ Readiness'
    BY <1>5 DEF SessionTyped, StartCollector, CollectorThread, Readiness
  <2>4. KnownReasons'
    BY <1>5 DEF SessionTyped, StartCollector, CollectorThread, KnownReasons,
           Fatal, NotReadyReason, FatalLifecycleReasons, StartupFailureReasons
  <2>5. Terminal'
    BY <1>5 DEF SessionTyped, StartCollector, Terminal
  <2>6. QED
    BY <2>1, <2>2, <2>3, <2>4, <2>5
<1>6. CASE WaitForReadiness
  <2>1. CycleCount' /\ WriterLock'
    BY <1>6 DEF SessionTyped, WaitForReadiness, CycleCount, WriterLock
  <2>2. CollectorThread' /\ Readiness'
    BY <1>6 DEF SessionTyped, WaitForReadiness, CollectorThread, Readiness
  <2>3. KnownReasons'
    BY <1>6 DEF SessionTyped, WaitForReadiness, CollectorThread, KnownReasons,
           Fatal, NotReadyReason, FatalLifecycleReasons, StartupFailureReasons
  <2>4. Terminal'
    BY <1>6 DEF SessionTyped, WaitForReadiness, Terminal
  <2>5. QED
    BY <2>1, <2>2, <2>3, <2>4
<1>7. QED
  BY <1>1, <1>2, <1>3, <1>4, <1>5, <1>6 DEF Startup

(* So does the collector: it writes under the lock, never to a sealed      *)
(* file, and is ready at a scrape of all the devices.                      *)
LEMMA CollectorInv ==
    ASSUME SessionInv, Collector
    PROVE  Parts'
<1> USE DEF SessionInv, Parts, Unstarted, CollectorAlive, AnyExporterExited, FinalizePcs,
            collectorFrame, outcomeVars, AfterCycle, RecordReason, RecordIf
<1>1. CASE NextCycle
  <2>1. CycleCount' /\ WriterLock'
    BY <1>1 DEF SessionTyped, NextCycle, CycleCount, WriterLock
  <2>2. CollectorThread' /\ Readiness'
    BY <1>1 DEF SessionTyped, NextCycle, CollectorThread, Readiness
  <2>3. KnownReasons'
    BY <1>1 DEF SessionTyped, NextCycle, CollectorThread, KnownReasons,
           Fatal, NotReadyReason, FatalLifecycleReasons, StartupFailureReasons
  <2>4. Terminal'
    BY <1>1 DEF SessionTyped, NextCycle, Terminal
  <2>5. QED
    BY <2>1, <2>2, <2>3, <2>4
<1>2. CASE BeginScrape
  <2>1. CycleCount'
    <3>1. /\ scrape_seq \in Nat /\ scrape_seq' \in {scrape_seq, scrape_seq + 1} /\ UNCHANGED <<last, batch>>
          /\ collector' \in {"poll", AfterCycle}
          /\ collector' # "poll" => scrape_seq' = scrape_seq
          /\ collector' = "poll" => scrape_seq' = scrape_seq + 1
      BY <1>2 DEF SessionTyped, BeginScrape
    <3>2. /\ scrape_seq <= MaxCycles /\ (last \/ scrape_seq < MaxCycles) /\ batch = {}
      BY <1>2 DEF BeginScrape, CycleCount
    <3>3. QED
      BY <3>1, <3>2, MaxCyclesAssumption DEF CycleCount
  <2>2. WriterLock'
    BY <1>2 DEF BeginScrape, WriterLock
  <2>3. CollectorThread' /\ Readiness'
    BY <1>2 DEF SessionTyped, BeginScrape, CollectorThread, Readiness
  <2>4. KnownReasons'
    BY <1>2 DEF SessionTyped, BeginScrape, CollectorThread, KnownReasons,
           Fatal, NotReadyReason, FatalLifecycleReasons, StartupFailureReasons
  <2>5. Terminal'
    BY <1>2 DEF SessionTyped, BeginScrape, Terminal
  <2>6. QED
    BY <2>1, <2>2, <2>3, <2>4, <2>5
<1>3. CASE Poll
  <2>1. CycleCount' /\ WriterLock'
    BY <1>3 DEF SessionTyped, Poll, Settled, CycleCount, WriterLock
  <2>2. CollectorThread' /\ Readiness'
    BY <1>3 DEF SessionTyped, Poll, Settled, CollectorThread, Readiness
  <2>3. KnownReasons'
    BY <1>3 DEF SessionTyped, Poll, Settled, CollectorThread, KnownReasons,
           Fatal, NotReadyReason, FatalLifecycleReasons, StartupFailureReasons
  <2>4. Terminal'
    BY <1>3 DEF SessionTyped, Poll, Settled, Terminal
  <2>5. QED
    BY <2>1, <2>2, <2>3, <2>4
<1>4. CASE BeginAppend
  <2>1. CycleCount' /\ WriterLock'
    BY <1>4 DEF SessionTyped, BeginAppend, CycleCount, WriterLock
  <2>2. CollectorThread' /\ Readiness'
    BY <1>4 DEF SessionTyped, BeginAppend, CollectorThread, Readiness
  <2>3. KnownReasons'
    BY <1>4 DEF SessionTyped, BeginAppend, CollectorThread, KnownReasons,
           Fatal, NotReadyReason, FatalLifecycleReasons, StartupFailureReasons
  <2>4. Terminal'
    BY <1>4 DEF SessionTyped, BeginAppend, Terminal
  <2>5. QED
    BY <2>1, <2>2, <2>3, <2>4
<1>5. CASE AppendRows
  <2>1. CycleCount' /\ WriterLock'
    BY <1>5 DEF SessionTyped, AppendRows, CycleCount, WriterLock
  <2>2. CollectorThread'
    BY <1>5 DEF SessionTyped, AppendRows, CollectorThread
  <2>3. Readiness'
    <3>1. sampled \subseteq sampled' /\ UNCHANGED gate
      BY <1>5 DEF AppendRows
    <3>2. CASE ready' = ready
      BY <3>1, <3>2 DEF Readiness
    <3>3. CASE ready' # ready
      <4>1. FullScrape(batch) /\ sampled' = sampled \union batch /\ ready = "unset"
        BY <1>5, <3>3 DEF AppendRows
      <4>2. {scrape_seq} \X Expected \subseteq batch
        BY <4>1 DEF FullScrape, Covered, SessionTyped
      <4>3. scrape_seq \in 1..(MaxCycles + 1)
        BY <1>5 DEF AppendRows, CycleCount, SessionTyped
      <4>4. QED
        BY <4>1, <4>2, <4>3, <3>1 DEF Readiness
    <3>4. QED
      BY <3>2, <3>3
  <2>4. KnownReasons'
    BY <1>5 DEF SessionTyped, AppendRows, CollectorThread, KnownReasons,
           Fatal, NotReadyReason, FatalLifecycleReasons, StartupFailureReasons
  <2>5. Terminal'
    BY <1>5 DEF SessionTyped, AppendRows, Terminal
  <2>6. QED
    BY <2>1, <2>2, <2>3, <2>4, <2>5
<1>6. CASE CheckExporters
  <2>1. CycleCount' /\ WriterLock'
    BY <1>6 DEF SessionTyped, CheckExporters, CycleCount, WriterLock
  <2>2. CollectorThread' /\ Readiness'
    BY <1>6 DEF SessionTyped, CheckExporters, CollectorThread, Readiness
  <2>3. KnownReasons'
    BY <1>6 DEF SessionTyped, CheckExporters, CollectorThread, KnownReasons,
           Fatal, NotReadyReason, FatalLifecycleReasons, StartupFailureReasons
  <2>4. Terminal'
    BY <1>6 DEF SessionTyped, CheckExporters, Terminal
  <2>5. QED
    BY <2>1, <2>2, <2>3, <2>4
<1>7. CASE CollectorException
  <2>1. CycleCount' /\ WriterLock'
    BY <1>7 DEF SessionTyped, CollectorException, CycleCount, WriterLock
  <2>2. CollectorThread' /\ Readiness'
    BY <1>7 DEF SessionTyped, CollectorException, CollectorThread, Readiness
  <2>3. KnownReasons'
    BY <1>7 DEF SessionTyped, CollectorException, CollectorThread, KnownReasons,
           Fatal, NotReadyReason, FatalLifecycleReasons, StartupFailureReasons
  <2>4. Terminal'
    BY <1>7 DEF SessionTyped, CollectorException, Terminal
  <2>5. QED
    BY <2>1, <2>2, <2>3, <2>4
<1>8. QED
  BY <1>1, <1>2, <1>3, <1>4, <1>5, <1>6, <1>7 DEF Collector

(* So does the finalizer: by the time it writes the manifest it knows a    *)
(* reason for everything that was lost.                                    *)
LEMMA FinalizeInv ==
    ASSUME SessionInv, StopCollecting \/ Raise \/ JoinCollector \/ SettleExporters
                 \/ SealArtifacts \/ FinalizeManifest
    PROVE  Parts'
<1> USE DEF SessionInv, Parts, Unstarted, CollectorAlive, AnyExporterExited, FinalizePcs,
            finalizeFrame, startupVars, outcomeVars, Goto, At, RecordReason, RecordIf
<1>1. CASE StopCollecting
  <2>1. CycleCount' /\ WriterLock'
    BY <1>1 DEF SessionTyped, StopCollecting, CycleCount, WriterLock
  <2>2. CollectorThread' /\ Readiness'
    BY <1>1 DEF SessionTyped, StopCollecting, CollectorThread, Readiness
  <2>3. KnownReasons'
    <3>1. /\ main' = "join" /\ reasons \subseteq reasons'
          /\ UNCHANGED <<collector, exporter, gate, lost>>
      BY <1>1 DEF StopCollecting
    <3>2. main \in {"launch", "create", "wait"} => interrupted'
      BY <1>1 DEF StopCollecting
    <3>3. main \in {"initialize", "resolve", "run", "spawn"} => collector \in Unstarted
      BY DEF CollectorThread
    <3>4. main \in {"launch", "create", "wait", "initialize", "resolve", "run", "spawn",
                    "measuring"}
      BY <1>1 DEF StopCollecting, StartupPcs
    <3>5. ~gate' => NotReadyReason' \/ interrupted' \/ collector' \in Unstarted
      BY <3>1, <3>2, <3>3, <3>4 DEF KnownReasons, NotReadyReason
    <3>6. QED
      BY <3>1, <3>5 DEF KnownReasons
  <2>4. Terminal'
    <3>1. main' = "join" /\ main # "done" /\ UNCHANGED <<manifest, verdict>>
      BY <1>1 DEF StopCollecting, StartupPcs
    <3>2. QED
      BY <3>1 DEF Terminal
  <2>5. QED
    BY <2>1, <2>2, <2>3, <2>4
<1>2. CASE Raise
  <2>1. CycleCount' /\ WriterLock'
    BY <1>2 DEF SessionTyped, Raise, CycleCount, WriterLock
  <2>2. CollectorThread' /\ Readiness'
    BY <1>2 DEF SessionTyped, Raise, CollectorThread, Readiness
  <2>3. KnownReasons'
    BY <1>2 DEF SessionTyped, Raise, CollectorThread, KnownReasons,
           Fatal, NotReadyReason, FatalLifecycleReasons, StartupFailureReasons
  <2>4. Terminal'
    BY <1>2 DEF SessionTyped, Raise, Terminal
  <2>5. QED
    BY <2>1, <2>2, <2>3, <2>4
<1>3. CASE JoinCollector
  <2>1. CycleCount' /\ WriterLock'
    BY <1>3 DEF SessionTyped, JoinCollector, CycleCount, WriterLock
  <2>2. CollectorThread' /\ Readiness'
    BY <1>3 DEF SessionTyped, JoinCollector, CollectorThread, Readiness
  <2>3. KnownReasons'
    <3>1. /\ main' = "settle" /\ reasons \subseteq reasons'
          /\ UNCHANGED <<collector, exporter, gate, lost, interrupted>>
      BY <1>3 DEF JoinCollector, CollectorReasons
    <3>2. /\ CollectorAlive => "collector_join_timeout" \in reasons'
          /\ interrupted => "collector_interrupted" \in reasons'
      BY <1>3 DEF JoinCollector, CollectorReasons
    <3>3. ~gate => NotReadyReason \/ interrupted \/ collector \in Unstarted
      BY <1>3 DEF JoinCollector, KnownReasons
    <3>4. QED
      BY <3>1, <3>2, <3>3 DEF KnownReasons, NotReadyReason
  <2>4. Terminal'
    BY <1>3 DEF SessionTyped, JoinCollector, Terminal
  <2>5. QED
    BY <2>1, <2>2, <2>3, <2>4
<1>4. CASE SettleExporters
  <2>1. CycleCount' /\ WriterLock'
    BY <1>4 DEF SessionTyped, SettleExporters, CycleCount, WriterLock
  <2>2. CollectorThread' /\ Readiness'
    BY <1>4 DEF SessionTyped, SettleExporters, CollectorThread, Readiness
  <2>3. KnownReasons'
    BY <1>4 DEF SessionTyped, SettleExporters, CollectorThread, KnownReasons,
           Fatal, NotReadyReason, FatalLifecycleReasons, StartupFailureReasons
  <2>4. Terminal'
    BY <1>4 DEF SessionTyped, SettleExporters, Terminal
  <2>5. QED
    BY <2>1, <2>2, <2>3, <2>4
<1>5. CASE SealArtifacts
  <2>1. CycleCount'
    BY <1>5 DEF SealArtifacts, CycleCount
  <2>2. WriterLock'
    <3>1. UNCHANGED <<lock, collector>>
      BY <1>5 DEF SealArtifacts
    <3>2. sealed' => ~lock
      BY <1>5 DEF SealArtifacts, WriterLock
    <3>3. /\ main' = "finalize" => sealed'
          /\ verdict' \in {"pending", "minimal"}
      BY <1>5 DEF SealArtifacts, Terminal
    <3>4. QED
      BY <3>1, <3>2, <3>3 DEF WriterLock
  <2>3. CollectorThread' /\ Readiness'
    BY <1>5 DEF SessionTyped, SealArtifacts, CollectorThread, Readiness
  <2>4. KnownReasons'
    BY <1>5 DEF SessionTyped, SealArtifacts, CollectorThread, KnownReasons,
           Fatal, NotReadyReason, FatalLifecycleReasons, StartupFailureReasons
  <2>5. Terminal'
    <3>1. CASE ~lock /\ main' = "finalize"
      BY <1>5, <3>1 DEF SealArtifacts, Terminal
    <3>2. CASE lock /\ main' = "done"
      <4>1. fails' /\ verdict' = "minimal" /\ manifest' = "incomplete"
        BY <1>5, <3>2 DEF SealArtifacts, ExitNonzero, OperationalFailureReasons
      <4>2. QED
        BY <3>2, <4>1 DEF Terminal
    <3>3. QED
      BY <1>5, <3>1, <3>2 DEF SealArtifacts
  <2>6. QED
    BY <2>1, <2>2, <2>3, <2>4, <2>5
<1>6. CASE FinalizeManifest
  <2>1. CycleCount' /\ WriterLock'
    BY <1>6 DEF SessionTyped, FinalizeManifest, CycleCount, WriterLock
  <2>2. CollectorThread' /\ Readiness'
    BY <1>6 DEF SessionTyped, FinalizeManifest, CollectorThread, Readiness
  <2>3. KnownReasons'
    BY <1>6 DEF SessionTyped, FinalizeManifest, CollectorThread, KnownReasons,
           Fatal, NotReadyReason, FatalLifecycleReasons, StartupFailureReasons
  <2>4. Terminal'
    <3>1. /\ main = "finalize" /\ main' = "done" /\ verdict' # "pending"
          /\ UNCHANGED <<collector, required, gate, lost, interrupted>>
      BY <1>6 DEF FinalizeManifest
    <3>2. verdict' = "published" => manifest' = "complete" /\ Covered(sampled)
      BY <1>6 DEF FinalizeManifest
    <3>3. manifest' = "complete" =>
            ~Fatal /\ ~(required /\ NotReadyReason)
      BY <1>6 DEF FinalizeManifest, TerminalStatus, Fatal, NotReadyReason
    <3>4. ~Fatal => ~lost /\ ~interrupted /\ ~CollectorAlive
      BY <3>1 DEF KnownReasons, Fatal, FatalLifecycleReasons
    <3>5. CollectorAlive => fails'
      BY <1>6, <3>1
         DEF FinalizeManifest, ExitNonzero, KnownReasons, OperationalFailureReasons
    <3>6. required /\ verdict' # "published" => fails'
      BY <1>6 DEF FinalizeManifest, ExitNonzero
    <3>7. ~gate /\ verdict' = "published" => ~required
      <4>1. ~Covered({})
        BY DevicesAssumption DEF Covered
      <4>2. QED
        BY <3>1, <3>2, <3>3, <3>4, <4>1 DEF KnownReasons, CollectorThread
    <3>8. QED
      BY <3>1, <3>2, <3>3, <3>4, <3>5, <3>6, <3>7 DEF Terminal
  <2>5. QED
    BY <2>1, <2>2, <2>3, <2>4
<1>7. QED
  BY <1>1, <1>2, <1>3, <1>4, <1>5, <1>6

(* An exporter lost after the finalizer has looked is lost to a collector  *)
(* that could not be joined.                                               *)
LEMMA EnvironmentInv ==
    ASSUME SessionInv, Environment
    PROVE  Parts'
<1> USE DEF SessionInv, Parts, Unstarted, CollectorAlive, AnyExporterExited, FinalizePcs,
            environmentFrame, fileVars, outcomeVars
<1>1. CASE StartupDeadline
  <2>1. CycleCount' /\ WriterLock'
    BY <1>1 DEF SessionTyped, StartupDeadline, CycleCount, WriterLock
  <2>2. CollectorThread' /\ Readiness'
    BY <1>1 DEF SessionTyped, StartupDeadline, CollectorThread, Readiness
  <2>3. KnownReasons'
    BY <1>1 DEF SessionTyped, StartupDeadline, CollectorThread, KnownReasons,
           Fatal, NotReadyReason, FatalLifecycleReasons, StartupFailureReasons
  <2>4. Terminal'
    BY <1>1 DEF SessionTyped, StartupDeadline, Terminal
  <2>5. QED
    BY <2>1, <2>2, <2>3, <2>4
<1>2. CASE ShutdownDeadline
  <2>1. CycleCount' /\ WriterLock'
    BY <1>2 DEF SessionTyped, ShutdownDeadline, CycleCount, WriterLock
  <2>2. CollectorThread' /\ Readiness'
    BY <1>2 DEF SessionTyped, ShutdownDeadline, CollectorThread, Readiness
  <2>3. KnownReasons'
    BY <1>2 DEF SessionTyped, ShutdownDeadline, CollectorThread, KnownReasons,
           Fatal, NotReadyReason, FatalLifecycleReasons, StartupFailureReasons
  <2>4. Terminal'
    BY <1>2 DEF SessionTyped, ShutdownDeadline, Terminal
  <2>5. QED
    BY <2>1, <2>2, <2>3, <2>4
<1>3. CASE ExporterExits
  <2>1. CycleCount' /\ WriterLock'
    BY <1>3 DEF SessionTyped, ExporterExits, CycleCount, WriterLock
  <2>2. CollectorThread' /\ Readiness'
    BY <1>3 DEF SessionTyped, ExporterExits, CollectorThread, Readiness
  <2>3. KnownReasons'
    BY <1>3 DEF SessionTyped, ExporterExits, CollectorThread, KnownReasons,
           Fatal, NotReadyReason, FatalLifecycleReasons, StartupFailureReasons
  <2>4. Terminal'
    BY <1>3 DEF SessionTyped, ExporterExits, Terminal
  <2>5. QED
    BY <2>1, <2>2, <2>3, <2>4
<1>4. QED
  BY <1>1, <1>2, <1>3 DEF Environment

(* The invariant holds at the start.                                       *)
LEMMA InitInv == SessionInit => SessionInv
<1> SUFFICES ASSUME SessionInit PROVE SessionInv
  OBVIOUS
<1>1. /\ scrape_seq = 0 /\ sampled = {} /\ batch = {} /\ reasons = {} /\ main = "initialize"
      /\ collector = "none" /\ ready = "unset" /\ manifest = "none"
      /\ verdict = "pending" /\ ~last /\ ~lock /\ ~sealed /\ ~gate /\ ~lost
  BY DEF SessionInit
<1>2. CycleCount /\ CollectorThread /\ Readiness
  BY <1>1, MaxCyclesAssumption DEF CycleCount, CollectorThread, Readiness
<1>3. WriterLock
  BY <1>1 DEF WriterLock
<1>4. KnownReasons /\ Terminal
  BY <1>1 DEF KnownReasons, Terminal, FinalizePcs
<1>5. QED
  BY <1>2, <1>3, <1>4, InitType DEF SessionInv, Parts

(* Every step keeps it.                                                    *)
LEMMA StepInv == SessionInv /\ [SessionNext]_sessionVars => SessionInv'
<1> SUFFICES ASSUME SessionInv, [SessionNext]_sessionVars PROVE SessionInv'
  OBVIOUS
<1>1. CASE Startup
  BY <1>1, StartupType, StartupInv DEF SessionInv
<1>2. CASE Collector
  BY <1>2, CollectorType, CollectorInv DEF SessionInv, Parts
<1>3. CASE StopCollecting \/ StopAndFinalize \/ FinalizerRaises
  BY <1>3, FinalizeType, FinalizeInv
     DEF StopAndFinalize, JoinUnstarted, FinalizerRaises, SessionInv
<1>4. CASE Environment
  BY <1>4, FinalizeType, EnvironmentInv DEF SessionInv
<1>5. CASE UNCHANGED sessionVars
  <2>1. SessionTyped'
    BY <1>5 DEF SessionInv, SessionTyped, sessionVars, startupVars, fileVars, outcomeVars
  <2>2. Parts'
    BY <1>5 DEF SessionInv, Parts, CycleCount, WriterLock, CollectorThread, Readiness,
                KnownReasons, Terminal, Fatal, NotReadyReason, AnyExporterExited,
                CollectorAlive, sessionVars, startupVars, fileVars, outcomeVars
  <2>3. QED
    BY <2>1, <2>2 DEF SessionInv
<1>6. QED
  BY <1>1, <1>2, <1>3, <1>4, <1>5 DEF SessionNext

(* The inductive invariant holds throughout, for any number of devices,    *)
(* exporters and cycles.                                                   *)
THEOREM Invariance == SessionSpec => []SessionInv
BY InitInv, StepInv, PTL DEF SessionSpec

(* Every variable of the session keeps its type.                           *)
THEOREM TypeCorrect == SessionSpec => []SessionTyped
<1>1. SessionInv => SessionTyped
  BY DEF SessionInv
<1>2. QED
  BY <1>1, Invariance, PTL

(* The benchmark gate opens only on one scrape of every expected device.   *)
THEOREM ReadinessIsFullScrape == SessionSpec => []ReadyMeansFullScrape
<1>1. SessionInv => ReadyMeansFullScrape
  BY DEF SessionInv, Parts, Readiness, ReadyMeansFullScrape
<1>2. QED
  BY <1>1, Invariance, PTL

(* A collector that outlives the finalization fails the job.               *)
THEOREM LiveCollectorIsFailure == SessionSpec => []LiveCollectorFailsJob
<1>1. SessionInv => LiveCollectorFailsJob
  BY DEF SessionInv, Parts, Terminal, LiveCollectorFailsJob
<1>2. QED
  BY <1>1, Invariance, PTL

(* "complete" is written only over a collection that nothing disturbed.    *)
THEOREM CompleteIsUndisturbed == SessionSpec => []CompleteMeansCollected
<1>1. SessionInv => CompleteMeansCollected
  BY DEF SessionInv, Parts, Terminal, CompleteMeansCollected
<1>2. QED
  BY <1>1, Invariance, PTL

(* Required telemetry that was not ready in time fails the job.            *)
THEOREM UnreadyRequiredIsFailure == SessionSpec => []RequiredNeedsReadiness
<1>1. SessionInv => RequiredNeedsReadiness
  BY DEF SessionInv, Parts, Terminal, RequiredNeedsReadiness
<1>2. QED
  BY <1>1, Invariance, PTL

(* The verdict and the exit code are right about what was collected.       *)
THEOREM VerdictIsSound == SessionSpec => []VerdictSound
<1>1. SessionTyped /\ LiveCollectorFailsJob /\ CompleteMeansCollected /\ RequiredNeedsReadiness
        => VerdictSound
  BY DEF VerdictSound
<1>2. QED
  BY <1>1, TypeCorrect, LiveCollectorIsFailure, CompleteIsUndisturbed, UnreadyRequiredIsFailure, PTL

-----------------------------------------------------------------------------
(* The steps of the session as the contract sees them: only                *)
(* AppendRows adds rows, only the exporters and the collector's exception  *)
(* lose anything, only the finalizer concludes.                            *)
LEMMA StepKeepsContract ==
    SessionInv /\ [SessionNext]_sessionVars => [Contract!Next]_(Contract!contractVars)
<1> SUFFICES ASSUME SessionInv, [SessionNext]_sessionVars,
                    ~UNCHANGED <<sampled, lost, verdict>>
             PROVE  Contract!Record \/ Contract!Lose \/ Contract!Conclude
  BY DEF Contract!Next, Contract!contractVars
<1> USE DEF SessionInv, Parts
<1>1. CASE Startup
  BY <1>1 DEF Startup, Initialize, LaunchExporter, ResolveEndpoints, Settled, WriteRunning,
              StartCollector, WaitForReadiness, startupFrame, fileVars
<1>2. CASE AppendRows
  <2>1. sampled \subseteq sampled' /\ UNCHANGED <<lost, verdict>> /\ collector = "write"
    BY <1>2 DEF AppendRows, collectorFrame, outcomeVars
  <2>2. verdict \notin {"published", "unpublished"}
    BY <2>1 DEF WriterLock
  <2>3. QED
    BY <2>1, <2>2 DEF Contract!Record, Contract!Audited
<1>3. CASE CollectorException
  <2>1. CollectorAlive /\ lost' /\ UNCHANGED <<sampled, verdict>>
    BY <1>3 DEF CollectorException, collectorFrame, outcomeVars, CollectorAlive
  <2>2. verdict # "published"
    BY <2>1 DEF Terminal
  <2>3. QED
    BY <2>1, <2>2 DEF Contract!Lose, SessionTyped
<1>4. CASE NextCycle \/ BeginScrape \/ Poll \/ BeginAppend \/ CheckExporters
  BY <1>4 DEF NextCycle, BeginScrape, Poll, Settled, BeginAppend, CheckExporters, collectorFrame,
              outcomeVars
<1>5. CASE ExporterExits
  <2>1. CollectorAlive /\ lost' /\ UNCHANGED <<sampled, verdict>>
    BY <1>5 DEF ExporterExits, environmentFrame, fileVars, outcomeVars, SessionTyped
  <2>2. verdict # "published"
    BY <2>1 DEF Terminal
  <2>3. QED
    BY <2>1, <2>2 DEF Contract!Lose
<1>6. CASE StartupDeadline \/ ShutdownDeadline
  BY <1>6 DEF StartupDeadline, ShutdownDeadline, environmentFrame, fileVars, outcomeVars
<1>7. CASE StopCollecting \/ JoinCollector \/ SettleExporters
  BY <1>7 DEF StopCollecting, JoinCollector, SettleExporters, finalizeFrame, outcomeVars
<1>8. CASE FinalizerRaises \/ JoinUnstarted
  BY <1>8 DEF FinalizerRaises, JoinUnstarted, Raise, At, FinalizePcs, finalizeFrame,
              Terminal, Contract!Conclude
<1>9. CASE SealArtifacts
  BY <1>9 DEF SealArtifacts, At, finalizeFrame, outcomeVars, Terminal, Contract!Conclude
<1>10. CASE FinalizeManifest
  <2>1. verdict = "pending" /\ UNCHANGED <<sampled, lost>>
    BY <1>10 DEF FinalizeManifest, At, Terminal, finalizeFrame
  <2>2. verdict' \in {"unpublished", "published"}
    BY <1>10 DEF FinalizeManifest
  <2>3. verdict' = "published" => Covered(sampled) /\ ~Fatal
    BY <1>10 DEF FinalizeManifest, TerminalStatus, Fatal
  <2>4. ~Fatal => ~lost
    BY <1>10 DEF FinalizeManifest, At, KnownReasons
  <2>5. QED
    BY <2>1, <2>2, <2>3, <2>4 DEF Contract!Conclude, Contract!Covered, Covered
<1>11. CASE UNCHANGED sessionVars
  BY <1>11 DEF sessionVars, fileVars, outcomeVars
<1>12. QED
  BY <1>1, <1>2, <1>3, <1>4, <1>5, <1>6, <1>7, <1>8, <1>9, <1>10, <1>11
     DEF SessionNext, Collector, StopAndFinalize, Environment

(* The session implements the contract of its artifacts.                   *)
THEOREM ContractKept == SessionSpec => KeepsContract
<1>1. SessionInit => Contract!Init
  BY DEF SessionInit, Contract!Init
<1>2. QED
  BY <1>1, StepKeepsContract, Invariance, PTL DEF SessionSpec, KeepsContract, Contract!Spec

-----------------------------------------------------------------------------
(* Least and greatest elements                                             *)

\* The library's induction over finite sets, in the form of a minimal element.
LEMMA LeastOf ==
  ASSUME NEW T, T \subseteq Nat, T # {}
  PROVE  Min(T) \in T /\ \A t \in T : Min(T) <= t
<1>1. PICK top \in T : top \in Nat
  OBVIOUS
<1> DEFINE S == 0..top
           C == {0..t : t \in T \cap S}
<1>2. C \subseteq FiniteSubsetsOf(S) /\ C # {}
  <2>1. \A t \in T \cap S : IsFiniteSet(0..t) /\ 0..t \subseteq S
    BY <1>1, FS_Interval
  <2>2. top \in T \cap S
    BY <1>1
  <2> QED
    BY <2>1, <2>2 DEF FiniteSubsetsOf
<1>3. IsWellFoundedOn(StrictSubsetOrdering(S), FiniteSubsetsOf(S))
  BY FS_StrictSubsetOrderingWellFounded
<1> HIDE DEF C
<1>4. \E X \in C : \A Y \in C : ~(<<Y, X>> \in StrictSubsetOrdering(S))
  BY <1>2, <1>3, WFMin
<1>5. PICK X \in C : \A Y \in C : ~(<<Y, X>> \in StrictSubsetOrdering(S))
  BY <1>4
<1>6. PICK x \in T \cap S : X = 0..x
  BY DEF C
<1>7. \A y \in T : x <= y
  <2> SUFFICES ASSUME NEW y \in T, y < x PROVE FALSE
    BY <1>1, <1>6
  <2>1. x \in Nat /\ y \in Nat /\ y \in T \cap S
    BY <1>1, <1>6
  <2>2. 0..y \in C
    BY <2>1 DEF C
  <2>3. 0..y \subseteq S /\ 0..x \subseteq S /\ 0..y \subseteq 0..x /\ x \notin 0..y /\ x \in 0..x
    BY <1>1, <1>6, <2>1
  <2>4. <<0..y, X>> \in StrictSubsetOrdering(S)
    BY <1>6, <2>3 DEF StrictSubsetOrdering
  <2> QED
    BY <1>5, <2>2, <2>4
<1> QED
  BY <1>7 DEF Min

LEMMA GreatestOf ==
  ASSUME NEW b \in Nat, NEW T, T \subseteq 0..b, T # {}
  PROVE  Max(T) \in T /\ \A t \in T : t <= Max(T)
<1> DEFINE U == {b - t : t \in T}
<1>1. U \subseteq Nat /\ U # {}
  <2>1. \A t \in T : b - t \in Nat
    OBVIOUS
  <2> QED
    BY <2>1
<1>2. PICK x \in T : Min(U) = b - x
  BY <1>1, LeastOf
<1>3. \A y \in T : y <= x
  BY <1>1, <1>2, LeastOf
<1> QED
  BY <1>3 DEF Max

-----------------------------------------------------------------------------
(* The coverage of a window                                                *)

\* The largest gap is within the bound when every gap is.
LEMMA GapWithin ==
  ASSUME NEW B, B \subseteq 0..MaxTime
  PROVE  LargestGap(B) <= MaxGap <=> \A p \in Adjacent(B) : p[2] - p[1] <= MaxGap
<1> DEFINE G == {0} \union {p[2] - p[1] : p \in Adjacent(B)}
<1>1. \A p \in Adjacent(B) : p[2] - p[1] \in 0..MaxTime
  <2> TAKE p \in Adjacent(B)
  <2>1. p[1] \in B /\ p[2] \in B /\ p[1] < p[2]
    BY DEF Adjacent
  <2>2. p[1] \in 0..MaxTime /\ p[2] \in 0..MaxTime
    BY <2>1
  <2> QED
    BY <2>1, <2>2, NumbersAssumption
<1>2. G \subseteq 0..MaxTime /\ G # {}
  BY <1>1, NumbersAssumption
<1>3. LargestGap(B) = Max(G) /\ Max(G) \in G /\ \A g \in G : g <= Max(G)
  BY <1>2, GreatestOf, NumbersAssumption DEF LargestGap
<1>4. ASSUME LargestGap(B) <= MaxGap, NEW p \in Adjacent(B)
      PROVE  p[2] - p[1] <= MaxGap
  <2>1. p[2] - p[1] \in G
    OBVIOUS
  <2>2. p[2] - p[1] <= Max(G) /\ Max(G) <= MaxGap /\ Max(G) \in Nat /\ p[2] - p[1] \in Nat
    BY <1>1, <1>2, <1>3, <1>4, <2>1
  <2> QED
    BY <2>2, NumbersAssumption
<1>5. ASSUME \A p \in Adjacent(B) : p[2] - p[1] <= MaxGap
      PROVE  LargestGap(B) <= MaxGap
  <2>1. \A g \in G : g <= MaxGap
    BY <1>5, NumbersAssumption
  <2> QED
    BY <1>3, <2>1
<1> QED
  BY <1>4, <1>5

\* The bracketing sequence: the times from the last one before to the first one after.
Brackets(lo, hi, T, start, end) ==
    /\ lo <= start /\ hi >= end
    /\ \A t \in T : t <= start => t <= lo
    /\ \A t \in T : t >= end => hi <= t
    /\ _bracketing_sequence(T, start, end) = {t \in T : lo <= t /\ t <= hi}

LEMMA Bracketing ==
  ASSUME NEW T, T \subseteq 0..MaxTime, NEW start \in Nat, NEW end \in Nat, start < end,
         \E t \in T : t <= start, \E t \in T : t >= end
  PROVE  \E lo \in T, hi \in T : Brackets(lo, hi, T, start, end)
<1> DEFINE before == {t \in T : t <= start}
           after == {t \in T : t >= end}
           lo == Max(before)
           hi == Min(after)
<1>0. MaxTime \in Nat /\ \A t \in T : t \in Nat
  BY NumbersAssumption
<1>1. before \subseteq 0..MaxTime /\ before # {} /\ after \subseteq Nat /\ after # {}
  BY <1>0
<1>2. lo \in before /\ \A t \in before : t <= lo
  BY <1>1, GreatestOf, NumbersAssumption
<1>3. hi \in after /\ \A t \in after : hi <= t
  BY <1>1, LeastOf
<1>4. _bracketing_sequence(T, start, end)
        = {lo} \union {t \in T : start < t /\ t < end} \union {hi}
  BY <1>1 DEF _bracketing_sequence
<1> HIDE DEF lo, hi
<1>5. {lo} \union {t \in T : start < t /\ t < end} \union {hi} = {t \in T : lo <= t /\ t <= hi}
  <2>1. lo \in T /\ hi \in T /\ lo <= start /\ hi >= end /\ lo \in Nat /\ hi \in Nat
    BY <1>1, <1>2, <1>3
  <2>2. \A t \in T : t \in Nat
    BY <1>0
  <2>3. \A t \in T : (t <= start => t <= lo) /\ (t >= end => hi <= t)
    BY <1>2, <1>3
  <2>4. \A t \in T : lo <= t /\ t <= hi =>
           t \in {lo} \union {x \in T : start < x /\ x < end} \union {hi}
    <3> TAKE t \in T
    <3>1. t \in Nat /\ (t <= start => t <= lo) /\ (t >= end => hi <= t)
      BY <2>2, <2>3
    <3>2. lo <= t /\ t <= hi => t = lo \/ t = hi \/ (start < t /\ t < end)
      BY <2>1, <3>1
    <3> QED
      BY <3>2
  <2>5. \A t \in {lo} \union {x \in T : start < x /\ x < end} \union {hi} :
           t \in T /\ lo <= t /\ t <= hi
    <3> TAKE t \in {lo} \union {x \in T : start < x /\ x < end} \union {hi}
    <3>1. t \in T /\ (t = lo \/ t = hi \/ (start < t /\ t < end))
      BY <2>1
    <3>2. t \in Nat /\ lo <= hi
      BY <2>1, <2>2, <3>1
    <3> QED
      BY <2>1, <3>1, <3>2
  <2> QED
    BY <2>4, <2>5
<1> QED
  BY <1>2, <1>3, <1>4, <1>5 DEF Brackets

\* A window is covered by the sequence's measure when each of its moments lies between two
\* samples that are close enough, said without the sequence.
LEMMA CoverageExact ==
  ASSUME NEW T, T \subseteq 0..MaxTime, NEW start \in Nat, NEW end \in Nat, start < end
  PROVE  LET B == _bracketing_sequence(T, start, end)
         IN  B # {} /\ LargestGap(B) <= MaxGap
               <=> \A t \in start..end : \E a, b \in T : a <= t /\ t <= b /\ b - a <= MaxGap
<1> DEFINE B == _bracketing_sequence(T, start, end)
           Close(t) == \E a, b \in T : a <= t /\ t <= b /\ b - a <= MaxGap
<1>0. MaxGap \in Nat \ {0} /\ MaxTime \in Nat /\ \A t \in T : t \in Nat
  BY NumbersAssumption
<1> SUFFICES B # {} /\ LargestGap(B) <= MaxGap <=> \A t \in start..end : Close(t)
  OBVIOUS
<1>1. CASE ~(\E t \in T : t <= start) \/ ~(\E t \in T : t >= end)
  <2>1. B = {}
    BY <1>1 DEF _bracketing_sequence
  <2>2. start \in start..end /\ end \in start..end
    OBVIOUS
  <2>3. ~Close(start) \/ ~Close(end)
    BY <1>0, <1>1
  <2> QED
    BY <2>1, <2>2, <2>3
<1>2. CASE (\E t \in T : t <= start) /\ (\E t \in T : t >= end)
  <2>0. PICK lo \in T, hi \in T : Brackets(lo, hi, T, start, end)
    <3>1. /\ \E t \in T : t <= start
          /\ \E t \in T : t >= end
      BY <1>2
    <3> QED
      BY <3>1, Bracketing
  <2>1. /\ lo <= start /\ hi >= end
        /\ \A t \in T : t <= start => t <= lo
        /\ \A t \in T : t >= end => hi <= t
        /\ B = {t \in T : lo <= t /\ t <= hi}
    BY <2>0 DEF Brackets
  <2> HIDE DEF B
  <2>2. B \subseteq 0..MaxTime /\ B # {} /\ lo \in B /\ hi \in B
    <3>1. lo \in Nat /\ hi \in Nat /\ lo <= hi
      BY <1>0, <2>1
    <3>2. lo \in B /\ hi \in B
      BY <2>1, <3>1
    <3>3. B \subseteq T
      BY <2>1
    <3> QED
      BY <3>2, <3>3
  <2>3. ASSUME LargestGap(B) <= MaxGap, NEW t \in start..end
        PROVE  Close(t)
    <3> DEFINE U == {x \in B : x <= t}
               V == {x \in B : x >= t}
               a == Max(U)
               b == Min(V)
    <3>1. U \subseteq 0..MaxTime /\ U # {} /\ V \subseteq Nat /\ V # {}
      BY <1>0, <2>1, <2>2
    <3>2. a \in U /\ (\A x \in U : x <= a) /\ b \in V /\ (\A x \in V : b <= x)
      BY <1>0, <3>1, GreatestOf, LeastOf
    <3> HIDE DEF a, b
    <3>0. \A p \in Adjacent(B) : p[2] - p[1] <= MaxGap
      BY <2>2, <2>3, GapWithin
    <3>3. a \in T /\ b \in T /\ a \in Nat /\ b \in Nat /\ a <= t /\ t <= b
      BY <1>0, <2>1, <3>2
    <3>4. CASE a = b
      BY <1>0, <3>3, <3>4
    <3>5. CASE a # b
      <4>1. <<a, b>> \in Adjacent(B)
        <5>1. a \in B /\ b \in B /\ a < b
          BY <3>2, <3>3, <3>5
        <5>2. \A x \in B : x <= a \/ b <= x
          BY <1>0, <2>1, <3>2, <3>3
        <5> QED
          BY <5>1, <5>2 DEF Adjacent
      <4>2. b - a <= MaxGap
        BY <3>0, <4>1
      <4> QED
        BY <3>3, <4>2
    <3> QED
      BY <3>4, <3>5
  <2>4. ASSUME \A t \in start..end : Close(t)
        PROVE  LargestGap(B) <= MaxGap
    <3>1. SUFFICES ASSUME NEW p \in Adjacent(B) PROVE p[2] - p[1] <= MaxGap
      BY <2>2, GapWithin
    <3>2. PICK x \in B, y \in B : p = <<x, y>> /\ x < y /\ \A z \in B : z <= x \/ y <= z
      BY DEF Adjacent
    <3>3. x \in T /\ y \in T /\ x \in Nat /\ y \in Nat /\ lo <= x /\ x <= hi /\ lo <= y /\ y <= hi
          /\ lo \in Nat /\ hi \in Nat
      BY <1>0, <2>1, <3>2
    <3>4. CASE y = x + 1
      BY <1>0, <3>2, <3>3, <3>4
    <3>5. CASE y # x + 1
      <4>1. PICK t \in start..end : x < t /\ t < y
        <5>1. CASE x >= start
          <6>1. x < end
            BY <2>1, <3>2, <3>3
          <6>2. x + 1 \in start..end /\ x < x + 1 /\ x + 1 < y
            BY <3>2, <3>3, <3>5, <5>1, <6>1
          <6> QED
            BY <6>2
        <5>2. CASE x < start
          <6>1. y > start
            BY <2>1, <3>2, <3>3
          <6>2. start \in start..end
            OBVIOUS
          <6> QED
            BY <5>2, <6>1, <6>2
        <5> QED
          BY <3>3, <5>1, <5>2
      <4>2. PICK a \in T, b \in T : a <= t /\ t <= b /\ b - a <= MaxGap
        BY <2>4, <4>1
      <4>3. t \in Nat /\ a \in Nat /\ b \in Nat
        BY <1>0
      <4>4. a <= x
        BY <2>1, <3>2, <3>3, <4>1, <4>2, <4>3
      <4>5. y <= b
        BY <2>1, <3>2, <3>3, <4>1, <4>2, <4>3
      <4> QED
        BY <1>0, <3>2, <3>3, <4>2, <4>3, <4>4, <4>5
    <3> QED
      BY <3>4, <3>5
  <2> QED
    BY <2>2, <2>3, <2>4
<1> QED
  BY <1>1, <1>2

-----------------------------------------------------------------------------
(* The invariant                                                           *)

AtWork == client \in {"running", "measured", "saved"}

\* A client that measures has a point of the plan, and a boundary once it has recorded it.
ClientInv ==
    /\ plan \in Seq(STRING) /\ point \in Nat \ {0}
    /\ AtWork => /\ point <= Len(plan)
                 /\ begin \in [clock: Nat, elapsed: Nat]
    /\ client \in {"idle", "running"} => boundary = None
    /\ client \in {"measured", "saved"} =>
         /\ boundary \in [start: Nat, end: Nat, duration: Nat \ {0}]
         /\ [concurrency |-> Stem, at |-> boundary] \in recorded

\* Without a clock that was set back no sample is older than the run.
SampleInv ==
    /\ IsFiniteSet(samples)
    /\ ~setback => clock >= Start /\ \A r \in samples : r.time >= Start

\* A completed window is of an earlier attempt or was recorded.
RecordedAs(w) ==
    \E b \in recorded : /\ b.concurrency = w.concurrency
                        /\ b.at = [start |-> w.start, end |-> w.end, duration |-> w.duration]

FileInv ==
    /\ IsFiniteSet(DOMAIN files)
    /\ \A n \in DOMAIN files :
          files[n].status = "completed" /\ files[n].start >= Start => RecordedAs(files[n])

\* The files of _scan so far, and what it must have made of them.
Scanned == DOMAIN files \ pending
ClaimedOnce(c) == \E n \in Scanned : Claims(n, c) /\ \A m \in Scanned : Claims(m, c) => m = n
ClaimedAgain(c) == \E m, n \in Scanned : m # n /\ Claims(m, c) /\ Claims(n, c)

ScanInv ==
    /\ \A c : c \in DOMAIN parsed <=> ClaimedOnce(c)
    /\ \A c \in DOMAIN parsed : \E n \in Scanned : Claims(n, c) /\ parsed[c] = files[n]
    /\ \A c : c \in duplicates <=> ClaimedAgain(c)
    /\ errors <=> \/ \E n \in Scanned : ~Parsable(files[n])
                  \/ \E c : ClaimedAgain(c)

\* When the benchmark was reaped nobody writes the files any more.
AuditInv ==
    /\ phase \in {"measure", "convert"} =>
         DOMAIN parsed = {} /\ duplicates = {} /\ ~errors /\ pending = {}
    /\ phase = "measure" => ~reaped
    /\ reaped => client = "dead" \/ ~(point <= Len(plan))
    /\ phase \in {"judge", "done"} => pending = {}
    /\ phase \in {"scan", "judge", "done"} /\ reaped => ScanInv
    /\ published => phase = "done"
    /\ phase = "done" => (published <=> Sound)

IInv == TypeOK /\ ClientInv /\ SampleInv /\ FileInv /\ AuditInv

-----------------------------------------------------------------------------
(* Scanning                                                                *)

\* One more file: claims of its key change, no other.
LEMMA ScanFileKeeps ==
  ASSUME TypeOK, ScanInv, NEW n \in pending,
         pending' = pending \ {n}, UNCHANGED files,
         IF Parsable(files[n]) THEN Claim(files[n].concurrency, files[n])
         ELSE errors' = TRUE /\ UNCHANGED <<parsed, duplicates>>
  PROVE  ScanInv'
<1>1. n \in DOMAIN files /\ n \notin Scanned /\ Scanned' = Scanned \union {n}
  BY DEF TypeOK, Scanned
<1>2. \A m, c : Claims(m, c)' <=> Claims(m, c)
  BY DEF Claims, Parsable, _status_invariants_hold
<1>3. \A m : Parsable(files'[m]) <=> Parsable(files[m])
  BY DEF Parsable, _status_invariants_hold
<1> DEFINE k == files[n].concurrency
<1>4. CASE ~Parsable(files[n])
  <2>1. \A c : ~Claims(n, c)
    BY <1>4 DEF Claims
  <2>2. \A c : ClaimedOnce(c)' <=> ClaimedOnce(c)
    BY <1>1, <1>2, <2>1 DEF ClaimedOnce
  <2>3. \A c : ClaimedAgain(c)' <=> ClaimedAgain(c)
    BY <1>1, <1>2, <2>1 DEF ClaimedAgain
  <2>4. errors' = TRUE /\ UNCHANGED <<parsed, duplicates>>
    BY <1>4
  <2> QED
    BY <1>1, <1>2, <1>3, <1>4, <2>2, <2>3, <2>4 DEF ScanInv
<1>5. CASE Parsable(files[n])
  <2>1. \A c : Claims(n, c) <=> c = k
    BY <1>5 DEF Claims
  <2>2. \A c : c # k => /\ ClaimedOnce(c)' <=> ClaimedOnce(c)
                        /\ ClaimedAgain(c)' <=> ClaimedAgain(c)
    BY <1>1, <1>2, <2>1 DEF ClaimedOnce, ClaimedAgain
  <2>3. ClaimedAgain(k)' <=> \E m \in Scanned : Claims(m, k)
    BY <1>1, <1>2, <2>1 DEF ClaimedAgain
  <2>4. ClaimedOnce(k)' <=> ~\E m \in Scanned : Claims(m, k)
    BY <1>1, <1>2, <2>1 DEF ClaimedOnce
  <2>5. (\E m \in Scanned : Claims(m, k)) <=> k \in duplicates \/ k \in DOMAIN parsed
    BY DEF ScanInv, ClaimedOnce, ClaimedAgain
  <2>6. Claim(k, files[n])
    BY <1>5
  <2>7. CASE k \in duplicates
    <3>1. errors' = TRUE /\ UNCHANGED <<parsed, duplicates>>
      BY <2>6, <2>7 DEF Claim
    <3>2. k \notin DOMAIN parsed
      BY <2>7 DEF ScanInv, ClaimedOnce, ClaimedAgain
    <3> QED
      BY <1>1, <1>2, <1>3, <2>2, <2>3, <2>4, <2>5, <2>7, <3>1, <3>2 DEF ScanInv
  <2>8. CASE k \notin duplicates /\ k \in DOMAIN parsed
    <3>1. parsed' = Without(parsed, k) /\ duplicates' = duplicates \union {k} /\ errors' = TRUE
      BY <2>6, <2>8 DEF Claim
    <3>2. /\ DOMAIN parsed' = DOMAIN parsed \ {k}
          /\ \A c \in DOMAIN parsed' : parsed'[c] = parsed[c]
      BY <3>1 DEF Without
    <3> QED
      BY <1>1, <1>2, <1>3, <2>2, <2>3, <2>4, <2>5, <2>8, <3>1, <3>2 DEF ScanInv
  <2>9. CASE k \notin duplicates /\ k \notin DOMAIN parsed
    <3>1. /\ parsed' = [c \in DOMAIN parsed \union {k} |-> IF c = k THEN files[n] ELSE parsed[c]]
          /\ UNCHANGED <<duplicates, errors>>
      BY <2>6, <2>9 DEF Claim
    <3>2. /\ DOMAIN parsed' = DOMAIN parsed \union {k}
          /\ parsed'[k] = files[n]
          /\ \A c \in DOMAIN parsed : parsed'[c] = parsed[c]
      BY <2>9, <3>1
    <3>3. ~ClaimedAgain(k)' /\ ~ClaimedAgain(k)
      BY <2>3, <2>5, <2>9 DEF ClaimedAgain
    <3> QED
      BY <1>1, <1>2, <1>3, <1>5, <2>1, <2>2, <2>3, <2>4, <2>5, <2>9, <3>1, <3>2, <3>3 DEF ScanInv
  <2> QED
    BY <2>7, <2>8, <2>9
<1> QED
  BY <1>4, <1>5

\* Before the first file.
LEMMA ScanBegins ==
  ASSUME DOMAIN parsed = {}, duplicates = {}, ~errors, Scanned = {}
  PROVE  ScanInv
BY DEF ScanInv, ClaimedOnce, ClaimedAgain

-----------------------------------------------------------------------------
(* The initial states                                                      *)

LEMMA ImageOf ==
  ASSUME NEW S, IsFiniteSet(S), NEW f, f = [x \in S |-> f[x]]
  PROVE  IsFiniteSet({f[x] : x \in S})
<1>1. f \in Surjection(S, {f[x] : x \in S})
  BY DEF Surjection
<1> QED
  BY <1>1, FS_Surjection

\* Nothing has been measured and what is there is older than the run.
LEMMA InitIInv == Init => IInv
<1> SUFFICES ASSUME Init PROVE IInv
  OBVIOUS
<1>0. PICK job \in Jobs :
        /\ placement = job.placement /\ plan = job.plan /\ files = job.files
  BY DEF Init
<1>1. /\ placement \subseteq Process /\ plan \in Seq(STRING) /\ IsFiniteSet(DOMAIN files)
      /\ \A n \in DOMAIN files : files[n] \in FileRecord(n) /\ files[n].start < Start
  BY <1>0, JobsAssumption
<1>2. \A n \in DOMAIN files : ~(files[n].start >= Start)
  <2> TAKE n \in DOMAIN files
  <2>1. files[n].start \in Nat
    BY <1>1 DEF FileRecord
  <2> QED
    BY <1>1, <2>1, NumbersAssumption
<1>3. TypeOK
  <2>1. clock \in 0..MaxTime /\ elapsed \in 0..MaxTime /\ faults \in 0..MaxFaults /\ seq \in Nat
    BY NumbersAssumption DEF Init
  <2>2. card \in [Devices -> Devices] /\ placement \in SUBSET Process
    BY <1>1 DEF Init
  <2>3. /\ samples \subseteq [seq: Nat, time: 0..MaxTime, device: Devices, uuid: Devices]
        /\ {collecting, torn, setback, reaped, errors, published} \subseteq BOOLEAN
        /\ client \in {"idle", "running", "measured", "saved", "dead"}
        /\ phase \in {"measure", "convert", "scan", "judge", "done"}
        /\ pending \subseteq DOMAIN files
    BY DEF Init
  <2> QED
    BY <1>1, <1>2, <2>1, <2>2, <2>3 DEF TypeOK
<1>4. ClientInv
  BY <1>1 DEF Init, ClientInv, AtWork
<1>5. SampleInv
  BY FS_EmptySet, NumbersAssumption DEF Init, SampleInv
<1>6. FileInv
  BY <1>1, <1>2 DEF FileInv
<1>7. AuditInv
  BY DEF Init, AuditInv
<1> QED
  BY <1>3, <1>4, <1>5, <1>6, <1>7 DEF IInv

-----------------------------------------------------------------------------
(* The world and the collector                                             *)

\* What a step leaves alone keeps its part of the invariant.
LEMMA ClientStays ==
  ASSUME ClientInv, UNCHANGED <<plan, measuring>>
  PROVE  ClientInv'
BY DEF ClientInv, AtWork, Stem, measuring

LEMMA FilesStay ==
  ASSUME FileInv, UNCHANGED <<files, recorded>>
  PROVE  FileInv'
BY DEF FileInv, RecordedAs

LEMMA SamplesStay ==
  ASSUME SampleInv, UNCHANGED <<world, samples>>
  PROVE  SampleInv'
BY DEF SampleInv, world

LEMMA NothingAudited ==
  ASSUME AuditInv, phase = "measure", UNCHANGED audit
  PROVE  AuditInv'
BY DEF AuditInv, audit

\* The rows of one scrape are typed, of now, and finitely many.
LEMMA RowsTyped ==
  ASSUME TypeOK, NEW bodies
  PROVE  /\ Rows(bodies) \subseteq [seq: {seq}, time: {clock}, device: Devices, uuid: Devices]
         /\ IsFiniteSet(Rows(bodies))
<1> DEFINE Row == [d \in Devices |-> [seq |-> seq, time |-> clock, device |-> d, uuid |-> card[d]]]
<1>1. Rows(bodies) \subseteq {Row[d] : d \in Devices}
  <2> SUFFICES ASSUME NEW r \in Rows(bodies) PROVE r \in {Row[d] : d \in Devices}
    OBVIOUS
  <2>1. PICK h \in Hosts, g \in Gpus :
          r = [seq |-> seq, time |-> clock, device |-> <<h, g>>, uuid |-> card[<<h, g>>]]
    BY DEF Rows, parse_power_scrape
  <2>2. <<h, g>> \in Devices
    BY DEF Devices
  <2> QED
    BY <2>1, <2>2
<1>2. IsFiniteSet({Row[d] : d \in Devices})
  <2>1. IsFiniteSet(Devices)
    BY SizesAssumption, FS_Product DEF Devices
  <2>2. Row = [d \in Devices |-> Row[d]]
    OBVIOUS
  <2> HIDE DEF Row
  <2> QED
    BY <2>1, <2>2, ImageOf
<1>3. {Row[d] : d \in Devices} \subseteq [seq: {seq}, time: {clock}, device: Devices, uuid: Devices]
  BY DEF TypeOK
<1> QED
  BY <1>1, <1>2, <1>3, FS_Subset

\* More rows of now.
LEMMA RowsAdded ==
  ASSUME TypeOK, SampleInv, NEW bodies, NEW rows \in SUBSET Rows(bodies),
         samples' = samples \union rows, UNCHANGED <<clock, setback>>
  PROVE  /\ samples' \subseteq [seq: Nat, time: 0..MaxTime, device: Devices, uuid: Devices]
         /\ SampleInv'
<1>1. rows \subseteq [seq: {seq}, time: {clock}, device: Devices, uuid: Devices] /\ IsFiniteSet(rows)
  BY RowsTyped, FS_Subset
<1>2. seq \in Nat /\ clock \in 0..MaxTime
      /\ samples \subseteq [seq: Nat, time: 0..MaxTime, device: Devices, uuid: Devices]
  BY DEF TypeOK
<1>3. rows \subseteq [seq: Nat, time: 0..MaxTime, device: Devices, uuid: Devices]
  BY <1>1, <1>2
<1>4. IsFiniteSet(samples')
  BY <1>1, FS_Union DEF SampleInv
<1>5. ~setback' => clock' >= Start /\ \A r \in samples' : r.time >= Start
  <2> SUFFICES ASSUME ~setback, NEW r \in samples \union rows PROVE clock >= Start /\ r.time >= Start
    BY DEF SampleInv
  <2>1. CASE r \in samples
    BY <2>1 DEF SampleInv
  <2>2. CASE r \in rows
    BY <1>1, <2>2 DEF SampleInv
  <2> QED
    BY <2>1, <2>2
<1> QED
  BY <1>2, <1>3, <1>4, <1>5 DEF SampleInv

LEMMA WorldKeeps ==
  ASSUME IInv, Tick \/ SetClock \/ SwapCards \/ Scrape \/ ScrapeTorn
  PROVE  IInv'
<1> USE NumbersAssumption
<1>1. TypeOK /\ ClientInv /\ SampleInv /\ FileInv /\ AuditInv
  BY DEF IInv
<1>2. phase = "measure" /\ UNCHANGED <<placement, plan, measuring, files, results, audit>>
  BY DEF Tick, SetClock, SwapCards, Scrape, ScrapeTorn
<1>3. ClientInv' /\ FileInv' /\ AuditInv'
  BY <1>1, <1>2, ClientStays, FilesStay, NothingAudited DEF measuring
<1>4. ASSUME /\ clock' \in 0..MaxTime /\ elapsed' \in 0..MaxTime /\ faults' \in 0..MaxFaults
             /\ card' \in [Devices -> Devices] /\ seq' \in Nat
             /\ samples' \subseteq [seq: Nat, time: 0..MaxTime, device: Devices, uuid: Devices]
             /\ {collecting', torn', setback'} \subseteq BOOLEAN
      PROVE  TypeOK'
  BY <1>1, <1>2, <1>4 DEF TypeOK, measuring, audit
<1>5. CASE Tick
  <2>1. TypeOK'
    BY <1>1, <1>4, <1>5 DEF Tick, TypeOK, collected
  <2>2. SampleInv'
    BY <1>1, <1>5 DEF Tick, SampleInv, TypeOK, collected
  <2> QED
    BY <1>3, <2>1, <2>2 DEF IInv
<1>6. CASE SetClock
  <2>1. TypeOK'
    BY <1>1, <1>4, <1>6 DEF SetClock, TypeOK, collected
  <2>2. SampleInv'
    <3>1. clock' \in 0..MaxTime /\ clock \in 0..MaxTime /\ UNCHANGED samples
      BY <1>1, <1>6 DEF SetClock, TypeOK, collected
    <3>2. ~setback' => ~setback /\ ~(clock' < clock)
      BY <1>6, Zenon DEF SetClock
    <3>3. ~setback' => clock' >= Start
      BY <1>1, <3>1, <3>2 DEF SampleInv
    <3> QED
      BY <1>1, <3>1, <3>2, <3>3 DEF SampleInv
  <2> QED
    BY <1>3, <2>1, <2>2 DEF IInv
<1>7. CASE SwapCards
  <2>1. card' \in [Devices -> Devices]
    BY <1>1, <1>7 DEF SwapCards, TypeOK, Devices
  <2>2. TypeOK'
    BY <1>1, <1>4, <1>7, <2>1 DEF SwapCards, TypeOK, collected
  <2>3. SampleInv'
    BY <1>1, <1>7 DEF SwapCards, SampleInv, collected
  <2> QED
    BY <1>3, <2>2, <2>3 DEF IInv
<1>8. CASE Scrape
  <2>1. PICK bodies \in [Hosts -> Bodies] :
          LET bad == {h \in Hosts : ~Healthy(bodies[h])} IN
          /\ faults + Cardinality(bad) <= MaxFaults
          /\ faults' = faults + Cardinality(bad)
          /\ samples' = samples \union Rows(bodies)
    BY <1>8 DEF Scrape
  <2>2. Cardinality({h \in Hosts : ~Healthy(bodies[h])}) \in Nat
    <3>1. IsFiniteSet({h \in Hosts : ~Healthy(bodies[h])})
      BY SizesAssumption, FS_Subset
    <3> QED
      BY <3>1, FS_CardinalityType
  <2>3. /\ samples' \subseteq [seq: Nat, time: 0..MaxTime, device: Devices, uuid: Devices]
        /\ SampleInv'
    BY <1>1, <1>8, <2>1, RowsAdded DEF Scrape
  <2>4. faults' \in 0..MaxFaults
    BY <1>1, <2>1, <2>2 DEF TypeOK
  <2>5. TypeOK'
    BY <1>1, <1>4, <1>8, <2>3, <2>4 DEF Scrape, TypeOK
  <2> QED
    BY <1>3, <2>3, <2>5 DEF IInv
<1>9. CASE ScrapeTorn
  <2>1. PICK rows \in SUBSET Rows([h \in Hosts |-> [g \in Gpus |-> 1]]) : samples' = samples \union rows
    BY <1>9 DEF ScrapeTorn
  <2>2. /\ samples' \subseteq [seq: Nat, time: 0..MaxTime, device: Devices, uuid: Devices]
        /\ SampleInv'
    BY <1>1, <1>9, <2>1, RowsAdded DEF ScrapeTorn
  <2>3. TypeOK'
    <3>1. collecting' = FALSE /\ torn' \in BOOLEAN /\ UNCHANGED setback
      BY <1>9 DEF ScrapeTorn
    <3>2. {collecting', torn', setback'} \subseteq BOOLEAN
      BY <1>1, <3>1 DEF TypeOK
    <3>3. /\ clock' \in 0..MaxTime /\ elapsed' \in 0..MaxTime /\ faults' \in 0..MaxFaults
          /\ card' \in [Devices -> Devices] /\ seq' \in Nat
      BY <1>1, <1>9 DEF ScrapeTorn, TypeOK
    <3> QED
      BY <1>4, <2>2, <3>2, <3>3
  <2> QED
    BY <1>3, <2>2, <2>3 DEF IInv
<1> QED
  BY <1>5, <1>6, <1>7, <1>8, <1>9

-----------------------------------------------------------------------------
(* The benchmark client                                                    *)

\* The part of TypeOK that is about files.
FilesTyped ==
    /\ pending \subseteq DOMAIN files
    /\ \A n \in DOMAIN files : /\ files[n] \in FileRecord(n)
                               /\ files[n].start >= Start => Parsable(files[n])

\* The client writes only while it lives, which it does not when it was reaped.
LEMMA NotReaped ==
  ASSUME AuditInv, ClientInv, AtWork \/ (client = "idle" /\ point <= Len(plan))
  PROVE  ~reaped
BY DEF AuditInv, ClientInv, AtWork

\* Nothing is promised of the audit of a benchmark that was not reaped.
LEMMA AuditOfSurvivor ==
  ASSUME AuditInv, ~reaped, UNCHANGED audit
  PROVE  AuditInv'
<1>1. ~reaped' /\ ~Sound /\ ~Sound'
  BY DEF audit, Sound
<1> QED
  BY <1>1 DEF AuditInv, audit

LEMMA StemTyped ==
  ASSUME ClientInv, point <= Len(plan)
  PROVE  Stem \in STRING
BY DEF ClientInv, Stem

\* One window file is written.
LEMMA WrittenKeeps ==
  ASSUME FilesTyped, FileInv, NEW status, NEW b, NEW reason,
         WindowFile(Stem, Stem, status, b, reason) \in FileRecord(Stem),
         Parsable(WindowFile(Stem, Stem, status, b, reason)),
         status = "completed" =>
           RecordedAs(WindowFile(Stem, Stem, status, b, reason)),
         files' = Written(status, b, reason), UNCHANGED <<pending, recorded>>
  PROVE  FilesTyped' /\ FileInv'
<1>1. PICK w, stem : w = WindowFile(Stem, Stem, status, b, reason) /\ stem = Stem
  OBVIOUS
<1>2. /\ w \in FileRecord(stem) /\ Parsable(w) /\ w.status = status
      /\ w.status = "completed" => RecordedAs(w)
  BY <1>1 DEF WindowFile
<1>3. /\ DOMAIN files' = DOMAIN files \union {stem}
      /\ \A n \in DOMAIN files' : files'[n] = IF n = stem THEN w ELSE files[n]
  BY <1>1 DEF Written
<1>4. FilesTyped'
  <2>1. pending' \subseteq DOMAIN files'
    BY <1>3 DEF FilesTyped
  <2>2. \A n \in DOMAIN files' : /\ files'[n] \in FileRecord(n)
                                 /\ files'[n].start >= Start => Parsable(files'[n])
    BY <1>2, <1>3 DEF FilesTyped
  <2> QED
    BY <2>1, <2>2 DEF FilesTyped, Parsable, _status_invariants_hold
<1>5. FileInv'
  <2>1. IsFiniteSet(DOMAIN files')
    BY <1>3, FS_AddElement DEF FileInv
  <2>2. \A n \in DOMAIN files' :
          files'[n].status = "completed" /\ files'[n].start >= Start => RecordedAs(files'[n])
    BY <1>2, <1>3 DEF FileInv
  <2> QED
    BY <2>1, <2>2 DEF FileInv, RecordedAs
<1> QED
  BY <1>4, <1>5

\* What the client does leaves the rest of TypeOK to the frame.
LEMMA ClientTypes ==
  ASSUME TypeOK, UNCHANGED <<clock, elapsed, card, setback, placement, plan, collected, audit>>,
         faults' \in 0..MaxFaults, FilesTyped',
         client' \in {"idle", "running", "measured", "saved", "dead"}
  PROVE  TypeOK'
BY DEF TypeOK, FilesTyped, collected, audit

LEMMA ClientKeeps ==
  ASSUME IInv,
         MarkRunning \/ RecordBoundary \/ SaveResult \/ MarkCompleted \/ FailAtRecordedBoundary
  PROVE  IInv'
<1> USE NumbersAssumption, NoneAssumption
<1>1. TypeOK /\ ClientInv /\ SampleInv /\ FileInv /\ AuditInv /\ FilesTyped
  BY DEF IInv, TypeOK, FilesTyped
<1>2. AtWork \/ (client = "idle" /\ point <= Len(plan))
  BY DEF MarkRunning, RecordBoundary, SaveResult, MarkCompleted, FailAtRecordedBoundary, AtWork
<1>3. /\ point <= Len(plan) /\ Stem \in STRING /\ ~reaped
      /\ clock \in Nat /\ elapsed \in Nat /\ plan \in Seq(STRING) /\ point \in Nat \ {0}
  <2>1. point <= Len(plan) /\ clock \in Nat /\ elapsed \in Nat
    BY <1>1, <1>2 DEF ClientInv, TypeOK
  <2> QED
    BY <1>1, <1>2, <2>1, NotReaped, StemTyped DEF ClientInv
<1>4. UNCHANGED <<clock, elapsed, card, setback, placement, plan, collected, audit>>
  BY DEF MarkRunning, RecordBoundary, SaveResult, MarkCompleted, FailAtRecordedBoundary,
         clientFrame, world
<1>5. AuditInv' /\ SampleInv'
  BY <1>1, <1>3, <1>4, AuditOfSurvivor DEF SampleInv, collected
<1>6. ASSUME faults' \in 0..MaxFaults, FilesTyped', FileInv', ClientInv',
             client' \in {"idle", "running", "measured", "saved", "dead"}
      PROVE  IInv'
  BY <1>1, <1>4, <1>5, <1>6, ClientTypes DEF IInv
<1>7. CASE MarkRunning
  <2> DEFINE b == [start |-> clock, end |-> None, duration |-> None]
  <2>1. /\ WindowFile(Stem, Stem, "running", b, FALSE) \in FileRecord(Stem)
        /\ Parsable(WindowFile(Stem, Stem, "running", b, FALSE))
    BY <1>3 DEF WindowFile, FileRecord, Parsable, _status_invariants_hold
  <2>2. files' = Written("running", b, FALSE) /\ UNCHANGED <<pending, recorded>>
    BY <1>7 DEF MarkRunning, clientFrame, audit
  <2>3. FilesTyped' /\ FileInv'
    <3> HIDE DEF b
    <3> QED
      BY <1>1, <2>1, <2>2, WrittenKeeps
  <2>4. ClientInv'
    BY <1>1, <1>3, <1>4, <1>7 DEF MarkRunning, ClientInv, AtWork
  <2> QED
    BY <1>1, <1>6, <1>7, <2>3, <2>4 DEF MarkRunning, TypeOK, clientFrame, world
<1>8. CASE RecordBoundary
  <2>1. begin.elapsed \in Nat /\ begin.clock \in Nat
    BY <1>1, <1>8 DEF RecordBoundary, ClientInv, AtWork
  <2>2. boundary' \in [start: Nat, end: Nat, duration: Nat \ {0}]
    BY <1>3, <1>8, <2>1 DEF RecordBoundary
  <2>3. [concurrency |-> Stem, at |-> boundary'] \in recorded' /\ recorded \subseteq recorded'
    BY <1>8 DEF RecordBoundary
  <2>4. Stem' = Stem
    BY <1>4, <1>8 DEF RecordBoundary, Stem
  <2>5. ClientInv'
    BY <1>1, <1>3, <1>4, <1>8, <2>2, <2>3, <2>4 DEF RecordBoundary, ClientInv, AtWork
  <2>6. FileInv'
    BY <1>1, <1>8, <2>3 DEF RecordBoundary, FileInv, RecordedAs
  <2>7. FilesTyped'
    BY <1>1, <1>8 DEF RecordBoundary, FilesTyped, Parsable, _status_invariants_hold, clientFrame, audit
  <2> QED
    BY <1>1, <1>6, <1>8, <2>5, <2>6, <2>7 DEF RecordBoundary, TypeOK, clientFrame, world
<1>9. CASE SaveResult
  <2>1. ClientInv'
    BY <1>1, <1>4, <1>9 DEF SaveResult, ClientInv, AtWork, Stem
  <2>2. FileInv'
    BY <1>1, <1>9 DEF SaveResult, FileInv, RecordedAs
  <2>3. FilesTyped'
    BY <1>1, <1>9 DEF SaveResult, FilesTyped, Parsable, _status_invariants_hold, clientFrame, audit
  <2> QED
    BY <1>1, <1>6, <1>9, <2>1, <2>2, <2>3 DEF SaveResult, TypeOK, clientFrame, world
<1>10. CASE MarkCompleted
  <2>1. /\ boundary \in [start: Nat, end: Nat, duration: Nat \ {0}]
        /\ [concurrency |-> Stem, at |-> boundary] \in recorded
    BY <1>1, <1>10 DEF MarkCompleted, ClientInv
  <2>2. /\ WindowFile(Stem, Stem, "completed", boundary, FALSE) \in FileRecord(Stem)
        /\ Parsable(WindowFile(Stem, Stem, "completed", boundary, FALSE))
    BY <1>3, <2>1 DEF WindowFile, FileRecord, Parsable, _status_invariants_hold
  <2>3. RecordedAs(WindowFile(Stem, Stem, "completed", boundary, FALSE))
    BY <2>1 DEF WindowFile, RecordedAs
  <2>4. files' = Written("completed", boundary, FALSE) /\ UNCHANGED <<pending, recorded>>
    BY <1>10 DEF MarkCompleted, clientFrame, audit
  <2>5. FilesTyped' /\ FileInv'
    BY <1>1, <2>2, <2>3, <2>4, WrittenKeeps
  <2>6. ClientInv'
    BY <1>3, <1>4, <1>10 DEF MarkCompleted, ClientInv, AtWork
  <2> QED
    BY <1>1, <1>6, <1>10, <2>5, <2>6 DEF MarkCompleted, TypeOK, clientFrame, world
<1>11. CASE FailAtRecordedBoundary
  <2>0. UNCHANGED <<pending, recorded, point, begin, boundary>>
    BY <1>11 DEF FailAtRecordedBoundary, audit
  <2>1. FilesTyped' /\ FileInv'
    <3>1. CASE boundary = None
      BY <1>1, <1>11, <2>0, <3>1
      DEF FailAtRecordedBoundary, FilesTyped, FileInv, RecordedAs, Parsable, _status_invariants_hold
    <3>2. CASE boundary # None
      <4>1. boundary \in [start: Nat, end: Nat, duration: Nat \ {0}]
        BY <1>1, <1>11, <3>2 DEF FailAtRecordedBoundary, ClientInv
      <4>2. /\ WindowFile(Stem, Stem, "failed", boundary, TRUE) \in FileRecord(Stem)
            /\ Parsable(WindowFile(Stem, Stem, "failed", boundary, TRUE))
        BY <1>3, <4>1 DEF WindowFile, FileRecord, Parsable, _status_invariants_hold
      <4>3. files' = Written("failed", boundary, TRUE)
        BY <1>11, <3>2 DEF FailAtRecordedBoundary
      <4> QED
        BY <1>1, <2>0, <4>2, <4>3, WrittenKeeps
    <3> QED
      BY <3>1, <3>2
  <2>2. ClientInv'
    BY <1>1, <1>4, <1>11, <2>0 DEF FailAtRecordedBoundary, ClientInv, AtWork
  <2>3. faults' \in 0..MaxFaults /\ client' = "dead"
    BY <1>1, <1>11 DEF FailAtRecordedBoundary, TypeOK
  <2> QED
    BY <1>6, <2>1, <2>2, <2>3
<1> QED
  BY <1>7, <1>8, <1>9, <1>10, <1>11

-----------------------------------------------------------------------------
(* What each part of the verdict says                                      *)

LEMMA ExpectedDevices ==
  ASSUME TypeOK
  PROVE  build_expected_devices = UNION {{p.node} \X p.gpus : p \in placement}
<1>1. \A p \in placement : p.node \in Hosts /\ p.gpus \subseteq Gpus
  BY DEF TypeOK, Process
<1>2. ASSUME NEW d \in build_expected_devices
      PROVE  d \in UNION {{p.node} \X p.gpus : p \in placement}
  <2>1. PICK p \in placement : p.node = d[1] /\ d[2] \in p.gpus
    BY DEF build_expected_devices
  <2>2. d = <<d[1], d[2]>>
    BY DEF build_expected_devices, Devices
  <2>3. d \in {p.node} \X p.gpus
    BY <2>1, <2>2
  <2> QED
    BY <2>3
<1>3. ASSUME NEW p \in placement, NEW d \in {p.node} \X p.gpus
      PROVE  d \in build_expected_devices
  <2>1. d = <<d[1], d[2]>> /\ d[1] = p.node /\ d[2] \in p.gpus
    OBVIOUS
  <2>2. d \in Devices
    BY <1>1, <2>1 DEF Devices
  <2> QED
    BY <2>1, <2>2 DEF build_expected_devices
<1> QED
  BY <1>2, <1>3

LEMMA UuidsFinite ==
  ASSUME SampleInv, NEW d
  PROVE  IsFiniteSet(Uuids(d))
<1> DEFINE R == RowsOf(d)
           f == [r \in R |-> r.uuid]
<1>1. IsFiniteSet(R)
  BY FS_Subset DEF SampleInv, RowsOf
<1>2. f = [r \in R |-> f[r]] /\ Uuids(d) = {f[r] : r \in R}
  BY DEF Uuids
<1> HIDE DEF R, f
<1> QED
  BY <1>1, <1>2, ImageOf

\* One UUID per device and one device per UUID.
LEMMA UuidsExact ==
  ASSUME SampleInv
  PROVE  /\ \A d \in Observed : Cardinality(Uuids(d)) = 1
         /\ \A d, e \in Observed : d # e => Uuids(d) # Uuids(e)
         <=> \A r, s \in samples : r.device = s.device <=> r.uuid = s.uuid
<1>1. \A d : Cardinality(Uuids(d)) = 1 <=> \E u : Uuids(d) = {u}
  BY UuidsFinite, FS_Singleton
<1>2. \A r \in samples : r.device \in Observed /\ r.uuid \in Uuids(r.device)
  BY DEF Observed, Uuids, RowsOf
<1>3. ASSUME \A d \in Observed : Cardinality(Uuids(d)) = 1,
             \A d, e \in Observed : d # e => Uuids(d) # Uuids(e),
             NEW r \in samples, NEW s \in samples
      PROVE  r.device = s.device <=> r.uuid = s.uuid
  <2>1. Uuids(r.device) = {r.uuid} /\ Uuids(s.device) = {s.uuid}
    BY <1>1, <1>2, <1>3
  <2> QED
    BY <1>2, <1>3, <2>1
<1>4. ASSUME \A r, s \in samples : r.device = s.device <=> r.uuid = s.uuid,
             NEW d \in Observed
      PROVE  Cardinality(Uuids(d)) = 1
  <2>1. PICK r \in samples : r.device = d
    BY DEF Observed
  <2>2. Uuids(d) = {r.uuid}
    BY <1>4, <2>1 DEF Uuids, RowsOf
  <2> QED
    BY <1>1, <2>2
<1>5. ASSUME \A r, s \in samples : r.device = s.device <=> r.uuid = s.uuid,
             NEW d \in Observed, NEW e \in Observed, d # e
      PROVE  Uuids(d) # Uuids(e)
  <2>1. PICK r \in samples : r.device = d
    BY DEF Observed
  <2>2. r.uuid \in Uuids(d) /\ r.uuid \notin Uuids(e)
    BY <1>5, <2>1 DEF Uuids, RowsOf
  <2> QED
    BY <2>2
<1> QED
  BY <1>3, <1>4, <1>5

LEMMA RolesExact ==
  ASSUME TypeOK
  PROVE  OneRole /\ OneHetGroup
         <=> \A p, q \in placement : p.node = q.node =>
               /\ p.gpus \intersect q.gpus # {} => p.role = q.role
               /\ p.gpus # {} /\ q.gpus # {} => p.het = q.het
<1>1. \A p \in placement : \A g \in p.gpus :
         /\ <<p.node, g>> \in build_expected_devices
         /\ p \in Assigned(<<p.node, g>>)
  BY DEF TypeOK, Process, build_expected_devices, Devices, Assigned
<1>2. \A d \in build_expected_devices : \A p \in Assigned(d) :
         p \in placement /\ p.node = d[1] /\ d[2] \in p.gpus
  BY DEF Assigned
<1>3. ASSUME OneRole, OneHetGroup, NEW p \in placement, NEW q \in placement, p.node = q.node
      PROVE  /\ p.gpus \intersect q.gpus # {} => p.role = q.role
             /\ p.gpus # {} /\ q.gpus # {} => p.het = q.het
  <2>1. ASSUME NEW g \in p.gpus \intersect q.gpus PROVE p.role = q.role
    <3>1. PICK d \in build_expected_devices : p \in Assigned(d) /\ q \in Assigned(d)
      <4>1. g \in p.gpus /\ g \in q.gpus
        BY <2>1
      <4>2. /\ <<p.node, g>> \in build_expected_devices
            /\ p \in Assigned(<<p.node, g>>) /\ q \in Assigned(<<p.node, g>>)
        BY <1>1, <1>3, <4>1
      <4> QED
        BY <4>2
    <3> QED
      BY <1>3, <3>1 DEF OneRole
  <2>2. ASSUME NEW g \in p.gpus, NEW k \in q.gpus PROVE p.het = q.het
    <3>1. PICK d, e : d = <<p.node, g>> /\ e = <<q.node, k>>
      OBVIOUS
    <3>2. d \in build_expected_devices /\ e \in build_expected_devices
      BY <1>1, <3>1
    <3>3. p \in Assigned(d) /\ q \in Assigned(e)
      BY <1>1, <3>1
    <3>4. d[1] = e[1]
      BY <1>3, <3>1
    <3> QED
      BY <1>3, <3>2, <3>3, <3>4 DEF OneHetGroup
  <2> QED
    BY <2>1, <2>2
<1>4. ASSUME \A p, q \in placement : p.node = q.node =>
               /\ p.gpus \intersect q.gpus # {} => p.role = q.role
               /\ p.gpus # {} /\ q.gpus # {} => p.het = q.het
      PROVE  OneRole /\ OneHetGroup
  <2>1. OneRole
    BY <1>2, <1>4 DEF OneRole
  <2>2. OneHetGroup
    BY <1>2, <1>4 DEF OneHetGroup
  <2> QED
    BY <2>1, <2>2
<1> QED
  BY <1>3, <1>4

LEMMA OrderExact ==
  ASSUME TypeOK
  PROVE  ~NonMonotonic
         <=> \A r, s \in samples : r.device = s.device /\ r.seq < s.seq => r.time <= s.time
<1>1. \A r \in samples : r.time \in Int
  BY NumbersAssumption DEF TypeOK
<1> QED
  BY <1>1 DEF NonMonotonic

\* A completed window against its result and the rows of every device.
LEMMA WindowExact ==
  ASSUME TypeOK, NEW n \in DOMAIN files, Parsable(files[n]), files[n].status = "completed",
         \A d \in build_expected_devices : Cardinality(Uuids(d)) = 1
  PROVE  _check_result(files[n]) /\ _check_coverage(files[n]) <=> TrueWindow(n)
<1> USE NumbersAssumption, NoneAssumption
<1> DEFINE w == files[n]
<1>1. w.name = n /\ w.start \in Nat /\ w.end \in Nat /\ w.duration \in Nat
  BY DEF TypeOK, FileRecord, Parsable, _status_invariants_hold
<1>2. _check_result(w) <=> /\ n \in DOMAIN results
                           /\ results[n] = [start |-> w.start, end |-> w.end, duration |-> w.duration]
                           /\ w.start < w.end
                           /\ w.end - w.start - w.duration \in (-Tolerance)..Tolerance
  <2>1. w.end - w.start > 0 <=> w.start < w.end
    BY <1>1
  <2>2. Distance(w.end - w.start, w.duration) <= Tolerance
          <=> w.end - w.start - w.duration \in (-Tolerance)..Tolerance
    BY <1>1 DEF Distance
  <2> HIDE DEF w
  <2> QED
    BY <1>1, <2>1, <2>2 DEF _check_result
<1>3. ASSUME w.start < w.end, NEW d \in build_expected_devices
      PROVE  LET B == _bracketing_sequence({r.time : r \in RowsOf(d)}, w.start, w.end)
             IN  B # {} /\ LargestGap(B) <= MaxGap <=> \A t \in w.start..w.end : CoveredAt(d, t)
  <2> DEFINE T == {r.time : r \in RowsOf(d)}
  <2>1. T \subseteq 0..MaxTime
    BY DEF TypeOK, RowsOf
  <2>2. \A t : CoveredAt(d, t) <=> \E a, b \in T : a <= t /\ t <= b /\ b - a <= MaxGap
    BY DEF CoveredAt
  <2> HIDE DEF T, w
  <2>3. LET B == _bracketing_sequence(T, w.start, w.end)
        IN  B # {} /\ LargestGap(B) <= MaxGap
              <=> \A t \in w.start..w.end : \E a, b \in T : a <= t /\ t <= b /\ b - a <= MaxGap
    BY <1>1, <1>3, <2>1, CoverageExact
  <2>4. LET B == _bracketing_sequence(T, w.start, w.end)
        IN  B # {} /\ LargestGap(B) <= MaxGap <=> \A t \in w.start..w.end : CoveredAt(d, t)
    BY <2>2, <2>3
  <2> QED
    BY <2>4 DEF T
<1>4. w.start < w.end =>
        (_check_coverage(w) <=> \A d \in build_expected_devices, t \in w.start..w.end : CoveredAt(d, t))
  <2> HIDE DEF w
  <2> QED
    BY <1>3 DEF _check_coverage
<1> QED
  BY <1>2, <1>4 DEF TrueWindow

\* No file is bad or claimed twice and none is unplanned.
LEMMA FilesExact ==
  ASSUME ScanInv, pending = {}
  PROVE  ~errors /\ ~Unexpected
         <=> /\ \A n \in DOMAIN files : \E c \in Planned : Claims(n, c)
             /\ \A m, n \in DOMAIN files : files[m].concurrency = files[n].concurrency => m = n
<1>1. Scanned = DOMAIN files
  BY DEF Scanned
<1>2. ASSUME ~errors, ~Unexpected
      PROVE  /\ \A n \in DOMAIN files : \E c \in Planned : Claims(n, c)
             /\ \A m, n \in DOMAIN files : files[m].concurrency = files[n].concurrency => m = n
  <2>1. (\A n \in DOMAIN files : Parsable(files[n])) /\ \A c : ~ClaimedAgain(c)
    BY <1>1, <1>2 DEF ScanInv
  <2>2. \A m, n \in DOMAIN files : files[m].concurrency = files[n].concurrency => m = n
    BY <1>1, <2>1 DEF ClaimedAgain, Claims
  <2>3. ASSUME NEW n \in DOMAIN files PROVE \E c \in Planned : Claims(n, c)
    <3>1. Claims(n, files[n].concurrency)
      BY <2>1 DEF Claims
    <3>2. files[n].concurrency \in DOMAIN parsed
      BY <1>1, <2>2, <3>1 DEF ScanInv, ClaimedOnce, Claims
    <3> QED
      BY <1>2, <3>1, <3>2 DEF Unexpected, Planned
  <2> QED
    BY <2>2, <2>3
<1>3. ASSUME \A n \in DOMAIN files : \E c \in Planned : Claims(n, c),
             \A m, n \in DOMAIN files : files[m].concurrency = files[n].concurrency => m = n
      PROVE  ~errors /\ ~Unexpected
  <2>1. (\A n \in Scanned : Parsable(files[n])) /\ \A c : ~ClaimedAgain(c)
    BY <1>1, <1>3 DEF ClaimedAgain, Claims
  <2>2. ~errors
    BY <2>1 DEF ScanInv
  <2>3. ASSUME NEW c \in DOMAIN parsed PROVE c \in Planned
    BY <1>1, <1>3 DEF ScanInv, ClaimedOnce, Claims
  <2> QED
    BY <2>2, <2>3 DEF Unexpected, Planned
<1> QED
  BY <1>2, <1>3

\* The audit's windows are those that the plan asks for and that are true.
LEMMA WindowsExact ==
  ASSUME TypeOK, ScanInv, pending = {}, \A c : ~ClaimedAgain(c),
         \A d \in build_expected_devices : Cardinality(Uuids(d)) = 1
  PROVE  windows_valid
         <=> /\ plan # <<>>
             /\ \A c \in Planned : \E n \in DOMAIN files : Claims(n, c) /\ TrueWindow(n)
<1>1. Scanned = DOMAIN files
  BY DEF Scanned
<1>2. ASSUME NEW c
      PROVE  _validate_one(c) <=> \E n \in DOMAIN files : Claims(n, c) /\ TrueWindow(n)
  <2>1. ASSUME _validate_one(c)
        PROVE  \E n \in DOMAIN files : Claims(n, c) /\ TrueWindow(n)
    <3>1. PICK n \in DOMAIN files : Claims(n, c) /\ parsed[c] = files[n]
      BY <1>1, <2>1 DEF ScanInv, _validate_one
    <3>2. /\ Parsable(files[n]) /\ files[n].status = "completed"
          /\ _check_result(files[n]) /\ _check_coverage(files[n])
      BY <2>1, <3>1 DEF Claims, _validate_one
    <3> QED
      BY <3>1, <3>2, WindowExact
  <2>2. ASSUME NEW n \in DOMAIN files, Claims(n, c), TrueWindow(n)
        PROVE  _validate_one(c)
    <3>1. ClaimedOnce(c)
      BY <1>1, <2>2 DEF ClaimedOnce, ClaimedAgain
    <3>2. c \in DOMAIN parsed
      BY <3>1 DEF ScanInv
    <3>3. parsed[c] = files[n]
      BY <1>1, <2>2, <3>1, <3>2 DEF ScanInv, ClaimedOnce
    <3>4. Parsable(files[n]) /\ files[n].status = "completed"
      BY <2>2 DEF Claims, TrueWindow
    <3>5. _check_result(files[n]) /\ _check_coverage(files[n])
      BY <2>2, <3>4, WindowExact
    <3> QED
      BY <3>2, <3>3, <3>4, <3>5 DEF _validate_one
  <2> QED
    BY <2>1, <2>2
<1>3. (\A i \in DOMAIN plan : _validate_one(plan[i])) <=> \A c \in Planned : _validate_one(c)
  BY DEF Planned
<1> QED
  BY <1>2, <1>3 DEF windows_valid

\* Devices: the expected ones, each one GPU.
LEMMA DevicesExact ==
  ASSUME TypeOK, SampleInv
  PROVE  validate_devices
         <=> /\ Observed = UNION {{p.node} \X p.gpus : p \in placement} /\ Observed # {}
             /\ \A r, s \in samples : r.device = s.device <=> r.uuid = s.uuid
             /\ \A p, q \in placement : p.node = q.node =>
                  /\ p.gpus \intersect q.gpus # {} => p.role = q.role
                  /\ p.gpus # {} /\ q.gpus # {} => p.het = q.het
<1>1. build_expected_devices = UNION {{p.node} \X p.gpus : p \in placement}
  BY ExpectedDevices
<1>2. OneRole /\ OneHetGroup
      <=> \A p, q \in placement : p.node = q.node =>
            /\ p.gpus \intersect q.gpus # {} => p.role = q.role
            /\ p.gpus # {} /\ q.gpus # {} => p.het = q.het
  BY RolesExact
<1>3. /\ \A d \in Observed : Cardinality(Uuids(d)) = 1
      /\ \A d, e \in Observed : d # e => Uuids(d) # Uuids(e)
      <=> \A r, s \in samples : r.device = s.device <=> r.uuid = s.uuid
  BY UuidsExact
<1>4. validate_devices
      <=> /\ build_expected_devices # {} /\ Observed = build_expected_devices
          /\ (/\ \A d \in Observed : Cardinality(Uuids(d)) = 1
              /\ \A d, e \in Observed : d # e => Uuids(d) # Uuids(e))
          /\ (OneRole /\ OneHetGroup)
  BY DEF validate_devices
<1> QED
  BY <1>1, <1>2, <1>3, <1>4

Verdict == /\ Complete /\ validate_devices /\ windows_valid
           /\ samples_valid /\ ~errors /\ ~Unexpected

\* The verdict is the one that a reader of the artifacts would reach.
LEMMA VerdictExact ==
  ASSUME TypeOK, SampleInv, AuditInv, phase = "judge"
  PROVE  Verdict <=> Sound
<1>1. CASE ~reaped
  BY <1>1 DEF Verdict, Complete, Sound
<1>2. CASE reaped
  <2>1. ScanInv /\ pending = {}
    BY <1>2 DEF AuditInv
  <2>2. ASSUME Verdict PROVE Sound
    <3>1. (\A d \in build_expected_devices : Cardinality(Uuids(d)) = 1) /\ \A c : ~ClaimedAgain(c)
      BY <2>1, <2>2 DEF Verdict, validate_devices, ScanInv
    <3>2. /\ plan # <<>>
          /\ \A c \in Planned : \E n \in DOMAIN files : Claims(n, c) /\ TrueWindow(n)
      BY <2>1, <2>2, <3>1, WindowsExact DEF Verdict
    <3>3. /\ \A n \in DOMAIN files : \E c \in Planned : Claims(n, c)
          /\ \A m, n \in DOMAIN files : files[m].concurrency = files[n].concurrency => m = n
      BY <2>1, <2>2, FilesExact DEF Verdict
    <3>4. /\ Observed = UNION {{p.node} \X p.gpus : p \in placement} /\ Observed # {}
          /\ \A r, s \in samples : r.device = s.device <=> r.uuid = s.uuid
          /\ \A p, q \in placement : p.node = q.node =>
               /\ p.gpus \intersect q.gpus # {} => p.role = q.role
               /\ p.gpus # {} /\ q.gpus # {} => p.het = q.het
      BY <2>2, DevicesExact DEF Verdict
    <3>5. placement # {}
      BY <3>4
    <3>6. \A r, s \in samples : r.device = s.device /\ r.seq < s.seq => r.time <= s.time
      BY <2>2, OrderExact DEF Verdict, samples_valid
    <3>7. collecting /\ ~torn /\ reaped
      BY <2>2 DEF Verdict, samples_valid, Complete
    <3> QED
      BY <3>2, <3>3, <3>4, <3>5, <3>6, <3>7 DEF Sound
  <2>3. ASSUME Sound PROVE Verdict
    <3>1. validate_devices
      BY <2>3, DevicesExact DEF Sound
    <3>2. ~errors /\ ~Unexpected
      BY <2>1, <2>3, FilesExact DEF Sound
    <3>3. (\A d \in build_expected_devices : Cardinality(Uuids(d)) = 1) /\ \A c : ~ClaimedAgain(c)
      BY <2>1, <3>1, <3>2 DEF validate_devices, ScanInv
    <3>4. windows_valid
      BY <2>1, <2>3, <3>3, WindowsExact DEF Sound
    <3>5. Complete /\ samples_valid
      BY <2>3, OrderExact DEF Sound, Complete, samples_valid
    <3> QED
      BY <3>1, <3>2, <3>4, <3>5 DEF Verdict
  <2> QED
    BY <2>2, <2>3
<1> QED
  BY <1>1, <1>2

-----------------------------------------------------------------------------
(* The orchestrator's steps                                                *)

\* A step of the audit leaves the run's data alone.
LEMMA AuditTypes ==
  ASSUME TypeOK, UNCHANGED <<auditFrame, results>>, FilesTyped',
         faults' \in 0..MaxFaults, {reaped', errors', published'} \subseteq BOOLEAN,
         client' \in {"idle", "running", "measured", "saved", "dead"},
         phase' \in {"measure", "convert", "scan", "judge", "done"}
  PROVE  TypeOK'
BY DEF TypeOK, FilesTyped, auditFrame, collected

LEMMA FilesTypedStays ==
  ASSUME FilesTyped, UNCHANGED files, pending' \subseteq pending
  PROVE  FilesTyped'
BY DEF FilesTyped, Parsable, _status_invariants_hold

LEMMA ScanStays ==
  ASSUME ScanInv, UNCHANGED <<files, pending, parsed, duplicates, errors>>
  PROVE  ScanInv'
<1>1. Scanned' = Scanned
  BY DEF Scanned
<1>2. \A n : /\ Parsable(files'[n]) <=> Parsable(files[n])
            /\ \A c : Claims(n, c)' <=> Claims(n, c)
  BY DEF Claims, Parsable, _status_invariants_hold
<1>3. parsed' = parsed /\ duplicates' = duplicates /\ errors' = errors /\ files' = files
  OBVIOUS
<1>4. /\ \A c : c \in DOMAIN parsed <=> ClaimedOnce(c)
      /\ \A c \in DOMAIN parsed : \E n \in Scanned : Claims(n, c) /\ parsed[c] = files[n]
      /\ \A c : c \in duplicates <=> ClaimedAgain(c)
      /\ errors <=> (\E n \in Scanned : ~Parsable(files[n])) \/ \E c : ClaimedAgain(c)
  BY DEF ScanInv
<1>5. \A c : c \in DOMAIN parsed' <=> ClaimedOnce(c)'
  BY <1>1, <1>2, <1>3, <1>4 DEF ClaimedOnce
<1>6. \A c : c \in duplicates' <=> ClaimedAgain(c)'
  BY <1>1, <1>2, <1>3, <1>4 DEF ClaimedAgain
<1>7. \A c \in DOMAIN parsed' : \E n \in Scanned' : Claims(n, c)' /\ parsed'[c] = files'[n]
  BY <1>1, <1>2, <1>3, <1>4
<1>8. errors' <=> (\E n \in Scanned' : ~Parsable(files'[n])) \/ \E c : ClaimedAgain(c)'
  BY <1>1, <1>2, <1>3, <1>4 DEF ClaimedAgain
<1> QED
  BY <1>5, <1>6, <1>7, <1>8 DEF ScanInv

LEMMA SoundStays ==
  ASSUME UNCHANGED <<placement, plan, collected, files, results, reaped>>
  PROVE  Sound' <=> Sound
BY DEF Sound, Planned, Claims, TrueWindow, CoveredAt, RowsOf, build_expected_devices, Observed,
       Parsable, _status_invariants_hold, collected

LEMMA AuditKeeps ==
  ASSUME IInv, StopBenchmark \/ ConvertRunningWindows \/ ScanFile \/ AllScanned \/ Judge
  PROVE  IInv'
<1>1. /\ TypeOK /\ ClientInv /\ SampleInv /\ FileInv /\ AuditInv /\ FilesTyped
      /\ faults \in 0..MaxFaults /\ {reaped, errors, published} \subseteq BOOLEAN
      /\ client \in {"idle", "running", "measured", "saved", "dead"}
  BY DEF IInv, TypeOK, FilesTyped
<1>2. UNCHANGED <<auditFrame, results, point, begin, boundary, recorded>>
  BY DEF StopBenchmark, ConvertRunningWindows, ScanFile, AllScanned, Judge, measuring
<1>3. SampleInv'
  BY <1>1, <1>2 DEF SampleInv, auditFrame, collected
<1>4. CASE StopBenchmark
  <2>1. phase' = "convert" /\ phase = "measure"
        /\ UNCHANGED <<files, pending, parsed, duplicates, errors, published>>
    BY <1>4 DEF StopBenchmark
  <2>2. /\ faults' \in 0..MaxFaults /\ reaped' \in BOOLEAN
        /\ client' \in {client, "dead"}
        /\ reaped' => client' = "dead" \/ ~(point <= Len(plan))
    <3>1. faults' \in 0..MaxFaults
      BY <1>1, <1>4, NumbersAssumption DEF StopBenchmark
    <3>2. reaped' \in BOOLEAN /\ client' \in {client, "dead"}
      BY <1>4 DEF StopBenchmark
    <3>3. reaped' => client' = "dead" \/ ~(point <= Len(plan))
      BY <1>4 DEF StopBenchmark, ClientAlive
    <3> QED
      BY <3>1, <3>2, <3>3
  <2>3. ClientInv' /\ FileInv'
    BY <1>1, <1>2, <2>1, <2>2, FilesStay DEF ClientInv, AtWork, Stem, auditFrame
  <2>4. AuditInv'
    BY <1>1, <1>2, <2>1, <2>2 DEF AuditInv, auditFrame
  <2>5. TypeOK'
    BY <1>1, <1>2, <2>1, <2>2, FilesTypedStays, AuditTypes
  <2> QED
    BY <1>3, <2>3, <2>4, <2>5 DEF IInv
<1>5. CASE ConvertRunningWindows
  <2>1. /\ phase = "convert" /\ phase' = "scan" /\ pending' = DOMAIN files
        /\ UNCHANGED <<faults, client, reaped, parsed, duplicates, errors, published>>
    BY <1>5 DEF ConvertRunningWindows, measuring
  <2>2. /\ DOMAIN files' = DOMAIN files
        /\ \A n \in DOMAIN files : files'[n] \in {files[n], Interrupted(files[n])}
    BY <1>5 DEF ConvertRunningWindows
  <2>3. \A n \in DOMAIN files :
          /\ Interrupted(files[n]) \in FileRecord(n)
          /\ Interrupted(files[n]).start = files[n].start
          /\ Parsable(files[n]) => Parsable(Interrupted(files[n]))
          /\ Interrupted(files[n]).status = "completed" => Interrupted(files[n]) = files[n]
    <3> TAKE n \in DOMAIN files
    <3>1. PICK w : w = files[n]
      OBVIOUS
    <3>2. w \in FileRecord(n)
      BY <1>1, <3>1 DEF FilesTyped
    <3>3. CASE w.kind = "json" /\ w.status = "running"
      <4>1. Interrupted(w) = [w EXCEPT !.status = "interrupted", !.end = None, !.duration = None, !.reason = TRUE]
        BY <3>3 DEF Interrupted
      <4>2. /\ Interrupted(w) \in FileRecord(n)
            /\ Interrupted(w).start = w.start /\ Interrupted(w).status = "interrupted"
            /\ Interrupted(w).kind = "json" /\ Interrupted(w).reason = TRUE
            /\ Interrupted(w).end = None /\ Interrupted(w).duration = None
        BY <3>2, <3>3, <4>1 DEF FileRecord
      <4> QED
        BY <3>1, <4>2 DEF Parsable, _status_invariants_hold
    <3>4. CASE ~(w.kind = "json" /\ w.status = "running")
      BY <3>1, <3>2, <3>4 DEF Interrupted
    <3> QED
      BY <3>3, <3>4
  <2>4. FilesTyped'
    <3>1. \A n \in DOMAIN files' : /\ files'[n] \in FileRecord(n)
                                   /\ files'[n].start >= Start => Parsable(files'[n])
      BY <1>1, <2>2, <2>3 DEF FilesTyped
    <3> QED
      BY <2>1, <2>2, <3>1 DEF FilesTyped, Parsable, _status_invariants_hold
  <2>5. FileInv'
    <3>1. \A n \in DOMAIN files' :
            files'[n].status = "completed" /\ files'[n].start >= Start => RecordedAs(files'[n])
      BY <1>1, <2>2, <2>3 DEF FileInv
    <3> QED
      BY <1>1, <1>2, <2>2, <3>1 DEF FileInv, RecordedAs
  <2>6. ClientInv'
    BY <1>1, <1>2, <2>1, ClientStays DEF measuring, auditFrame
  <2>7. ScanInv'
    <3>1. Scanned' = {}
      BY <2>1, <2>2 DEF Scanned
    <3>2. DOMAIN parsed' = {} /\ duplicates' = {} /\ ~errors'
      BY <1>1, <2>1 DEF AuditInv
    <3> QED
      BY <3>1, <3>2 DEF ScanInv, ClaimedOnce, ClaimedAgain
  <2>8. AuditInv'
    BY <1>1, <1>2, <2>1, <2>7 DEF AuditInv, auditFrame
  <2>9. TypeOK'
    BY <1>1, <1>2, <2>1, <2>4, AuditTypes
  <2> QED
    BY <1>3, <2>5, <2>6, <2>8, <2>9 DEF IInv
<1>6. CASE ScanFile
  <2>1. /\ phase = "scan" /\ UNCHANGED <<faults, measuring, files, phase, reaped, published>>
    BY <1>6 DEF ScanFile
  <2>2. PICK n \in pending :
          /\ pending' = pending \ {n}
          /\ IF Parsable(files[n]) THEN Claim(files[n].concurrency, files[n])
             ELSE errors' = TRUE /\ UNCHANGED <<parsed, duplicates>>
    BY <1>6 DEF ScanFile
  <2>3. reaped => ScanInv'
    BY <1>1, <2>1, <2>2, ScanFileKeeps DEF AuditInv
  <2>4. errors' \in BOOLEAN
    BY <1>1, <2>2 DEF Claim
  <2>5. ClientInv' /\ FileInv'
    BY <1>1, <1>2, <2>1, ClientStays, FilesStay DEF auditFrame
  <2>6. AuditInv'
    BY <1>1, <1>2, <2>1, <2>3 DEF AuditInv, auditFrame, measuring
  <2>7. TypeOK'
    <3>1. FilesTyped'
      BY <1>1, <2>1, <2>2, FilesTypedStays
    <3>2. phase' \in {"measure", "convert", "scan", "judge", "done"}
      BY <2>1
    <3> QED
      BY <1>1, <1>2, <2>1, <2>4, <3>1, <3>2, AuditTypes DEF measuring
  <2> QED
    BY <1>3, <2>5, <2>6, <2>7 DEF IInv
<1>7. CASE AllScanned
  <2>1. /\ phase = "scan" /\ phase' = "judge" /\ pending = {}
        /\ UNCHANGED <<faults, measuring, files, reaped, pending, parsed, duplicates, errors, published>>
    BY <1>7 DEF AllScanned
  <2>2. reaped => ScanInv'
    BY <1>1, <2>1, ScanStays DEF AuditInv
  <2>3. ClientInv' /\ FileInv'
    BY <1>1, <1>2, <2>1, ClientStays, FilesStay DEF auditFrame
  <2>4. AuditInv'
    BY <1>1, <1>2, <2>1, <2>2 DEF AuditInv, auditFrame, measuring
  <2>5. TypeOK'
    BY <1>1, <1>2, <2>1, FilesTypedStays, AuditTypes DEF measuring
  <2> QED
    BY <1>3, <2>3, <2>4, <2>5 DEF IInv
<1>8. CASE Judge
  <2>1. /\ phase = "judge" /\ phase' = "done"
        /\ UNCHANGED <<faults, measuring, files, reaped, pending, parsed, duplicates, errors>>
        /\ published' = Verdict
    BY <1>8 DEF Judge, Verdict
  <2>2. reaped => ScanInv'
    BY <1>1, <2>1, ScanStays DEF AuditInv
  <2>3. Sound' <=> Sound
    BY <1>2, <2>1, SoundStays DEF auditFrame
  <2>4. published' <=> Sound'
    BY <1>1, <2>1, <2>3, VerdictExact
  <2>5. published' \in BOOLEAN
    BY <2>1 DEF Verdict
  <2>6. ClientInv' /\ FileInv'
    BY <1>1, <1>2, <2>1, ClientStays, FilesStay DEF auditFrame
  <2>7. AuditInv'
    BY <1>1, <1>2, <2>1, <2>2, <2>4 DEF AuditInv, auditFrame, measuring
  <2>8. TypeOK'
    BY <1>1, <1>2, <2>1, <2>5, FilesTypedStays, AuditTypes DEF measuring
  <2> QED
    BY <1>3, <2>6, <2>7, <2>8 DEF IInv
<1> QED
  BY <1>4, <1>5, <1>6, <1>7, <1>8

-----------------------------------------------------------------------------
(* Theorems                                                                *)

LEMMA StutterKeeps == IInv /\ UNCHANGED vars => IInv'
<1> SUFFICES ASSUME IInv, UNCHANGED vars PROVE IInv'
  OBVIOUS
<1>1. UNCHANGED <<world, placement, plan, collected, measuring, files, results, audit>>
  BY DEF vars
<1>2. ClientInv' /\ FileInv' /\ SampleInv'
  BY <1>1, ClientStays, FilesStay, SamplesStay DEF IInv, measuring, collected
<1>3. FilesTyped'
  BY <1>1, FilesTypedStays DEF IInv, TypeOK, FilesTyped, audit
<1>4. TypeOK'
  BY <1>1, <1>3 DEF IInv, TypeOK, FilesTyped, world, collected, measuring, audit
<1>5. Sound' <=> Sound
  BY <1>1, SoundStays DEF audit
<1>6. ScanInv => ScanInv'
  BY <1>1, ScanStays DEF audit
<1>7. AuditInv'
  BY <1>1, <1>5, <1>6 DEF IInv, AuditInv, audit, measuring
<1> QED
  BY <1>2, <1>4, <1>7 DEF IInv

THEOREM ArtifactsInvariant == Spec => []IInv
<1>1. IInv /\ [Next]_vars => IInv'
  BY WorldKeeps, ClientKeeps, AuditKeeps, StutterKeeps DEF Next
<1> QED
  BY <1>1, InitIInv, PTL DEF Spec

\* However many samples, window files and devices there are: what the audit of
\* _finalize_manifest publishes is exactly what is sound.
THEOREM AuditIsExact == Spec => []ArtifactsSound
<1>1. IInv => ArtifactsSound
  BY DEF IInv, AuditInv, ArtifactsSound, AuditExact
<1> QED
  BY <1>1, ArtifactsInvariant, PTL

\* What _scan keeps does not depend on the order or the number of the files.
THEOREM ScanIsExact == Spec => []ScanKeepsSingletons
<1>1. ASSUME IInv, phase = "scan", reaped, NEW c
      PROVE  c \in DOMAIN parsed <=> Cardinality({n \in DOMAIN files \ pending : Claims(n, c)}) = 1
  <2> DEFINE S == {n \in DOMAIN files \ pending : Claims(n, c)}
  <2>1. IsFiniteSet(S)
    BY <1>1, FS_Subset DEF IInv, FileInv
  <2>2. Cardinality(S) = 1 <=> \E x : S = {x}
    BY <2>1, FS_Singleton
  <2>3. ClaimedOnce(c) <=> \E x : S = {x}
    BY DEF ClaimedOnce, Scanned
  <2>4. c \in DOMAIN parsed <=> ClaimedOnce(c)
    BY <1>1 DEF IInv, AuditInv, ScanInv
  <2> QED
    BY <2>2, <2>3, <2>4
<1>2. IInv => ScanKeepsSingletons
  BY <1>1 DEF ScanKeepsSingletons
<1> QED
  BY <1>2, ArtifactsInvariant, PTL

\* A requeued job publishes no window of its first attempt: those begin before the first
\* sample, so they are not covered.
THEOREM WindowsAreOfThisRun == Spec => []MeasuredInThisRun
<1>1. ASSUME IInv, published, ~setback, NEW c \in Planned
      PROVE  \E n \in DOMAIN files, b \in recorded :
               /\ Claims(n, c) /\ b.concurrency = c
               /\ b.at = [start |-> files[n].start, end |-> files[n].end, duration |-> files[n].duration]
  <2>1. Sound
    BY <1>1 DEF IInv, AuditInv
  <2>2. PICK n \in DOMAIN files : Claims(n, c) /\ TrueWindow(n)
    BY <2>1 DEF Sound
  <2>3. /\ files[n].status = "completed" /\ files[n].concurrency = c
        /\ files[n].start < files[n].end
        /\ files[n].start \in Nat /\ files[n].end \in Nat
    BY <1>1, <2>2, NoneAssumption
    DEF TrueWindow, Claims, IInv, TypeOK, FileRecord, Parsable, _status_invariants_hold
  <2>4. PICK d \in build_expected_devices : TRUE
    BY <1>1, <2>1, ExpectedDevices DEF Sound, IInv
  <2>5. CoveredAt(d, files[n].start)
    <3>1. files[n].start \in files[n].start..files[n].end
      BY <2>3
    <3> QED
      BY <2>2, <2>4, <3>1 DEF TrueWindow
  <2>6. PICK r \in samples : r.time <= files[n].start /\ r.time >= Start /\ r.time \in Nat
    BY <1>1, <2>5, NumbersAssumption DEF CoveredAt, RowsOf, IInv, SampleInv, TypeOK
  <2>7. files[n].start >= Start
    BY <2>3, <2>6, NumbersAssumption
  <2>8. RecordedAs(files[n])
    BY <1>1, <2>3, <2>7 DEF IInv, FileInv
  <2> QED
    BY <2>2, <2>3, <2>8 DEF RecordedAs
<1>2. IInv => MeasuredInThisRun
  BY <1>1 DEF MeasuredInThisRun
<1> QED
  BY <1>2, ArtifactsInvariant, PTL
===============================================================================
