--------------------------- MODULE PowerArtifacts ---------------------------
(***************************************************************************)
(* The artifacts of a power session and the audit that decides whether     *)
(* they may be published (srtctl/core/power): the rows of samples.csv, one *)
(* scrape of every node at a time, the window files that the benchmark     *)
(* client writes with sa-bench/measurement_window.py, and the audit of     *)
(* both when collection has stopped.  PowerSession models the threads and  *)
(* deadlines around them.                                                  *)
(*                                                                         *)
(* There are two clocks: clock is time.time() of the head node, which can  *)
(* be set, elapsed is time.perf_counter().  What can go wrong from outside *)
(* is bounded by MaxFaults.  A requeued job starts with the window files   *)
(* of its first attempt.  Window files are visited in any order: the code  *)
(* sorts names that the model leaves open.                                 *)
(***************************************************************************)
EXTENDS Integers, Sequences, FiniteSets, FiniteSetsExt

CONSTANTS Hosts, Gpus,   \* the nodes and the GPU indices of a node
          Jobs,          \* backend processes, concurrencies to measure and the window
                         \* files that are in the directory at the start
          MaxGap,        \* MAX_SAMPLE_GAP_SECONDS
          Tolerance,     \* the tolerance between the two clocks
          Start, MaxTime,\* bounds: the clock at the start and at most
          MaxFaults,     \* bound: faults of the environment
          None           \* JSON null

Devices == Hosts \X Gpus
Process == [role: {"prefill", "decode", "agg"}, node: Hosts, gpus: SUBSET Gpus, het: Nat]

\* A window file: kind is "json", or "malformed" (not JSON, wrong types) or "unsafe" (a
\* link, not .json, a result elsewhere); reason tells whether one is given.
FileRecord(n) == [kind: {"json", "malformed", "unsafe"}, name: {n}, concurrency: STRING,
                  status: {"running", "interrupted", "completed", "failed"}, start: Nat,
                  end: Nat \cup {None}, duration: Nat \cup {None}, reason: BOOLEAN]

\* The files that are there at the start are of an attempt that was over by then.
ASSUME JobsAssumption ==
    \A job \in Jobs :
        /\ job.placement \subseteq Process /\ job.plan \in Seq(STRING)
        /\ IsFiniteSet(DOMAIN job.files)
        /\ \A n \in DOMAIN job.files : job.files[n] \in FileRecord(n) /\ job.files[n].start < Start
ASSUME SizesAssumption == IsFiniteSet(Hosts) /\ IsFiniteSet(Gpus)
ASSUME NumbersAssumption == /\ MaxGap \in Nat \ {0} /\ Tolerance \in Nat /\ MaxFaults \in Nat
                            /\ MaxTime \in Nat /\ Start \in 0..MaxTime
ASSUME NoneAssumption == None \notin Int

VARIABLES clock, elapsed, faults,
          card,        \* the GPU that is in a slot, which its UUID tells
          placement,   \* the backend processes
          collecting,  \* the collector runs
          seq,         \* its next scrape_seq
          samples,     \* the rows of samples.csv
          torn,        \* a row was cut short
          plan,        \* benchmark.concurrencies
          point,       \* position in plan
          client,      \* "idle", "running", "measured", "saved", "dead"
          begin,       \* start of the measurement on both clocks
          boundary,    \* MeasurementWindow._boundary
          files,       \* windows/: name -> content
          results,     \* the result files: name -> timings
          phase,       \* "measure", "convert", "scan", "judge", "done"
          reaped,      \* the benchmark child was reaped
          pending,     \* window files still to scan
          parsed, duplicates, errors,  \* of _scan
          published,   \* publication_valid
          recorded,    \* history: boundaries the client recorded
          setback      \* history: the clock was set back

world == <<clock, elapsed, faults, card, setback>>
collected == <<collecting, seq, samples, torn>>
measuring == <<point, client, begin, boundary, recorded>>
audit == <<phase, reaped, pending, parsed, duplicates, errors, published>>
vars == <<world, placement, plan, collected, measuring, files, results, audit>>

-----------------------------------------------------------------------------
(* core/power/topology.py: which devices are expected, and as what.        *)

build_expected_devices == {d \in Devices : \E p \in placement : p.node = d[1] /\ d[2] \in p.gpus}

Assigned(d) == {p \in placement : p.node = d[1] /\ d[2] \in p.gpus}
OneRole == \A d \in build_expected_devices : \A p, q \in Assigned(d) : p.role = q.role
OneHetGroup ==
    \A d, e \in build_expected_devices :
        d[1] = e[1] => \A p \in Assigned(d), q \in Assigned(e) : p.het = q.het

(* core/power/samples.py: what the rows say of a device.                   *)

RowsOf(d) == {r \in samples : r.device = d}
Observed == {r.device : r \in samples}
Uuids(d) == {r.uuid : r \in RowsOf(d)}
NonMonotonic == \E r, s \in samples :
                   r.device = s.device /\ r.seq < s.seq /\ s.time < r.time
samples_valid == ~torn /\ ~NonMonotonic

validate_devices ==
    /\ build_expected_devices # {}
    /\ Observed = build_expected_devices
    /\ \A d \in Observed : Cardinality(Uuids(d)) = 1
    /\ \A d, e \in Observed : d # e => Uuids(d) # Uuids(e)
    /\ OneRole /\ OneHetGroup

-----------------------------------------------------------------------------
(* core/power/windows.py: one window against its result and the rows.      *)

Distance(a, b) == IF a <= b THEN b - a ELSE a - b

_check_result(w) ==
    LET wall == w.end - w.start IN
    /\ w.name \in DOMAIN results
    /\ results[w.name] = [start |-> w.start, end |-> w.end, duration |-> w.duration]
    /\ wall > 0
    /\ Distance(wall, w.duration) <= Tolerance

\* Mutants: the sample before the window is not part of the sequence, or not needed.
_bracketing_sequence_inside(times, start, end) ==
    LET before == {t \in times : t <= start}
        after == {t \in times : t >= end}
    IN  IF before = {} \/ after = {} THEN {}
        ELSE {t \in times : start < t /\ t < end} \cup {Min(after)}
_bracketing_sequence_open(times, start, end) ==
    LET after == {t \in times : t >= end}
    IN  IF after = {} THEN {} ELSE {t \in times : start < t /\ t < end} \cup {Min(after)}

\* The last sample at or before start, those inside, the first at or after end.
_bracketing_sequence(times, start, end) ==
    LET before == {t \in times : t <= start}
        after == {t \in times : t >= end}
    IN  IF before = {} \/ after = {} THEN {}
        ELSE {Max(before)} \cup {t \in times : start < t /\ t < end} \cup {Min(after)}

Adjacent(times) == {p \in times \X times : /\ p[1] < p[2]
                                           /\ \A t \in times : t <= p[1] \/ p[2] <= t}
LargestGap(times) == Max({0} \cup {p[2] - p[1] : p \in Adjacent(times)})

_check_coverage(w) ==
    \A d \in build_expected_devices :
        LET times == _bracketing_sequence({r.time : r \in RowsOf(d)}, w.start, w.end)
        IN  /\ Cardinality(Uuids(d)) = 1
            /\ times # {}
            /\ LargestGap(times) <= MaxGap

_validate_one(c) ==
    /\ c \in DOMAIN parsed
    /\ parsed[c].status = "completed"
    /\ _check_result(parsed[c])
    /\ _check_coverage(parsed[c])

-----------------------------------------------------------------------------
(* Window files and what _parse accepts of them.                           *)

WindowFile(name, c, status, b, reason) ==
    [kind |-> "json", name |-> name, concurrency |-> c, status |-> status, start |-> b.start,
     end |-> b.end, duration |-> b.duration, reason |-> reason]

_status_invariants_hold(w) ==
    CASE w.status = "running"     -> w.end = None /\ w.duration = None /\ ~w.reason
      [] w.status = "interrupted" -> w.end = None /\ w.duration = None /\ w.reason
      [] w.status = "completed"   -> w.end # None /\ w.duration \in Nat \ {0} /\ ~w.reason
      [] w.status = "failed"      -> w.end # None /\ w.duration \in Nat \ {0} /\ w.reason

Parsable(w) == w.kind = "json" /\ _status_invariants_hold(w)

-----------------------------------------------------------------------------
(* The world.                                                              *)

Init ==
    /\ clock = Start /\ elapsed = 0 /\ faults = 0 /\ setback = FALSE
    /\ card = [d \in Devices |-> d]
    /\ collecting = TRUE /\ seq = 0 /\ samples = {} /\ torn = FALSE
    /\ point = 1 /\ client = "idle" /\ begin = None /\ boundary = None /\ recorded = {}
    /\ \E job \in Jobs :
         LET old == job.files IN
         /\ placement = job.placement /\ plan = job.plan /\ files = old
         /\ results = [n \in {m \in DOMAIN old : old[m].status = "completed"} |->
                         [start |-> old[n].start, end |-> old[n].end, duration |-> old[n].duration]]
    /\ phase = "measure" /\ reaped = FALSE /\ pending = {}
    /\ parsed = [c \in {} |-> None] /\ duplicates = {} /\ errors = FALSE /\ published = FALSE

Tick ==
    /\ phase = "measure" /\ clock < MaxTime /\ elapsed < MaxTime
    /\ clock' = clock + 1 /\ elapsed' = elapsed + 1
    /\ UNCHANGED <<faults, card, setback, placement, plan, collected, measuring, files, results, audit>>

\* The head node's clock is set.
SetClock ==
    /\ phase = "measure" /\ faults < MaxFaults
    /\ clock' \in {clock - 2, clock + 2} \cap 0..MaxTime
    /\ setback' = (setback \/ clock' < clock)
    /\ faults' = faults + 1
    /\ UNCHANGED <<elapsed, card, placement, plan, collected, measuring, files, results, audit>>

\* After a reset the driver numbers the GPUs of a node in another order.
SwapCards ==
    /\ phase = "measure" /\ faults < MaxFaults
    /\ \E h \in Hosts, g1, g2 \in Gpus :
         /\ g1 # g2
         /\ card' = [card EXCEPT ![<<h, g1>>] = card[<<h, g2>>], ![<<h, g2>>] = card[<<h, g1>>]]
    /\ faults' = faults + 1
    /\ UNCHANGED <<clock, elapsed, setback, placement, plan, collected, measuring, files, results, audit>>

-----------------------------------------------------------------------------
(* core/power/parser.py and the rows of a scrape.                          *)

\* How many usable lines the exporter of a node has for each of its GPUs: none if it
\* does not answer, or for a GPU in MIG mode, without UUID or without a finite power.
Bodies == [Gpus -> 0..2]
Healthy(body) == \A g \in Gpus : body[g] = 1

\* An index with two lines has no reading.
parse_power_scrape(body) == {g \in Gpus : body[g] = 1}

Rows(bodies) ==
    UNION {{[seq |-> seq, time |-> clock, device |-> <<h, g>>, uuid |-> card[<<h, g>>]] :
              g \in parse_power_scrape(bodies[h])} : h \in Hosts}

\* collect_once: one cycle, a row per reading, written under one scrape_seq.
Scrape ==
    /\ phase = "measure" /\ collecting
    /\ \A r \in samples : r.time # clock
    /\ \E bodies \in [Hosts -> Bodies] :
         LET bad == {h \in Hosts : ~Healthy(bodies[h])} IN
         /\ faults + Cardinality(bad) <= MaxFaults
         /\ faults' = faults + Cardinality(bad)
         /\ samples' = samples \cup Rows(bodies)
    /\ seq' = seq + 1
    /\ UNCHANGED <<clock, elapsed, card, setback, placement, plan, collecting, torn, measuring,
                   files, results, audit>>

\* SampleWriter.append fails between two rows or inside one: the collector is gone.
ScrapeTorn ==
    /\ phase = "measure" /\ collecting /\ faults < MaxFaults
    /\ \E rows \in SUBSET Rows([h \in Hosts |-> [g \in Gpus |-> 1]]) : samples' = samples \cup rows
    /\ torn' \in BOOLEAN
    /\ collecting' = FALSE /\ seq' = seq + 1 /\ faults' = faults + 1
    /\ UNCHANGED <<clock, elapsed, card, setback, placement, plan, measuring, files, results, audit>>

-----------------------------------------------------------------------------
(* The benchmark client: MeasurementWindow, in the order of its docstrings. *)

\* The stem of a result file, and so of its window file, follows from the concurrency.
Stem == plan[point]
Written(status, b, reason) ==
    [n \in DOMAIN files \cup {Stem} |-> IF n = Stem THEN WindowFile(Stem, Stem, status, b, reason) ELSE files[n]]
clientFrame == <<world, placement, plan, collected, audit>>

MarkRunning ==
    /\ client = "idle" /\ point <= Len(plan)
    /\ begin' = [clock |-> clock, elapsed |-> elapsed]
    /\ files' = Written("running", [start |-> clock, end |-> None, duration |-> None], FALSE)
    /\ client' = "running"
    /\ UNCHANGED <<clientFrame, point, boundary, recorded, results>>

RecordBoundary ==
    /\ client = "running" /\ elapsed > begin.elapsed
    /\ boundary' = [start |-> begin.clock, end |-> clock, duration |-> elapsed - begin.elapsed]
    /\ recorded' = recorded \cup {[concurrency |-> Stem, at |-> boundary']}
    /\ client' = "measured"
    /\ UNCHANGED <<clientFrame, point, begin, files, results>>

SaveResult ==
    /\ client = "measured"
    /\ results' = [n \in DOMAIN results \cup {Stem} |-> IF n = Stem THEN boundary ELSE results[n]]
    /\ client' = "saved"
    /\ UNCHANGED <<clientFrame, point, begin, boundary, recorded, files>>

MarkCompleted ==
    /\ client = "saved"
    /\ files' = Written("completed", boundary, FALSE)
    /\ client' = "idle" /\ point' = point + 1 /\ begin' = None /\ boundary' = None
    /\ UNCHANGED <<clientFrame, recorded, results>>

\* fail_at_recorded_boundary, and the client is gone.
FailAtRecordedBoundary ==
    /\ client \in {"running", "measured", "saved"} /\ faults < MaxFaults
    /\ files' = IF boundary = None THEN files ELSE Written("failed", boundary, TRUE)
    /\ client' = "dead" /\ faults' = faults + 1
    /\ UNCHANGED <<clock, elapsed, card, setback, placement, plan, collected, audit,
                   point, begin, boundary, recorded, results>>

-----------------------------------------------------------------------------
(* The orchestrator: the benchmark is over, and the audit.                 *)

ClientAlive == client # "dead" /\ point <= Len(plan)
auditFrame == <<clock, elapsed, card, setback, placement, plan, collected>>

\* terminate_and_reap and _finalize_manifest's start; the child may survive it.
StopBenchmark ==
    /\ phase = "measure"
    /\ \/ /\ reaped' = TRUE
          /\ client' = IF ClientAlive THEN "dead" ELSE client
          /\ UNCHANGED faults
       \/ /\ ClientAlive /\ faults < MaxFaults
          /\ reaped' = FALSE /\ faults' = faults + 1
          /\ UNCHANGED client
    /\ phase' = "convert"
    /\ UNCHANGED <<auditFrame, point, begin, boundary, recorded, files, results,
                   pending, parsed, duplicates, errors, published>>

Interrupted(w) == IF w.kind = "json" /\ w.status = "running"
                    THEN [w EXCEPT !.status = "interrupted", !.end = None, !.duration = None, !.reason = TRUE]
                    ELSE w

\* convert_running_windows if allow_window_mutation; then _scan lists the directory.
ConvertRunningWindows ==
    /\ phase = "convert"
    /\ files' = IF reaped THEN [n \in DOMAIN files |-> Interrupted(files[n])] ELSE files
    /\ pending' = DOMAIN files
    /\ phase' = "scan"
    /\ UNCHANGED <<auditFrame, faults, measuring, results, reaped, parsed, duplicates, errors, published>>

Without(f, c) == [k \in DOMAIN f \ {c} |-> f[k]]

\* Mutant: a third file for a key finds no previous one.
Claim_forgets(c, w) ==
    IF c \in DOMAIN parsed
      THEN parsed' = Without(parsed, c) /\ duplicates' = duplicates \cup {c} /\ errors' = TRUE
      ELSE /\ parsed' = [k \in DOMAIN parsed \cup {c} |-> IF k = c THEN w ELSE parsed[k]]
           /\ UNCHANGED <<duplicates, errors>>

\* A key that a second file claims is withdrawn, and stays so for a third.
Claim(c, w) ==
    IF c \in duplicates THEN errors' = TRUE /\ UNCHANGED <<parsed, duplicates>>
    ELSE IF c \in DOMAIN parsed
      THEN parsed' = Without(parsed, c) /\ duplicates' = duplicates \cup {c} /\ errors' = TRUE
      ELSE /\ parsed' = [k \in DOMAIN parsed \cup {c} |-> IF k = c THEN w ELSE parsed[k]]
           /\ UNCHANGED <<duplicates, errors>>

\* One file of _scan.
ScanFile ==
    /\ phase = "scan"
    /\ \E n \in pending :
         /\ pending' = pending \ {n}
         /\ IF Parsable(files[n]) THEN Claim(files[n].concurrency, files[n])
            ELSE errors' = TRUE /\ UNCHANGED <<parsed, duplicates>>
    /\ UNCHANGED <<auditFrame, faults, measuring, files, results, phase, reaped, published>>

AllScanned ==
    /\ phase = "scan" /\ pending = {}
    /\ phase' = "judge"
    /\ UNCHANGED <<auditFrame, faults, measuring, files, results, reaped, pending, parsed, duplicates,
                   errors, published>>

\* Reasons that end a session as incomplete (PowerSession): a collector that is
\* gone, a benchmark child that was not reaped.
Complete == collecting /\ reaped

windows_valid == plan # <<>> /\ \A i \in DOMAIN plan : _validate_one(plan[i])
Unexpected == \E c \in DOMAIN parsed : \A i \in DOMAIN plan : plan[i] # c

\* validate_expected_windows and _finalize_manifest: publication_valid.
Judge ==
    /\ phase = "judge"
    /\ published' = (/\ Complete /\ validate_devices /\ windows_valid
                     /\ samples_valid /\ ~errors /\ ~Unexpected)
    /\ phase' = "done"
    /\ UNCHANGED <<auditFrame, faults, measuring, files, results, reaped, pending, parsed, duplicates, errors>>

Next == \/ Tick \/ SetClock \/ SwapCards \/ Scrape \/ ScrapeTorn
        \/ MarkRunning \/ RecordBoundary \/ SaveResult \/ MarkCompleted \/ FailAtRecordedBoundary
        \/ StopBenchmark \/ ConvertRunningWindows \/ ScanFile \/ AllScanned \/ Judge

Spec == Init /\ [][Next]_vars

-----------------------------------------------------------------------------
(* Type correctness                                                        *)

\* The variables keep their types; a window file that is not left over from before
\* always has the fields that its status asks for.
TypeOK ==
    /\ clock \in 0..MaxTime /\ elapsed \in 0..MaxTime /\ faults \in 0..MaxFaults
    /\ card \in [Devices -> Devices]
    /\ placement \in SUBSET Process
    /\ seq \in Nat
    /\ samples \subseteq [seq: Nat, time: 0..MaxTime, device: Devices, uuid: Devices]
    /\ {collecting, torn, setback, reaped, errors, published} \subseteq BOOLEAN
    /\ client \in {"idle", "running", "measured", "saved", "dead"}
    /\ phase \in {"measure", "convert", "scan", "judge", "done"}
    /\ pending \subseteq DOMAIN files
    /\ \A n \in DOMAIN files : /\ files[n] \in FileRecord(n)
                               /\ files[n].start >= Start => Parsable(files[n])

-----------------------------------------------------------------------------
(* Properties                                                              *)

Claims(n, c) == Parsable(files[n]) /\ files[n].concurrency = c
Planned == {plan[i] : i \in DOMAIN plan}

\* Every moment of a window lies between two samples of the device that are at most
\* MaxGap apart.
CoveredAt(d, t) == \E r, s \in RowsOf(d) : r.time <= t /\ t <= s.time /\ s.time - r.time <= MaxGap

TrueWindow(n) ==
    LET w == files[n] IN
    /\ w.status = "completed"
    /\ n \in DOMAIN results
    /\ results[n] = [start |-> w.start, end |-> w.end, duration |-> w.duration]
    /\ w.start < w.end /\ w.end - w.start - w.duration \in (-Tolerance)..Tolerance
    /\ \A d \in build_expected_devices, t \in w.start..w.end : CoveredAt(d, t)

\* What a reader of published watts relies on, said without the audit's algorithm.
Sound ==
    /\ collecting /\ ~torn /\ reaped
    /\ plan # <<>> /\ placement # {}
    /\ \A c \in Planned : \E n \in DOMAIN files : Claims(n, c) /\ TrueWindow(n)
    /\ \A n \in DOMAIN files : \E c \in Planned : Claims(n, c)
    /\ \A m, n \in DOMAIN files : files[m].concurrency = files[n].concurrency => m = n
    /\ Observed = UNION {{p.node} \X p.gpus : p \in placement} /\ Observed # {}
    /\ \A r, s \in samples : r.device = s.device <=> r.uuid = s.uuid
    /\ \A r, s \in samples : r.device = s.device /\ r.seq < s.seq => r.time <= s.time
    /\ \A p, q \in placement : p.node = q.node =>
         /\ p.gpus \cap q.gpus # {} => p.role = q.role
         /\ p.gpus # {} /\ q.gpus # {} => p.het = q.het

\* The audit publishes exactly the artifacts that are sound: nothing that has a gap, a
\* stray file or a doubtful GPU, and everything else (windows.py, power/topology.py).
AuditExact == phase = "done" => (published <=> Sound)

\* The files are well formed, those no earlier attempt left, and judged exactly.
ArtifactsSound == TypeOK /\ AuditExact

\* Published windows were measured by this run, not by an earlier attempt of the job
\* that left its files behind, unless the head node's clock was set back.
MeasuredInThisRun ==
    published /\ ~setback =>
        \A c \in Planned : \E n \in DOMAIN files, b \in recorded :
            /\ Claims(n, c) /\ b.concurrency = c
            /\ b.at = [start |-> files[n].start, end |-> files[n].end, duration |-> files[n].duration]

\* A window is kept as long as exactly one of the files scanned so far claims its key,
\* in whatever order they come and however many there are (_scan).
ScanKeepsSingletons ==
    phase = "scan" /\ reaped =>
        \A c \in Planned \cup {files[n].concurrency : n \in DOMAIN files} :
            c \in DOMAIN parsed <=>
                Cardinality({n \in DOMAIN files \ pending : Claims(n, c)}) = 1
=============================================================================
