# A verification development for srt-slurm

`srtctl` turns a recipe into Slurm jobs that serve an LLM and benchmark it. It
expands and checks the recipe, submits it, and inside the allocation launches
the processes of the deployment with `srun` (NATS and etcd, a Mooncake master,
workers, a frontend, telemetry), waits until they serve, runs a benchmark
against them, records what ran, and cleans up. The TLA+ modules here model the
whole way of a job, from the recipe file to the last status report, and the
two programs beside it: the direct runner on one host and the dashboard. TLC
checks them on small instances; TLAPS proves, for all instances, the invariants
of the orchestrator, the power session and the power audit, of placement, ports,
worker commands and what is measured around them, of submission, of a job's
records, of the direct runner and of the benchmark.

Source paths below are relative to `src/srtctl/` unless they start with `docs/`.

1. Inventory - 2. Modules - 3. Runs, bounds, properties, fairness - 4. Proofs -
5. Abstractions - 6. Where code and documents disagree - 7. Not modelled - 8. What is left

## 1. Inventory

| Component | Source | State | Hard behaviour | Module |
|---|---|---|---|---|
| Process registry | `core/processes.py` | table, failure list, lock | a lock that is not reentrant, used by two threads and by signal handler frames | ProcessRegistry |
| Signals, monitor, orchestrator | `core/processes.py`, `cli/do_sweep.py` | position in `run()`, `exit_code`, `stop_event` | handlers nest, run between any two statements and leave by `SystemExit`, in `finally` too | SweepLifecycle |
| Telemetry stage, power session | `cli/mixins/telemetry_stage.py`, `core/power/session.py` | collector thread, `samples.csv`, reasons, manifest | two deadlines, a lock the collector may hang in, late writes | PowerSession, PowerContract |
| Power artifacts and their audit | `core/power/*.py`, `sa-bench/measurement_window.py` | rows, window files, results | boundaries, duplicates, files of an earlier attempt, a clock that is set | PowerArtifacts |
| Node request, placement, ports | `core/schema.py`, `core/runtime.py`, `core/topology.py`, `core/ports.py` | running node index, GPU offset, port counters | packing arithmetic done in several places | EndpointAllocation |
| Worker commands | `backends/*.py`, `cli/mixins/worker_stage.py` | none | engines find each other by flags computed one by one | WorkerLaunch |
| Frontend topology, client, metrics, profilers | `cli/mixins/*_stage.py`, `core/telemetry.py` | none | each works out for itself who runs where | Measurement |
| Launch in batches, readiness, health | `cli/mixins/worker_stage.py`, `benchmark_stage.py`, `core/health.py`, `frontends/*.py` | started and healthy workers, what a router lists | expected, launched and counted are three computations; workers die meanwhile | ServingReadiness |
| Recipes, submission, start of a job | `cli/submit.py`, `core/config.py`, `core/sweep.py`, `core/lockfile.py` | the file, the queue of variants, the job's directory | the file is read several times; a job may start before its directory is written | JobSubmission, ConfigMerge |
| Status, identity, post-processing | `core/status.py`, `core/fingerprint.py`, `core/lockfile.py`, `core/resource_snapshot.py`, `cli/mixins/postprocess_stage.py` | requests under way, fingerprints, metadata, lock, logs | lost and late requests, hanging containers, torn files | JobRecords, RunIdentity |
| Benchmark script and client | `benchmarks/scripts/sa-bench/*`, `benchmarks/sa_bench.py` | request tasks, connection pool, `/slow_down`, scrape loop, results | tasks that raise, Ctrl-C, a timer against the end, `set -e` | ServingClient, SaBench |
| Direct runners | `render/direct_host_runner.py`, `render/direct_runner.py`, `render/direct_stages/*` | containers, services, runtime caches, locks | a signal in any statement, two runs on one host | DirectRun |
| Dashboard | `cli/monitor.py` | list, tracked ids, cursor, prompt, session file | fetch thread against keys; a failing squeue | Monitor |

How they interact. `cli/submit.py` calls `core/config.py` for the variants,
checks each, calls sbatch, and writes the job's directory, which `do_sweep.py`
reads when Slurm starts it. `run()` creates registry, stop event, handler and
monitor, then calls the stages; a stage launches children and hands them to the
registry when all are up. The monitor calls `check_failures` and, on a failure,
sets the stop event and calls `cleanup`; so does the handler, which then raises
through whatever the main thread was doing. The telemetry stage puts exporters
both in the registry and in the power session, whose collector thread polls
them. The `finally` block finalizes the session, cleans up, reverts the host
state, prints, post-processes and reports. `core/status.py` is called by every
stage; `cli/monitor.py` only reads what jobs write.

What makes them correct is stated property by property in section 3;
`PROJECT.json` lists the hazards of the code line by line with the properties
that cover each.

## 2. Modules

`---` is EXTENDS, `<==` a refinement by INSTANCE.

    ProcessRegistry --- SweepLifecycle*
    PowerContract <== PowerSession*
    PowerArtifacts*
    EndpointAllocation* --- WorkerLaunch* --- Measurement*
    ServingReadiness*
    ConfigMerge --- JobSubmission*
    RunIdentity --- JobRecords*
    ServingClient --- SaBench*
    DirectRun*
    Monitor*

Each line is instantiated for TLC by a module `MC...`. A module `M*` has its
theorems in `M_proofs`; those of EndpointAllocation and WorkerLaunch are in
`Measurement_proofs` too, those of PowerSession and PowerArtifacts in
`Power_proofs`, those of SweepLifecycle and ServingReadiness in `Sweep_proofs`.

**ProcessRegistry.** The lock is held by call *frames* (`main`, `handler`,
`nested`, `monitor`), not by threads, because a handler that runs on top of the
main thread is a different holder for a `threading.Lock`. An operation is
requested, takes the lock, visits the processes one by one (`AddProcess`,
`CheckProcess`, `TerminateProcess`) and gives the lock back. A child is
`unborn`, `up`, ended by itself (`ok`, `failed`), ended by the registry
(`stopped`) or not reaped after SIGKILL (`wedged`).

**SweepLifecycle.** `SweepOrchestrator.run`: `pc` is the statement the main
thread executes next; one action per statement that changes state, and each
says which statements may raise. `RunStage` is a launch stage; `Dispatch`,
`WaitForServiceReady`, `ServeUntilStopped`, `RunBenchmarkScript` and
`RunPostEval` are the workload; `RunFinally` with `SetStop` is the `finally`
block. `SignalArrives`, `HandlerInRegistry` and `HandlerExits` are the handler,
whose frame is pushed on the main thread until it unwinds it. `Monitor` is the
monitor thread, `Environment` ends children. The power session is reduced here
to `power` and `windows`.

**PowerSession.** `main` is the position of the main thread in
`start_power_telemetry` and `stop_and_finalize`, `collector` that of the
collector thread. Rows are pairs of scrape number and device. Deadlines are
flags that the environment raises. `lost` is a history variable. It refines
**PowerContract**: rows are only added, a verdict is about rows that stay, and
rows are published only if they cover the expected devices and nothing was lost.

**PowerArtifacts.** What the audit sees: rows with time, device and card; window
files of this attempt and of an earlier one; results. The client writes a window
file statement by statement, may die at any of them, and the orchestrator
converts what a dead client left `running`. `ScanFile` is one turn of `_scan`'s
loop, in any order of files; `Judge` is coverage, consistency and device
validation. There are two clocks, one of which may be set.

**EndpointAllocation.** `Submit` counts the nodes a recipe asks for, `Carve`
takes dedicated and heterogeneous nodes off the granted list, `PlaceFullNode`
and `PlacePartialNode` are the two branches of `allocate_endpoints`, `Convert`
turns an endpoint into processes in each of the layouts (a process per node,
per GPU, per node with its ranks) and draws their ports. Heterogeneous jobs take
a number of nodes of their own for each side (`HetNodes`).
**WorkerLaunch** adds the backends' command builders: who is asked for
completions and at which port, node or data-parallel ranks, leader address,
sidecar, and what they refuse to build.
**Measurement** adds the frontend's topology, the public endpoint, the client's
placement and environment, exporters and scraper, and the profilers' windows
and output files, with what the clock cuts of a profile (`CutBy`).

**ServingReadiness.** Node threads start workers in batches and wait for each;
the gate of the frontend; `wait_for_model` and `wait_for_http_endpoints` with
what they expect; several frontends, each with a list of its own; workers that
load, serve and die. Each kind of frontend is started, and asked for its models,
in its own way; routers that see one side only, or two factors, are refused. A
worker is its endpoint and its place in it; a thread, the gate and a pass over
the URLs keep the set of workers they are done with and take the first of the
others next (`First`).

**ConfigMerge** has recipes as functions from paths to values and what merging
does to them. **JobSubmission** runs a command of `srtctl` on a file or on a
directory: expansion (both of the two in `config.py`), selection, sweeps,
checks (topology and telemetry images among them), sbatch, the directory, the
job's own load, its lockfile, and the lock applied again; `--bash` with its own
conditions and the plan it renders. An editor may change the file between any two reads.

**RunIdentity** is what a run leaves to be recognised by, as operators:
capture of a machine, its comparisons, `verify_identity`, and the CPU check of
the allocation. **JobRecords** is when each is taken, written and read, between
status endpoints that answer late, wrongly or never (`Put`, `Arrives`) and
post-processing tools that hang (`Containers`, `Ending`).

**ServingClient** is `benchmark_serving.py`: tasks that wait for a place, are in
flight, end, raise or are cancelled; the pool; the timer that lifts
`/slow_down`; gathering, interrupt and unwinding; the result file. **SaBench**
is `bench.sh` around it: warm-up and measured run per concurrency, scrape loop,
profiling hooks, `set -e`, the exit trap, and the rollup afterwards.

**DirectRun.** Two host runners with their containers and the runner in each
container: locks and imports of the runtime caches, the Dynamo that pip takes out
of the shared environment and puts in (`TakeOut`, `PutIn`), services, watch loop,
clean-up in its order, with what of it is best effort. Signals raise at any statement, a run may be killed.

**Monitor.** `ask`, `track`, `look`, `wait` are the fetch thread; keys, prompt,
cursor, viewport and sessions the main thread; jobs move on by themselves.

## 3. Runs

| Run | Question | States |
|---|---|---|
| `sweep` | do clean-up, teardown, code, status and telemetry agree at every exit, and are failures and stops acted on | 323 thousand |
| `all_children_stopped`, `teardown_on_every_exit` | two statements of the documentation that the code does not keep (section 6) | |
| `power_session` | readiness, verdict and exit code against late, lost and hanging collectors; the contract | 1.6 million |
| `power_artifacts` | does the audit publish exactly the sound artifacts | 4.5 million |
| `allocation` | from the recipe to the profilers, does everybody have a place of his own and find the others | 229 thousand |
| `serving_readiness` | when may the benchmark begin, and does it begin when all is well | 72 thousand |
| `recipe_life` | does the job run what the recipe means and what was checked | 520 thousand |
| `job_records` | is what is reported, recorded and uploaded of a job consistent, and does its clean-up end | 296 thousand |
| `sa_bench` | what does a benchmark leave behind and claim, and does it end | 102 thousand |
| `direct_run` | two runs on one host: containers, exit code, caches, the Dynamo in a shared runtime | 585 thousand |
| `monitor` | what stays listed, what a confirmed key does, does the list catch up | 929 thousand |

`CHECK_DEADLOCK FALSE` where the system ends: the orchestrator exits, a session
or a job is over, the user quits.

### Properties and bounds

**sweep.** `RegisteredStopped` (at every exit no registered process is
up); `TeardownOnIdleNodes` (host state is restored only after the clean-up);
`TruthfulSuccess` (`completed` means that the workload ended with 0 and, where
required, that telemetry was published); `WindowsInOrder` (running windows are
converted only when their writer has ended without SIGKILL, and artifacts are
published only for a client that ended by itself; the types); `CriticalFailureStops` and
`StopEndsRun` (liveness). `StopEndsRun` names the two ways in which a stop does not
end the run, both the code's, and covers every other. The main thread is caught in
the registry's lock (`SelfDeadlock`): that is a failure of the program, a finding of
section 6. Or it stays for good in one of the waits without a timeout (`UntimedPcs`:
for the copies of `_stage_model`, `do_sweep.py:513`, and after the `kill()` of the
model's download, `:432`, or of a host command, `:622`): these do not look at the
stop event, and only a signal gets the main thread out of them. `TruthfulSuccess`
leaves the exit code during the evaluation after a benchmark open (section 6). Four jobs between them use every stage and every
branch of the dispatch: a benchmark with required telemetry and host set-up; a
benchmark with lm-eval and S3; serve-only with Mooncake; eval-only with frontend
and Tachometer. One process per stage is enough for the interleavings, because a
visit concerns one process; two processes in two stages show a clean-up in
between. Two signals are the first one and the one during clean-up or handler.
The proofs have none of these bounds.

**power_session.** `ReadyMeansFullScrape` (the gate opens for one scrape that
covers all devices, not for a union of scrapes); `VerdictSound` (a live
collector fails the job, `complete` is never written over a loss, required
telemetry without readiness fails the job, and the types); `KeepsContract`
(refinement); `FinalizeEnds`. Two devices, two exporters (a launch can fail
half-way), two cycles: a scrape that misses a node, one that covers both, one
under way at shutdown.

**power_artifacts.** `ArtifactsSound`: published if and only if `Sound`, which
says what a reader relies on (every moment of every planned window lies between
two samples of each device at most `MaxGap` apart, windows agree with results,
devices with the placement) without the audit's algorithm. `MeasuredInThisRun`:
no window of an earlier attempt stands in for one of this run, unless the clock
was set back. `ScanKeepsSingletons`: a window is kept exactly if one file claims
its key, whatever the number and order of the duplicates. One node with two
GPUs, six ticks, one fault: enough for a window with two gaps, one too large.

**allocation.** `PlacementSound`: packed workers never share a GPU (where the
recipe does not mix partial and whole-node workers on shared nodes, or each side
has nodes of its own), workers get exactly the requested nodes, dedicated roles
keep theirs. `EnginesSound`: ranks and GPUs of an endpoint are covered once, and
its commands fit together: each engine has a part of its own, none is missing,
all know one leader. `AddressesApart`: no port is used twice, neither as
allocated nor as named by commands. Two conditions are named: `CountsReplicas`
(Dynamo's vLLM command ignores context parallelism, section 6) and `OneKind` (a
disaggregated recipe has no aggregated workers, which preflight checks). `ReadOnce`: no metrics endpoint is read by
two collectors, and none by nobody. `ClientPlaced`: probe, client and frontend
agree on the public endpoint and the client can reach it; a probe that is never
answered is for a recipe whose modes no preflight would let through
(`MixesKinds`) or one named in section 6. `ProfiledAsAsked`:
each worker is profiled over its mode's window into a file of its own. Recipes
come in families, each around one question (they are in `MCEndpointAllocation`),
most of them on nodes of four GPUs, which is enough for workers that fill, share,
split or overflow a node; at most nine nodes.

**serving_readiness.** `ReadinessSound`: when the benchmark may begin, every
worker a request can be routed to has served, and none that vLLM Router
advertises was dead before the last pass. `OneBatchLoads`: on a node with
sequential start never more than one batch loads. `HealthyGetsReady` (liveness):
if no worker dies, readiness is reached. Fourteen jobs, one for each way of
launching, routing and counting; two deaths.

**recipe_life.** `ExpandedExactly`: the two expansions of an override file
agree with each other, with `resolve-override`'s files and with `--bash`
wherever names and nulls do not get in the way; a recipe is turned down exactly
if one of its variants or of the points of its sweeps is bad, in a directory too,
and every variant and point of one that is taken has a job. `JobsSound`: a job
runs what its submission validated, whatever happens to the file, and fails to
start only if Slurm was too early or nothing was checked. `LockReproduces`: the
lockfile of a plain or swept job leads to the same configuration, is compared
with its own fingerprints, and a clean report means that they are equal; a plain
recipe that an edit turned into a sweep before it was read again is excluded by
`Reproducible`, its lock being a sweep's. The points of a sweep are submitted in
any order. One edit, and none in directories or with a copy of stdin; a lock is
applied after a plain apply.

**job_records.** `ReportsSound`: statuses do not go back and a failure stays
one (the artifact pointer aside), and an endpoint is told of the logs only when
they are all there. `RecordsSound`: the verification in the lock is that of the
fingerprints next to it; a report without issues means what `srtctl diff` would
show; `srtctl check` on an unchanged machine reports at most the CUDA line.
`ShortageWarned`: a snapshot that says "ok" has a CPU for each GPU. `CpusKept`: srtctl's own
writing does not lose the CPU counts. `CleanupEnds` (liveness). Six jobs, one or
two troubles each.

**sa_bench.** `MeasurementsSound`: code 0 means that each concurrency has a
complete result of its last measured run, never of a warm-up, and the rollup
holds only such. `AllUndone`: the pool outlives the requests; after a success no
worker is left slowed down; no scrape loop or profiler survives a script that
was not killed, and each series of snapshots is closed once. `ScriptEnds`
(liveness). Eight jobs of at most four requests, two slowed servers, two scrapes
in the background per result.

**direct_run.** `NothingLeftBehind`: a runner that has returned leaves no
container but those Docker would not remove, unless a signal broke off its
clean-up. `RunsSound`: code 0 means that every service started, the benchmark
ended with 0, every process is gone, and the clean-up got to compaction and
normalization where they are asked for; they are best effort in the code, and here
each is `tried` or `done`. `WholeRuntime`: if host and container saw the same
revision, the SGLang a run has imported and the cached Dynamo it has found stay whole
while others install beside it. The Dynamo it has *installed* is another matter:
wheel and sources go into the virtual environment of the shared runtime, outside
the lock, and the next run with that runtime replaces them. `venv` says whose they
are; the property keeps what is true (they are the run's own until another run
with that runtime gets to its installation, `Shared`); without that exception TLC
finds it violated within seconds (section 6). `CleansUpInOrder`
(action property): a container is removed by its own runner only, and compaction
waits for the scraper. Run `r1` has all features, `r2` shares checkout, caches
and in one layout the output directory; symmetry over revisions; safety only.
`MaxTrouble` allows one misfortune in all: a failed command, a process that exits, a
signal or a kill of either run, or one move of the checkout. Each hits a run while
the other may be at any of its steps; the proofs have no such bound.

**monitor.** `DashboardSound`: a job once shown as active stays listed until the
user deletes it, a deleted one does not come back (both may fail for a job that
was taken for over too early), and the cursor's row is on the screen.
`ConfirmedSound` (action property): a key acts on the job the prompt names, and
output is deleted only of a job that is over, unless a failed squeue hid it or the
list had it in a state the dashboard does not know. `queue` has every kind of
state squeue lists for a live job, those `_ACTIVE_STATES` omits (CONFIGURING,
SUSPENDED, REQUEUED and the like) too: the code takes such a job for over and
offers to delete its output. Such a job is `misled`, and without that exception TLC
shows a live job that loses its output (section 6).
`ListCatchesUp` (liveness). Two jobs, three lines, one trouble, three keys
that act, one resumed session.

### Fairness

- `SweepLifecycle`: weak fairness of main thread, handler and monitor: the
  operating system schedules threads, and these steps are bounded: the loops poll with a
  timeout and look at the stop event. The waits without a timeout end by an
  action of their own, `UntimedWaitEnds`, which has no fairness. None for children
  and signals either, so `StopEndsRun` starts from a stop.
- `PowerSession`: of `StopAndFinalize` and of the shutdown deadline. The
  collector has none, it may hang; that is the point of `FinalizeEnds`.
- `ServingReadiness`: of the orchestrator's polling loops, and of each worker,
  frontend and listing, because `HealthyGetsReady` is about jobs in which
  everything comes up; deaths and timeouts have none.
- `JobRecords`: of `Put` (five-second timeout), `Reported` and `Ending`, whose
  waits all have limits; none of the containers.
- `SaBench`: of the script and of the client's event loop. Requests have a limit
  of six hours, POSTs of 60 seconds, scrapes of five; the few curl calls without
  a limit are assumed to be answered.
- `Monitor`: of the fetch loop alone (`squeue` runs under a timeout).

Where the code waits with a timeout, the model offers both outcomes at once.

## 4. Proofs

For every value of the constants, from the named assumptions only.

Each invariant below was first checked by TLC on the instance of its run; where
one was not inductive, what it lacked is what the paragraph tells.

**Sweep_proofs** has SweepLifecycle and ServingReadiness, which share no variable.

*SweepLifecycle*: `TypeCorrect`, `RegisteredAreStopped`, `TeardownAfterCleanup`. `RegisteredStopped` is not inductive: why is no process
left at the exit? Because the step before it follows a clean-up whose pass was
complete. `IInv` therefore says which frame may hold the lock, that a clean-up
has visited every registered process that is not in its `todo`, that nothing is
registered once the main thread has left the try block, and, for each point of
`finally` and each handler frame on top of it, whether its clean-up is still to
come, in progress or done. A handler that leaves by `SystemExit` in the middle of
`finally` has done a clean-up of its own; this is why the property survives
although the block is cut short.

The second half of it is `SuccessIsTruthful`, `ConvertedAfterClient`,
`PublishedAfterBenchmark` and their conjunction `FilesInOrder`, which follow from
the order of the statements of `run()`. `WInv` has a part per kind of statement
(`ClientPhases`, `ModePhases`, `TelemetryPhases`, `ZeroIsSuccess`,
`CompletedLast`) and `SignalsStop`: every exit by `SystemExit` leaves
`stop_event` set, so that whoever finalizes later knows.

*ServingReadiness*: `ReadinessIsSound`, `BatchesAreKept`. `ReadinessInv` says who
has served: whoever serves, whatever a frontend lists that lists processes
(`ServedIsKept`), what a pass has found well (`PassIsTrue`), and which waits come
after which (`WaitsFollow`). A frontend's list is then complete when it is as long
as the wait asks for, and what the wait asks for is not less than there is to route
to: `EnoughExpected`, layout by layout, by an injection of the workers of a side
into its endpoints (`LeadersCounted`) or into endpoints and ranks (`RanksCounted`).
The count looks at the GPUs of one process only; that it is right needs the
endpoints of a mode to be alike, which `Valid` says because
`allocate_endpoints` makes them so (`topology.py:402-445`). For the batches,
`BatchesInOrder`: no thread has started more than its batch, and what it found
healthy does not load again; the rest is `BatchArithmetic`.

**Power_proofs** has the two power models, which share no variable.

*Session*: `SessionInv` with the parts `CycleCount`, `WriterLock`,
`CollectorThread`, `Readiness`, `KnownReasons`, `Terminal`: what each position
of the collector implies for lock, batch and sealed file; how `ready`, `gate` and
rows are related; which reasons each position of the finalizer has recorded;
what a terminal manifest was computed from. From it `TypeCorrect`,
`ReadinessIsFullScrape`, the parts of `VerdictSound` and `VerdictIsSound`, and
`ContractKept`: each step is one of `PowerContract` or leaves its variables alone.

*Artifacts*: `AuditIsExact`, `ScanIsExact`, `WindowsAreOfThisRun`.
`IInv` has the client's position and what it has written (`ClientInv`), that no
sample is older than the run unless the clock was set back (`SampleInv`), that a
completed window is an earlier attempt's or was recorded (`FileInv`), and for
the audit `AuditInv`, in which `ScanInv` says what `parsed` and
`duplicates` are after any set of files, in any order: the files that alone, or
not alone, claim their key. The other half is about operators: `CoverageExact`
shows that the code's bracketing (last sample before, inner samples, first
after, largest gap) finds exactly the windows whose every moment lies between
two close samples. That is where an induction over the samples would be used;
instead the proof takes the least or greatest sample on one side of a moment,
which exists because the sets are finite.

**Measurement_proofs** has three parts, each on top of the one before.

*Placement*: `PlacementTypes`, `PortsAreExclusive`, `PlacementIsSound`. Ports: the
counters only grow, so that what a process holds lies below them (`AllBelow`); the
ranks of a data-parallel endpoint share one NIXL block, for which one needs that
they are converted in order and stay within the block (`Granted`, `InOrder`,
`NixlFrontier`). Placement: the node list was divided once (`Carved`); whatever was
placed lies behind the node and GPU that packing has reached (`Frontier`); a side
with nodes of its own has used no more of them than its workers take
(`OnOwnNodes`, by the arithmetic of `SidesFit`); whence no GPU has two workers
(`Exclusive`).

*Commands*: `AddressesAreApart`, `EnginesAreSound`. `LaunchInv` adds
to the above which processes conversion has made of each endpoint so far
(`Made`: for each layout, process `k` has this node, these GPUs, these ranks and
the ports that go with its part), which endpoints can be on one node at all
(`Sharers`), that numbers are not used twice (`Numbered`), and that the commands
are those of launched processes that raised nothing (`Commands`). Then, backend
by backend, `CommandFits`: a command tells its address and its part of the
endpoint, as node of `n`, as ranks, or alone. `AllCovered` is the division with
remainder that makes the parts cover the whole; that the nodes are counted
right is a bijection between nodes and commands.

*Measurement*: `ClientsArePlaced`, `EveryEndpointIsReadOnce`,
`ProfilesAreThoseAsked`. Nobody in the code keeps who runs where: frontend, probe,
scraper, client and profiler each work it out from the recipe and the processes,
one stage after the other. `MeasureInv` therefore says, stage by stage, that what
was started is what a later stage works out again (`Fronts`, `Probes`,
`Exporting`, `Targets`, `Clients`, `Requests`). What it needs of placement is
that every worker the recipe counts was placed, under its number, the first of
them on the first node (`PlacesAll`). That no endpoint is left out and none is
asked twice is a bijection between the processes that serve and the requests
(`AskedOnce`); that output files differ goes through the numbers of the endpoints
(`OutputsApart`). Two things had to be said that the bounded run did not show: a
frontend `trtllm_serve` for workers of mixed modes is never ready (`MixesKinds`),
and a profile nothing has cut is told from one cut by a value of its own.

**JobSubmission_proofs**: `JobsRunWhatWasChecked`, `LockfilesReproduce`,
`RecipesAreExpandedExactly`.
`JobsSound` speaks of jobs that have started only. The invariant follows what was
checked from the item in the command's hands (`ItemInv`, `LastInv`) into the
job's directory (`Directory`), from there into what the job loads and locks
(`Records`, `History`), and from a lock into the next command and its job
(`TargetInv`, `Origin`). Where a file was read twice, `Fresh` and `Steady` say
when the two readings agree. `RemergedVariant`: merging a generated, named variant
into its base once more changes nothing, for every base and override without
null, which is why the two expansions of `config.py` can agree at all.

For `ExpandedExactly` nothing is bounded but the edits: any recipes, sections, lists
to zip, sweeps and selectors. `IsRecipe` is assumed of every file: keys and
suffixes are made of strings, no two sections have one key, and different numbers
have different numerals. `Generated` and `FromSection` say of the list of variants,
though its concatenation is a fold, what is in it: from the smallest counterexample
(`LeastNumber`), in the place of an induction. `CommentedIsGenerated` is the agreement of
the two expansions, `SuffixesDiffer` that no variant is written over another. The
invariant `XInv` has, besides the command's places (`Placed`) and what was read
(`Reading`), that every configuration before the next one is through, in hand or
queued (`Treated`, `Progress`): at the end all are, and a rejection has a bad one to
show. Verdicts on earlier recipes of a directory stay right because jobs are only
added (`Results`, `Grown`). All of it holds while `Fresh`: after an edit the
readings are of different files. Two things the bounded runs had not shown: a
null in the base under a zip section gets in the way too (`Unambiguous`), and
observability is switched off for `--bash` only if the cluster's defaults do not
switch it on (`Unobserved`).

**DirectRun_proofs**: `NothingIsLeftBehind`, `SuccessIsComplete`,
`RuntimesStayWhole`, `CleanUpKeepsOrder`. Which containers there may be at each
step of the host runner is `HostInv`; that two runs with one output directory do
not overlap, `AloneInv`; what the runner has to show for the stages behind it,
`ProgressInv`, which rests on the order of the stages (`StagesInOrder`). For
the caches, `LockInv` says at which stages a run holds the lock, and `CacheInv`
that a complete cache is whole and only an incomplete one is being written.
`VenvInv` follows the Dynamo in the shared environment: it belongs to whoever put
it in last, and a run that is past its own installation has lost it only to one
that is past the beginning of another (`SharedStays`: once shared, always
shared). Both are invariants only as long as host and container agree on the
revision (`Agreed`): otherwise a run locks one cache and installs into another,
the finding of section 6, and so does the property. `SuccessIsComplete` does not
say that compaction or normalization succeeded: a failure of theirs is a warning
and the code stays 0.

**SaBench_proofs**: `ResultsAreOfTheRun`, `WhatIsBegunIsUndone`. `ClientInv` says
where requests, pool and `/slow_down` are at each phase of the load generator,
`ScriptInv` where clients, scrape loops, profilers and results are at each step
of `bench.sh`. The halves meet in `Clients`: a process runs in two steps of the
script only, with the arguments of the turn, and the script goes on only when it
succeeded, so that the results of the turns behind are never a warm-up's. That
the rollup has as many points as there are concurrencies is shown by a bijection.

**JobRecords_proofs**: `ReportsAreSound`, `RecordsAreSound`, `CpusAreKept`. A
status never goes back because no step is reached again (`Level` bounds what was
reported so far by the step the job is at, and `LevelGrows`); a failure stays one
because the exit code stays 1 (`FailureStays`). A message carries the address of
the logs only if there is one, and there is one only when what was uploaded is
the whole directory, which no step changes afterwards (`Messages`, `Uploaded`):
late requests are covered because both are facts about what was ever sent.
Fingerprints are written by containers nobody waits for; `Looked` has the reason
why verification, lock and report still see the same ones: the job looks only
when every capture is over, because the server was healthy or the workers were
killed. `IssuesShowDiff` and `SameMachineDiff` are the comparisons themselves, for
any two fingerprints. `Metadata`: when the job finds whole metadata, srtctl is
behind its last write.

**Monitor_proofs**: `DashboardIsSound`, `ConfirmedIsSound`. `MonitorInv` ties what the
two threads see of a job at different moments: a row, a prompt or a deleted
directory that says a job is over is right about it or the job is `misled`
(`DeletedAreOver`), hidden by a failed squeue or published in a state the
dashboard does not know, which lasts because a job that is over stays so; what a list
has shown is tracked, or saved between sessions, and its directory is there
(`ShownAreTracked`); and the ids a fetch in progress will publish still hold all
of it, whatever was deleted since squeue answered (`GatherIsCurrent`). `ListOfRows`
shows that the rows have a sorted list with each of them once, for any set of jobs:
the order of the dashboard is strict and total, so a row's place is the
number of rows before it (`OrderedListing`). The cursor is a matter of lines:
lines above a row only grow (`BottomGrows`), there is a first row at the offset
(`FirstRowIs`), and the offset leaves the cursor's first line on the screen
(`OffsetFollows`), except where a taller row is drawn before it, the finding of
section 6 and the only exception (`CursorDrawn`).

Only model-checked:

- the liveness properties, fairness and ENABLED being out of the prover's reach;
- `ShortageWarned`: counts are sums and concatenations of what Slurm's variables
  say, and whether these agree with the machine is given with each allocation;

## 5. Abstractions

All modules: logging, wording and layout are left out; a hang is a step that is
never taken; a launch, a wait or a command succeeds or fails as it likes.

- *Sweep.* A registered name stands for a process. `finalize_power_telemetry`
  is two steps with any result the session can reach. Benchmark type `manual`, a
  serving loop behind the telemetry gate, is not told from `serve_only` here.
  That `check_failures` cannot tell a process the registry stopped from one that
  failed is in the model; it changes wording only.
- *Power session.* One device per node; reasons that only withhold publication
  are a free choice of `FinalizeManifest`.
- *Power artifacts.* `MaxGap` is at least 1 (`MAX_SAMPLE_GAP_SECONDS` is a
  positive constant); left-over files begin before `Start`. Malformed files are one kind each; CSV fields are sequence
  number, time, device, card. The DCGM exporter reports every GPU of a node, so
  that jobs on part of a node have unexpected devices: the placement is given.
- *Allocation.* A port is its distance from the base of its class. `gpus_per_*`
  may compute to 0 and colocated counts may be too small: such recipes are
  rejected or fail in the model as in the code. `allocate_worker`
  (`topology.py:333-395`) is never called. Configured expansion within a node, the
  permutation of data-parallel GPUs, ports derived from others and the sidecar's
  shell wrapper are left out; prefill context parallelism is 1.
- *Measurement.* What is varied around a recipe lies within `Watch`
  (`WatchesAssumption`). In the run, three worker nodes at most, six pairs of backend and frontend;
  `expand_observability` only for the publishing flag; evaluation probes the same
  endpoint. Recipes in which collectors, client and frontend disagree in a known
  way are excluded by name; each exclusion is a finding of section 6.
- *Readiness.* Workers are `srun` steps; an engine comes up when all processes of
  its endpoint have joined; timeouts are give-ups at any moment.
- *Submission.* Paths are sequences of names and fingerprints are not `None`
  (`PathsAssumption`, `PrintsAssumption`). A file is one recipe, a directory at
  least one (`FilesAssumption`, with `IsRecipe`); an index selects from a zip section
  (`SelectorsAssumption`); observability sets neither the name nor a path of a model,
  container or exporter image (`AnalyticsAssumption`). Values are tokens; aliases
  and parameters replace whole tokens.
  Items of zip lists are not mappings, and empty mappings are absent ones.
  Overrides are validated one at a time, after earlier ones were submitted.
- *Records.* Endpoints are addresses (`JobsAssumption`), and no fingerprint, version
  line or set of log files is the value that stands for none (`NoneAssumption`).
  `recipe.lock.yaml` is never copied to `logs/`. A PUT given up may
  still arrive. All processes of an endpoint write the same fingerprint file.
- *Benchmark.* When a gather is cancelled it raises at its first cancelled task, others
  in flight, or when all are over (`InterruptedGather`). A kill of the step runs no trap; a second Ctrl-C is left out. After
  a failure servers may stay slowed: the property is about success.
- *Direct run.* The Mooncake log follower is no state; a signal between `Popen`
  and the list's append is left out; the last stops of a clean-up are one step.
  Live runs have output directories of their own (`Begin`): the default names, a
  time and a process id, see to that (`direct_host_runner.py:49-54`), but nothing
  checks a directory given as `SRTCTL_OUTPUT_DIR`, and two live runs in one
  directory would take each other's containers for stale. All runs have one
  runtime key, so that they share one SGLang and its environment; other keys share
  nothing. What else pip changes in that environment (dependencies of the editable
  Dynamo, maturin) is left out, and a run that fails because its Dynamo was
  replaced is a process that exits by itself.
- *Monitor.* `d` acts on the newest list, not on the drawn one, which is why the
  prompt names the job. `--once`, the detail view and vim are left out, and so are
  two dashboards that share `/tmp/srt-dash-<user>.json`.

Hazards without a property, or that one excepts by name: the handler's deadlock;
a stop requested by the monitor during a wait without a timeout (`do_sweep.py:513`;
no document says it ends that wait); the serving loop of a serve-only job may end with 0
or 1 when monitor and loop race for a failure (`benchmark_stage.py:350`; no
document fixes the code); stale lock files of the Hugging Face cache are deleted
by age (`do_sweep.py:380`; the other job is outside of this program).

## 6. Where code and documents disagree

`PROJECT.json` has each in full with the lines it quotes. Two are shown by runs
of their own: a signal within `finally` skips the host teardown
(`TeardownOnEveryExit`, `do_sweep.py:859`), and processes between launch and
registration, and clients, which are never registered, survive the clean-up
(`AllChildrenStopped`, `do_sweep.py:795`). The others, with the
place in the models where they are visible (where a property excepts one by name,
TLC finds the property violated without the exception):

- *Orchestrator*: a handler that interrupts a registry call waits for the lock of
  the frame below it, and the process never ends (`processes.py:255`;
  `SelfDeadlock` in `StopEndsRun`); `completed` with code 0 is reported by a process
  that exits with 1 after a signal during the evaluation (`do_sweep.py:866`).
- *Power*: the shipped benchmark scripts never write a measurement window
  (`measurement_window.py:6`); with a dedicated client node two clocks are
  compared (`schema.py:2258`).
- *Placement and launch*: colocated whole-node decode workers get GPUs that
  prefill workers hold (`topology.py:411`, `Mixed`); `per_gpu` launches lose
  processes of one name (`worker_stage.py:274`); context parallelism is left out
  of ranks (`vllm.py:1163`); unsupported sidecars pass validation
  (`vllm.py:1282`); the readiness of a worker is another probe than documented
  (`worker_stage.py:444`).
- *Measurement*: clients are told `localhost` on other nodes (`sa_bench.py:77`);
  the probe asks a node without frontend (`benchmark_stage.py:174`); endpoints are
  read twice, not at all, or at a port without metrics (`telemetry.py:158`, `:126`,
  `benchmark_stage.py:680`).
- *Submission*: the two expansions differ on nulls and names (`config.py:503`);
  a lock of an override job is no recipe (`lockfile.py:229`); preflight does not
  resolve aliases (`validation.py:131`); `--bash` skips observability
  (`submit.py:1335`); `--json` loses the jobs submitted before an error
  (`submit.py:1888`); "Submitted N job(s)" counts files (`submit.py:1204`).
- *Records*: `benchmark` is reported after `failed` (`status.py:258`);
  `report_completed` sends less than documented (`status.py:207`); `srtctl check`
  finds a CUDA mismatch on the machine itself (`fingerprint.py:357`); CPU counts
  are paired with the wrong nodes (`resource_snapshot.py:168`).
- *Benchmark*: a temporary result is picked up by the rollup
  (`benchmark_serving.py:1111`).
- *Direct run*: the "per-run serving environment" is that of a runtime which runs
  share: a second run reinstalls Dynamo in it, a wheel and an editable tree of its
  own output directory, while the first serves (`runtime_stage.py:207`; `Shared` in
  `WholeRuntime`); the benchmark counts as a dead service when it ends between polls
  (`benchmark_stage.py:36`); host and container may see two revisions
  (`runtime_stage.py:63`); a signal breaks off the clean-up
  (`direct_host_runner.py:353`).
- *Monitor*: a live job in a state the dashboard does not know can be deleted
  (`monitor.py:106`), and so can one that a failed squeue hid (`:1221`; `misled` in
  `ConfirmedSound`); the
  text it looks for after a crash is never logged (`monitor.py:194`); an id that is
  no number stops the list (`monitor.py:465`); the cursor can leave the screen
  (`monitor.py:804`).

## 7. Not modelled

- *Head set-up script* (`cli/setup_head.py`): starts NATS and etcd and waits; its
  processes are one registered process of the sweep.
- *Live metrics, host sampler*: best-effort threads that write files of their own.
- *RUTER, MCP server, mock mode, interactive editor*: views of plans and recipes.
- *ingest, analysis, visualization*: offline readers of finished runs.
- *Tachometer*: vendored; its sidecar is a registered process.
- *Parts of modelled components*: rendering of flags, environments and
  configuration files (most of `schema.py`, `vllm.py`, `sglang.py`, `trtllm.py`);
  `git_state.py`; most of `direct_plan.py`; request functions other than `dynamo` and
  the runners that start one external program (AIPerf, lm-eval, MMLU, custom);
  `wait_for_port` and `wait_for_etcd`.

## 8. What is left

In this order: a common abstraction of `SweepLifecycle`'s
`power` and `PowerSession` with a refinement of each; the session file two
dashboards share; `manual` jobs in the sweep.
