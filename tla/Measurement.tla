----------------------------- MODULE Measurement -----------------------------
(***************************************************************************)
(* Around the started workers of WorkerLaunch, everything that has to find *)
(* them: the frontend and the public endpoint, the benchmark client, the   *)
(* exporters and the collectors of metrics, and the profilers              *)
(* (core/schema.py, core/telemetry.py, cli/mixins/*_stage.py).  Each works *)
(* out for itself, from the recipe and the processes, who runs where.      *)
(***************************************************************************)
EXTENDS WorkerLaunch

CONSTANT WatchesOf(_)  \* what is asked of the measurement of a recipe

Benchmarks == {"manual", "sa-bench", "sglang-bench", "trace-replay", "mooncake-router",
               "agentperf", "custom"}
Placements == {"head", "first_decode", "last_decode"}
Profilers == {"none", "nsys", "nsys-time", "torch"}
Windows == [start: Nat \cup {None}, stop: Nat \cup {None}]
Urls == [node: Nodes, kind: {"sys", "http", "public", "kvbm"}, port: Int]

\* run is "serve" with --serve-only and "eval" with EVAL_ONLY.  urls is the
\* AIPERF_SERVER_METRICS_URLS of the recipe's environment, own_urls that of benchmark.env.
Watch == [benchmark: Benchmarks, run: {"benchmark", "serve", "eval"},
          client_placement: Placements, orchestrator_placement: Placements,
          multiple: BOOLEAN, additional: Nat,
          urls: (SUBSET Urls) \cup {None}, own_urls: (SUBSET Urls) \cup {None}, kvbm: BOOLEAN,
          publish: BOOLEAN \cup {None}, observability: BOOLEAN, tachometer: BOOLEAN \cup {None},
          dcgm: BOOLEAN, node_exporter: BOOLEAN, same_subdir: BOOLEAN,
          power: BOOLEAN, power_exporter: BOOLEAN, frequency: Nat,
          request_timeout: Nat, join_timeout: Nat \cup {None}, concurrencies: Seq(Int),
          profiler: Profilers, windows: [Modes -> Windows \cup {None}], timed: BOOLEAN,
          own_profiler_config: BOOLEAN, slow_down: BOOLEAN,
          mooncake: BOOLEAN, wired: SUBSET Modes,
          blank_setup: BOOLEAN, setup_timeout: Int]

ASSUME WatchesAssumption == \A r \in Recipes : WatchesOf(r) \subseteq Watch

VARIABLES watch,
          stage,      \* "load", "launch", "frontend", "power", "scraping", "ready",
                      \* "measuring", "profiling"; or how the job ended before
          proxy,      \* the node of nginx, or None
          frontends,  \* the frontend processes: [node, port]
          exporters,  \* [node, kind, owner]
          targets,    \* the URLs Tachometer scrapes
          client,     \* the benchmark client
          asked       \* profiling requests of the client's script

measuring == <<watch, stage, proxy, frontends, exporters, targets, client, asked>>
measureVars == <<allVars, measuring>>

-----------------------------------------------------------------------------
(* SrtConfig.__post_init__: what is checked when the recipe is loaded.     *)

TachometerOn == IF watch.tachometer = None THEN watch.observability ELSE watch.tachometer

\* expand_observability sets the flag unless the recipe does.
Publishes == Or(watch.publish, watch.observability)

AcceptsSetup == ~watch.blank_setup /\ watch.setup_timeout >= 1

AcceptsPlacement ==
    /\ "frontend" \in recipe.dedicated => watch.orchestrator_placement = "head"
    /\ "client" \in recipe.dedicated => watch.client_placement = "head"

AcceptsSingleFrontend == recipe.frontend \in {"trtllm_serve", "vllm"} => ~watch.multiple

AcceptsMooncake ==
    watch.mooncake /\ is_disaggregated(recipe) /\ recipe.backend \in {"sglang", "vllm"} =>
        watch.wired \cap {"prefill", "decode"} # {}

ServedModes == IF is_disaggregated(recipe) THEN {"prefill", "decode"} ELSE {"agg"}

AcceptsProfiling ==
    \/ watch.profiler = "none"
    \/ watch.profiler = "nsys-time" /\ watch.timed
    \/ /\ watch.profiler \in {"nsys", "torch"}
       /\ watch.profiler = "torch" => recipe.backend # "trtllm"
       /\ \A m \in Modes : watch.windows[m] # None <=> m \in ServedModes
       /\ \A m \in ServedModes : recipe.workers[m] > 0
       /\ watch.profiler = "nsys" /\ recipe.backend = "vllm" => ~watch.own_profiler_config

MaxSampleGap == 3
TwoCycles == 2 * (2 * watch.request_timeout + 1)
JoinTimeout == Or(watch.join_timeout, TwoCycles + 2)

\* Samples and windows are to be stamped on one host.
SharesClock == watch.client_placement = "head" /\ "infra" \notin recipe.dedicated

AcceptsPower ==
    watch.power =>
        /\ watch.power_exporter /\ watch.frequency \in 1..MaxSampleGap
        /\ watch.request_timeout > 0 /\ JoinTimeout > TwoCycles
        /\ watch.benchmark = "sa-bench" /\ SharesClock
        /\ watch.concurrencies # <<>>
        /\ \A i, j \in DOMAIN watch.concurrencies :
              /\ watch.concurrencies[i] > 0
              /\ i # j => watch.concurrencies[i] # watch.concurrencies[j]

AcceptsObservability ==
    /\ watch.tachometer = TRUE => watch.observability
    /\ TachometerOn /\ watch.power => ~watch.dcgm /\ ~watch.same_subdir

AcceptsWatch == /\ AcceptsSetup /\ AcceptsPlacement /\ AcceptsSingleFrontend
                /\ AcceptsMooncake /\ AcceptsProfiling /\ AcceptsPower /\ AcceptsObservability

-----------------------------------------------------------------------------
(* Who runs where.                                                         *)

WorkerNodes == UNION {pool[m].first..pool[m].last : m \in Modes}
HeadNode == IF "frontend" \in recipe.dedicated THEN reserved["frontend"] ELSE Min(WorkerNodes)
Bench == IF "client" \in recipe.dedicated THEN reserved["client"] ELSE HeadNode

Leaders(m) == {p \in processes : IsLeader(p) /\ Mode(p) = m}
Index(p) == endpoints[p.endpoint].index

\* placed_node; decode workers take nodes in ascending order.
NoSuchNode(placement) == placement # "head" /\ Leaders("decode") = {}
PlacedNode(placement, head) ==
    LET nodes == {p.node : p \in Leaders("decode")}
    IN  CASE placement = "head"         -> head
          [] placement = "first_decode" -> Min(nodes)
          [] placement = "last_decode"  -> Max(nodes)

OrchestratorNode == PlacedNode(watch.orchestrator_placement, HeadNode)

\* Mutant: direct vLLM answers where the orchestrator would be.
PublicApiNode_orchestrator == OrchestratorNode

PublicApiNode == IF recipe.frontend = "vllm" /\ Cardinality(Leaders("agg")) = 1
                   THEN (CHOOSE p \in Leaders("agg") : TRUE).node
                   ELSE OrchestratorNode

BenchmarkNode == IF watch.client_placement = "head" THEN Bench
                 ELSE PlacedNode(watch.client_placement, HeadNode)

\* _compute_frontend_topology.
InternalPort == FrontendPort - 1
SingleFrontend == Cardinality(WorkerNodes) = 1 \/ ~watch.multiple
OtherNodes == WorkerNodes \ {HeadNode}
FrontendNodes == IF SingleFrontend THEN {OrchestratorNode}
                 ELSE {n \in OtherNodes :
                         Cardinality({k \in OtherNodes : k < n}) <= watch.additional}
FrontendUrlPort == IF SingleFrontend THEN FrontendPort ELSE InternalPort

\* The worker itself serves the public endpoint: no frontend is started.
Direct == \/ recipe.frontend = "vllm"
          \/ recipe.frontend = "trtllm_serve" /\ ~is_disaggregated(recipe)

-----------------------------------------------------------------------------
(* The metrics URLs of the workers, and who reads which.                   *)

Url(n, kind, port) == [node |-> n, kind |-> kind, port |-> port]
SysUrl(p) == Url(p.node, "sys", p.sys)
HttpUrl(p) == Url(p.node, "http", p.http)
PublicUrl(p) == Url(p.node, "public", 0)

WithHttp == {p \in processes : p.http # None}

\* _logical_worker_endpoints: one entry for each engine that requests can be sent to.
LogicalWorkers ==
    IF recipe.frontend = "vllm-router" THEN WithHttp ELSE {p \in processes : IsLeader(p)}
LogicalUrl(p) == CASE recipe.frontend = "dynamo" -> SysUrl(p)
                   [] recipe.frontend = "vllm"   -> PublicUrl(p)
                   [] OTHER                      -> HttpUrl(p)

KvbmUrls == IF ~watch.kvbm THEN {}
            ELSE {Url(p.node, "kvbm", 0) : p \in Leaders("prefill") \cup Leaders("agg")}

\* _get_aiperf_server_metrics_env.
LogicalMetrics == {LogicalUrl(p) : p \in LogicalWorkers} \cup KvbmUrls
PhysicalMetrics ==
    CASE recipe.frontend = "vllm-router" -> {HttpUrl(p) : p \in WithHttp}
      [] recipe.frontend = "vllm"        -> {PublicUrl(p) : p \in Leaders("agg")}
      [] OTHER -> KvbmUrls \cup IF recipe.backend # "trtllm" \/ Publishes
                                 THEN {SysUrl(p) : p \in processes} ELSE {}

AIPerf == watch.benchmark \in {"trace-replay", "mooncake-router"}
InjectedUrls == CASE watch.benchmark = "custom" -> LogicalMetrics
                  [] AIPerf                     -> PhysicalMetrics
                  [] OTHER                      -> {}

\* Mutant: a run without a client is not set apart.
ClientPolledUrls_always == IF watch.urls # None THEN watch.urls ELSE InjectedUrls

\* _client_polled_metric_urls: what Tachometer leaves to the client.
ClientPolledUrls == IF watch.run = "serve" THEN {}
                    ELSE IF watch.urls # None THEN watch.urls
                    ELSE InjectedUrls

\* The client's environment; benchmark.env is applied last.  Only a client that is, or
\* wraps, AIPerf reads the variable.
ClientUrls == IF ~AIPerf /\ watch.benchmark # "custom" THEN {}
              ELSE IF watch.benchmark = "custom" /\ watch.own_urls # None THEN watch.own_urls
              ELSE IF watch.urls # None THEN watch.urls
              ELSE InjectedUrls

\* generate_tachometer_config: its entries for the workers.
WorkerTargets ==
    CASE recipe.frontend = "vllm-router" -> {HttpUrl(p) : p \in WithHttp}
      [] recipe.frontend = "vllm"        -> {PublicUrl(p) : p \in Leaders("agg")}
      [] OTHER                           -> {SysUrl(p) : p \in processes}

FrontendTargets ==
    LET nodes == IF recipe.frontend = "vllm" /\ Leaders("agg") # {}
                   THEN {p.node : p \in Leaders("agg")} ELSE FrontendNodes
    IN  {Url(n, "frontend", FrontendUrlPort) : n \in nodes}

HostNodes == {p.node : p \in processes}
ExporterTargets ==
    {Url(n, "dcgm", 0) : n \in IF watch.power \/ watch.dcgm THEN HostNodes ELSE {}}
    \cup {Url(n, "node_exporter", 0) : n \in IF watch.node_exporter THEN HostNodes ELSE {}}

TachometerTargets == (WorkerTargets \ ClientPolledUrls) \cup FrontendTargets \cup ExporterTargets

-----------------------------------------------------------------------------
(* Profiling.                                                              *)

IsNsys == watch.profiler \in {"nsys", "nsys-time"}

\* get_nsys_prefix, for every backend: what opens and closes the capture of a worker, the
\* clock that starts with it or its own calls of cudaProfilerApi.
CutBy == IF ~IsNsys THEN "nobody" ELSE IF watch.profiler = "nsys-time" THEN "clock" ELSE "worker"

\* per_process_nsys_output; TRT-LLM's single srun appends the rank of each task.
NsysOutput(p) == <<p.node, Mode(p), Index(p), p.rank>>

Given(w) == w # None /\ w.start # None /\ w.stop # None

\* The window a worker is started with: vLLM's --profiler-config, TRT-LLM's
\* TLLM_PROFILE_START_STOP.  None when it has no window of its own.
WorkerWindow(p) ==
    LET w == watch.windows[Mode(p)]
    IN  IF watch.profiler = "nsys" /\ recipe.backend \in {"vllm", "trtllm"} /\ Given(w)
          THEN [start |-> w.start, steps |-> Max({w.stop - w.start, 0})]
          ELSE None

\* Mutant: every mode gets the decode window, when there is one.
ScriptWindow_decode(m) ==
    LET w == IF watch.windows["decode"] # None THEN watch.windows["decode"] ELSE watch.windows[m]
        start == IF w = None THEN 0 ELSE Or(w.start, 0)
    IN  [start |-> start, steps |-> (IF w = None THEN 50 ELSE Or(w.stop, 50)) - start]

\* PROFILE_<MODE>_START_STEP and _STOP_STEP, with the defaults of profiling.sh.
ScriptWindow(m) ==
    LET w == watch.windows[m]
        start == IF w = None THEN 0 ELSE Or(w.start, 0)
    IN  [start |-> start, steps |-> (IF w = None THEN 50 ELSE Or(w.stop, 50)) - start]

\* Which runner's script asks the workers for profiles; trace-replay's takes the empty
\* profiling_trtllm.sh for TRT-LLM, and the time-based profiler needs no asking.
ScriptProfiles ==
    /\ watch.profiler \in {"nsys", "torch"}
    /\ \/ watch.benchmark \in {"sa-bench", "sglang-bench"}
       \/ watch.benchmark = "trace-replay" /\ recipe.backend # "trtllm"

\* Workers are asked with PROFILE_<MODE>_ENDPOINTS; an empty window is skipped.
ToAsk == {p \in LogicalWorkers : ScriptProfiles /\ ScriptWindow(Mode(p)).steps > 0}
ProfileRequest(p) == [url |-> LogicalUrl(p), start |-> ScriptWindow(Mode(p)).start,
                      steps |-> ScriptWindow(Mode(p)).steps]

\* SA_BENCH_SLOW_DOWN_URLS.
SlowDownUrls == IF watch.slow_down /\ watch.benchmark = "sa-bench" /\ recipe.frontend = "sglang"
                  THEN {HttpUrl(p) : p \in Leaders("decode")} ELSE {}

-----------------------------------------------------------------------------
NoClient == [node |-> None, asks |-> None, urls |-> {}, slow |-> {}, stamps |-> FALSE]

MeasureInit ==
    /\ LaunchInit
    /\ watch \in WatchesOf(recipe)
    /\ stage = "load"
    /\ proxy = None /\ frontends = {} /\ exporters = {} /\ targets = {}
    /\ client = NoClient
    /\ asked = {}

Loaded(accepted) ==
    /\ stage = "load"
    /\ stage' = IF accepted THEN "launch" ELSE "rejected"
    /\ UNCHANGED <<allVars, watch, proxy, frontends, exporters, targets, client, asked>>

LoadAccepts == AcceptsWatch /\ Loaded(TRUE)
LoadRejects == ~AcceptsWatch /\ Loaded(FALSE)

Build == stage = "launch" /\ LaunchNext /\ UNCHANGED measuring

\* start_frontend: nginx, then the frontends of the topology.
StartFrontends ==
    /\ stage = "launch" /\ launch = "started"
    /\ ~SingleFrontend \/ ~NoSuchNode(watch.orchestrator_placement)
    /\ stage' = "frontend"
    /\ proxy' = IF SingleFrontend THEN None ELSE HeadNode
    /\ frontends' = IF Direct THEN {}
                    ELSE {[node |-> n, port |-> FrontendUrlPort] : n \in FrontendNodes}
    /\ UNCHANGED <<allVars, watch, exporters, targets, client, asked>>

Raised == /\ stage' = "raised"
          /\ UNCHANGED <<allVars, watch, proxy, frontends, exporters, targets, client, asked>>

PlacementRaises ==
    /\ stage = "launch" /\ launch = "started"
    /\ SingleFrontend /\ NoSuchNode(watch.orchestrator_placement)
    /\ Raised

OnHosts(kind, owner) == {[node |-> n, kind |-> kind, owner |-> owner] : n \in HostNodes}

\* EVAL_ONLY has nothing to measure.
StartPower ==
    /\ stage = "frontend"
    /\ stage' = "power"
    /\ exporters' = IF watch.power /\ watch.run # "eval" THEN OnHosts("dcgm", "power") ELSE {}
    /\ UNCHANGED <<allVars, watch, proxy, frontends, targets, client, asked>>

StartScraper ==
    /\ stage = "power"
    /\ stage' = "scraping"
    /\ targets' = IF TachometerOn THEN TachometerTargets ELSE {}
    /\ exporters' = exporters
           \cup (IF TachometerOn /\ watch.dcgm /\ ~watch.power
                   THEN OnHosts("dcgm", "tachometer") ELSE {})
           \cup (IF TachometerOn /\ watch.node_exporter
                   THEN OnHosts("node_exporter", "tachometer") ELSE {})
    /\ UNCHANGED <<allVars, watch, proxy, frontends, client, asked>>

\* Where the public port is open: nginx, a single frontend, or the worker itself.
PublicNodes == {n \in Nodes : \/ n = proxy
                              \/ \E f \in frontends : f.node = n /\ f.port = FrontendPort
                              \/ \E c \in commands : c.node = n /\ c.serves = FrontendPort}

\* The readiness probe of run_benchmark asks at the public endpoint; so does an evaluation.
ProbeRaises == recipe.frontend # "vllm" /\ NoSuchNode(watch.orchestrator_placement)

Probed ==
    /\ stage = "scraping"
    /\ stage' = CASE ProbeRaises -> "raised"
                  [] ~ProbeRaises /\ PublicApiNode \in PublicNodes -> "ready"
                  [] OTHER -> "unready"
    /\ UNCHANGED <<allVars, watch, proxy, frontends, exporters, targets, client, asked>>

\* No client: an evaluation, --serve-only or benchmark.type: manual.
ServeOnly ==
    /\ stage = "ready"
    /\ watch.run # "benchmark" \/ watch.benchmark = "manual"
    /\ stage' = "measuring"
    /\ UNCHANGED <<allVars, watch, proxy, frontends, exporters, targets, client, asked>>

HasClient == stage = "ready" /\ watch.run = "benchmark" /\ watch.benchmark # "manual"

\* Built-in runners go to localhost; a custom command and agentperf to $SRT_FRONTEND_HOST.
StartClient ==
    /\ HasClient /\ ~NoSuchNode(watch.client_placement)
    /\ stage' = "measuring"
    /\ client' = [node |-> BenchmarkNode,
                  asks |-> IF watch.benchmark \in {"agentperf", "custom"}
                             THEN PublicApiNode ELSE BenchmarkNode,
                  urls |-> ClientUrls, slow |-> SlowDownUrls, stamps |-> watch.power]
    /\ UNCHANGED <<allVars, watch, proxy, frontends, exporters, targets, asked>>

ClientRaises == HasClient /\ NoSuchNode(watch.client_placement) /\ Raised

\* start_all_profiling of the client's script; only two frontends have a path for it.
StartProfiling ==
    /\ stage = "measuring" /\ client # NoClient /\ ScriptProfiles
    /\ IF ToAsk = {} \/ recipe.frontend \in {"dynamo", "sglang"}
         THEN stage' = "profiling" /\ asked' = {ProfileRequest(p) : p \in ToAsk}
         ELSE stage' = "aborted" /\ UNCHANGED asked
    /\ UNCHANGED <<allVars, watch, proxy, frontends, exporters, targets, client>>

MeasureNext ==
    \/ LoadAccepts \/ LoadRejects \/ Build
    \/ StartFrontends \/ PlacementRaises \/ StartPower \/ StartScraper
    \/ Probed \/ ServeOnly \/ StartClient \/ ClientRaises \/ StartProfiling

MeasureSpec == MeasureInit /\ [][MeasureNext]_measureVars

-----------------------------------------------------------------------------
(* Properties                                                              *)

\* The worker metrics that exist: Dynamo's on the system port, the router's workers'
\* where they serve.
WorkerSurface ==
    IF recipe.frontend = "dynamo" THEN {SysUrl(p) : p \in Launched}
    ELSE {Url(c.node, "http", c.serves) : c \in {d \in commands : d.serves # None}}

\* The client polls what Tachometer leaves to it: there is one, and nothing but
\* the recipe's environment tells it to poll something else.
ClientKeepsWord ==
    /\ watch.run # "eval" /\ watch.own_urls = None
    /\ watch.urls # None => watch.run = "serve" \/ AIPerf \/ watch.benchmark = "custom"

Scraped == stage = "measuring" /\ TachometerOn /\ ClientKeepsWord

\* An endpoint "is never double-polled" (core/telemetry.py), nor forgotten: with Tachometer
\* on, each worker's metrics are read by it or by the client, and not by both; it knows
\* every frontend, and behind each exporter it reads there is one exporter.
ReadOnce ==
    /\ Scraped /\ recipe.frontend \in {"dynamo", "vllm-router"} =>
           /\ \A u \in WorkerSurface : (u \in targets) # (u \in client.urls)
           /\ {[node |-> u.node, port |-> u.port] : u \in {t \in targets : t.kind = "frontend"}}
                = frontends
    /\ \A e, f \in exporters : e # f => e.node # f.node \/ e.kind # f.kind
    /\ stage = "scraping" /\ watch.run # "eval" =>
         \A t \in targets : t.kind \in {"dcgm", "node_exporter"} =>
           \E e \in exporters : e.node = t.node /\ e.kind = t.kind

\* nginx does not follow an override of the orchestrator's place.
Unfollowed == watch.orchestrator_placement # "head" /\ ~SingleFrontend

\* A dedicated frontend node stays empty when the worker itself is the frontend.
Superfluous == Direct /\ "frontend" \in recipe.dedicated

\* Workers of two sides besides the aggregated ones: refused by preflight
\* (validation.py, validate_topology), not by the schema.
MixesKinds(r) == r.workers["agg"] > 0 /\ (r.workers["prefill"] > 0 \/ r.workers["decode"] > 0)

\* The client is sent to where the orchestrator is.
ByLocalhost == /\ Bench = HeadNode /\ watch.client_placement = watch.orchestrator_placement
               /\ ~Unfollowed /\ ~Superfluous

\* The stages agree on who is where: the public endpoint is probed where one answers, the
\* client reaches it (by localhost unless it was sent to another node), and a client that
\* stamps windows runs beside the collector on the first node, with whose clock they are
\* compared.
ClientPlaced ==
    /\ stage = "unready" =>
         Unfollowed \/ (recipe.frontend = "trtllm_serve" /\ (Superfluous \/ MixesKinds(recipe)))
    /\ client # NoClient =>
         /\ ByLocalhost \/ watch.benchmark \in {"agentperf", "custom"} => client.asks \in PublicNodes
         /\ client.stamps /\ "client" \notin recipe.dedicated => client.node = 1

\* Every worker that is to be profiled is asked once, at the port it serves, for the
\* window of its own mode, which is the window the worker was itself started with, unless
\* the clock cuts its profile; no two workers write to one profile; and only decode workers are slowed down.
ProfiledAsAsked ==
    /\ stage = "profiling" /\ recipe.frontend # "vllm-router" =>
         LET wanted == {p \in processes : /\ IsLeader(p)
                                          /\ Given(watch.windows[Mode(p)])
                                          /\ watch.windows[Mode(p)].start < watch.windows[Mode(p)].stop}
         IN  /\ \A p \in wanted : \E a \in asked :
                   /\ a.url.node = p.node
                   /\ IF recipe.frontend = "dynamo" THEN a.url.port = p.sys
                      ELSE \E c \in commands : /\ c.endpoint = p.endpoint
                                               /\ c.node = p.node /\ c.serves = a.url.port
                   /\ a.start = watch.windows[Mode(p)].start
                   /\ a.start + a.steps = watch.windows[Mode(p)].stop
                   /\ WorkerWindow(p) \in {None, [start |-> a.start, steps |-> a.steps]}
             /\ Cardinality(asked) = Cardinality(ToAsk)
    /\ stage = "profiling" /\ CutBy = "clock" => asked = {}
    /\ launch = "started" /\ CutBy # "nobody" =>
         \A p, q \in Launched : p # q => NsysOutput(p) # NsysOutput(q)
    /\ \A u \in client.slow : \E c \in commands :
         endpoints[c.endpoint].mode = "decode" /\ c.node = u.node /\ c.serves = u.port
=============================================================================
