------------------------ MODULE MCEndpointAllocation ------------------------
(* Recipes in families, each around one question of the placement, and what *)
(* is measured around a few of them.                                        *)
EXTENDS Measurement

All(v) == [m \in Modes |-> v]
PerMode(p, d, a) == [m \in Modes |-> CASE m = "prefill" -> p [] m = "decode" -> d [] m = "agg" -> a]

\* A recipe with nothing switched on.
Plain == [backend |-> "vllm", frontend |-> "dynamo", sidecar |-> FALSE, gpus_per_node |-> 4, nodes |-> All(None), workers |-> All(0), gpus |-> All(None),
          spread |-> FALSE, het |-> FALSE, colocation |-> FALSE, across |-> FALSE,
          dp |-> All(1), model_parallel |-> All(1), pcp |-> All(1), dp_launch_mode |-> "per_node",
          dedicated |-> {}, colocate_dedicated |-> TRUE]

\* Prefill and decode of every relation between worker and node, computed or explicit.
Disaggregated ==
    {[Plain EXCEPT !.nodes = PerMode(pn, dn, None), !.workers = PerMode(pw, dw, 0),
                   !.gpus = PerMode(pg, dg, None), !.spread = s] :
        pn \in 1..2, dn \in 0..2, pw \in 1..3, dw \in 0..3,
        pg \in {None, 1, 3, 4}, dg \in {None, 2, 4, 6}, s \in BOOLEAN}

Aggregated ==
    {[Plain EXCEPT !.nodes = PerMode(None, None, an), !.workers = PerMode(0, 0, aw),
                   !.gpus = PerMode(None, None, ag)] :
        an \in {None, 1, 2, 3}, aw \in 1..4, ag \in {None, 1, 3, 8}}

Heterogeneous ==
    {[Plain EXCEPT !.backend = "sglang", !.nodes = PerMode(pn, dn, None),
                   !.workers = PerMode(pw, dw, 0), !.gpus = PerMode(pg, None, None), !.het = TRUE, !.dedicated = d] :
        pn \in 1..2, dn \in 1..2, pw \in 1..2, dw \in 1..3, pg \in {None, 3}, d \in {{}, {"infra"}}}

Dedicated ==
    {[Plain EXCEPT !.nodes = PerMode(1, dn, None), !.workers = PerMode(1, 2, 0),
                   !.dedicated = d, !.colocate_dedicated = c] :
        dn \in 1..2, d \in SUBSET Roles, c \in BOOLEAN}

\* Neither side asks for a node: the dedicated node is all the job is granted.
NoWorkerNodes ==
    {[Plain EXCEPT !.nodes = PerMode(0, 0, None), !.workers = PerMode(1, 1, 0),
                   !.dedicated = d] : d \in SUBSET Roles \ {{}}}

\* vLLM: colocation on one node and data parallelism in both process layouts.
DataParallel ==
    {[Plain EXCEPT !.nodes = PerMode(pn, 1, None), !.workers = PerMode(pw, dw, 0),
                   !.gpus = PerMode(pg, 2, None), !.colocation = c, !.dp_launch_mode = l,
                   !.dp = PerMode(pdp, ddp, 1), !.model_parallel = PerMode(pmp, 1, 1)] :
        pn \in 1..2, pw \in 1..2, dw \in 1..2, pg \in {2, 4, 8}, c \in BOOLEAN, l \in Launches,
        pdp \in {1, 2, 4, 8}, ddp \in {1, 2}, pmp \in {1, 2, 4}}

\* Every pairing of backend, frontend and sidecar, over one and two nodes per endpoint.
Served ==
    {[Plain EXCEPT !.backend = b, !.frontend = f, !.sidecar = s,
                   !.nodes = PerMode(n, n, None), !.workers = PerMode(1, 1, 0)] :
        b \in Backends, f \in Frontends, s \in BOOLEAN, n \in 1..2}
    \cup {[Plain EXCEPT !.backend = b, !.frontend = f, !.sidecar = s,
                   !.nodes = PerMode(None, None, n), !.workers = PerMode(0, 0, w)] :
        b \in Backends, f \in Frontends, s \in BOOLEAN, n \in 1..2, w \in 1..2}

\* vLLM ranks over nodes in every way that `vllm serve`, the router and sidecars allow.
ServedRanks ==
    {[Plain EXCEPT !.frontend = f, !.sidecar = s, !.nodes = PerMode(None, None, n),
                   !.workers = PerMode(0, 0, w), !.gpus = PerMode(None, None, g),
                   !.dp_launch_mode = l, !.dp = All(dp), !.model_parallel = All(mp),
                   !.pcp = All(IF mp > 1 /\ (s \/ f # "dynamo") THEN 2 ELSE 1)] :
        f \in {"vllm", "vllm-router", "dynamo"}, s \in BOOLEAN, n \in {1, 2, 4}, w \in 1..2,
        g \in {None, 2}, l \in Launches, dp \in {1, 2, 4, 8}, mp \in {1, 2, 4, 8}}


-----------------------------------------------------------------------------
NoWindows == All(None)

\* Nothing is measured.
PlainWatch(r) ==
    [benchmark |-> "manual", run |-> "benchmark", client_placement |-> "head",
     orchestrator_placement |-> "head", multiple |-> r.frontend \notin {"vllm", "trtllm_serve"},
     additional |-> 9, urls |-> None, own_urls |-> None, kvbm |-> FALSE, publish |-> None,
     observability |-> FALSE, tachometer |-> None, dcgm |-> FALSE, node_exporter |-> FALSE,
     same_subdir |-> FALSE, power |-> FALSE, power_exporter |-> TRUE, frequency |-> 1,
     request_timeout |-> 2, join_timeout |-> None, concurrencies |-> <<1, 2>>,
     profiler |-> "none", windows |-> NoWindows, timed |-> FALSE, own_profiler_config |-> FALSE,
     slow_down |-> FALSE, mooncake |-> FALSE, wired |-> {}, blank_setup |-> FALSE,
     setup_timeout |-> 1]

Two(r, aggregated) ==
    IF aggregated THEN [r EXCEPT !.nodes = PerMode(None, None, 2), !.workers = PerMode(0, 0, 1)]
    ELSE [r EXCEPT !.nodes = PerMode(1, 2, None), !.workers = PerMode(1, 2, 0)]

\* One node for prefill and two for decode, or two nodes for one worker.
WatchedRecipes ==
    {Two([Plain EXCEPT !.backend = s[1], !.frontend = s[2], !.dedicated = d], a) :
        s \in {<<"vllm", "dynamo">>, <<"trtllm", "dynamo">>, <<"sglang", "sglang">>,
               <<"vllm", "vllm-router">>, <<"trtllm", "trtllm_serve">>, <<"vllm", "vllm">>},
        a \in BOOLEAN, d \in {{}, {"client"}, {"frontend"}, {"infra"}}}

\* Ranks of one endpoint on one node, in processes of their own.
RankedRecipes ==
    {[Plain EXCEPT !.nodes = PerMode(None, None, 1), !.workers = PerMode(0, 0, 2),
                   !.gpus = PerMode(None, None, 2), !.dp = All(2), !.dp_launch_mode = l] : l \in Launches}

ReadingWatches(r) ==
    {[PlainWatch(r) EXCEPT !.benchmark = b, !.run = run, !.observability = TRUE,
                           !.urls = u, !.kvbm = (b = "custom"), !.publish = p, !.own_urls = o,
                           !.dcgm = ~w, !.power = w, !.node_exporter = TRUE, !.tachometer = t] :
        b \in {"manual", "sa-bench", "trace-replay", "custom"}, run \in {"benchmark", "serve"},
        u \in {None, {[node |-> 1, kind |-> "sys", port |-> 0]}}, p \in {None, FALSE},
        o \in {None, {}}, w \in BOOLEAN, t \in {None, FALSE}}

PlacingWatches(r) ==
    {[PlainWatch(r) EXCEPT !.benchmark = b, !.client_placement = c, !.orchestrator_placement = o,
                           !.multiple = m, !.additional = 0, !.power = w, !.run = run] :
        b \in {"manual", "sa-bench", "custom"}, c \in Placements, o \in Placements,
        m \in BOOLEAN, w \in BOOLEAN, run \in {"benchmark", "eval"}}

ProfilingWatches(r) ==
    {[PlainWatch(r) EXCEPT !.benchmark = b, !.profiler = k, !.slow_down = TRUE, !.timed = t,
          !.own_profiler_config = t, !.windows = [m \in Modes |->
              IF (m = "agg") = is_disaggregated(r) THEN None
              ELSE [start |-> IF m = "decode" THEN 3 ELSE s, stop |-> e]]] :
        b \in {"sa-bench", "trace-replay"}, k \in Profilers \ {"none"}, t \in BOOLEAN,
        s \in {None, 1, 8}, e \in {None, 7}}

\* Each check of a recipe, on both of its sides.
CheckedWatches(r) ==
    {[PlainWatch(r) EXCEPT !.mooncake = TRUE, !.wired = s] : s \in {{}, {"decode"}}}
    \cup {[PlainWatch(r) EXCEPT !.blank_setup = b, !.setup_timeout = s] : b \in BOOLEAN, s \in 0..1}
    \cup {[PlainWatch(r) EXCEPT !.benchmark = "sa-bench", !.power = TRUE, !.frequency = f,
              !.join_timeout = j, !.concurrencies = c] :
            f \in {0, 3, 4}, j \in {None, 10, 11}, c \in {<<>>, <<1, 1>>, <<0>>, <<1, 2>>}}

MCRecipes == Served \cup ServedRanks \cup Disaggregated \cup Aggregated \cup Heterogeneous \cup Dedicated
             \cup NoWorkerNodes \cup DataParallel \cup WatchedRecipes \cup RankedRecipes

MCWatchesOf(r) == {PlainWatch(r)}
    \cup (IF r \in WatchedRecipes THEN PlacingWatches(r) ELSE {})
    \cup (IF r \in WatchedRecipes /\ r.dedicated = {} THEN ReadingWatches(r) \cup ProfilingWatches(r) ELSE {})
    \cup (IF r \in RankedRecipes THEN ProfilingWatches(r) \cup ReadingWatches(r) ELSE {})
    \cup (IF r = Plain THEN CheckedWatches(r) ELSE {})
=============================================================================
