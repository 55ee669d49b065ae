-------------------------- MODULE ServingReadiness --------------------------
(***************************************************************************)
(* From launching the workers to the moment the benchmark may begin: the   *)
(* worker stage starts one srun per worker, in batches if the recipe says  *)
(* so (cli/mixins/worker_stage.py), the frontend stage starts the public   *)
(* endpoint (frontends/), and the benchmark stage polls it until it has    *)
(* as many workers as the recipe must have (core/health.py).               *)
(*                                                                         *)
(* How many it must have, what was launched and what a frontend counts are *)
(* three computations in three files.                                      *)
(***************************************************************************)
EXTENDS Integers, Sequences, FiniteSets, FiniteSetsExt

CONSTANTS Jobs,        \* backend, frontend, placed endpoints and layout
          MaxDeaths    \* bound: workers that exit by themselves

Modes == {"prefill", "decode", "agg"}
Frontends == {"dynamo", "sglang", "vllm-router", "trtllm_serve", "vllm"}

\* An endpoint of the placement: mode, nodes and how many GPUs it has of each.
Endpoint == [mode: Modes, nodes: Seq(Nat), gpus: Nat \ {0}]

\* model_parallel is TP*PP; more routers than one are behind nginx.
Job == [backend: {"vllm", "sglang", "trtllm"}, frontend: Frontends, endpoints: Seq(Endpoint),
        dp: [Modes -> Nat \ {0}], model_parallel: [Modes -> Nat \ {0}],
        dp_launch_mode: {"per_node", "per_gpu"}, sequential_node_start: Nat,
        routers: Nat \ {0}]

HasMode(j, m) == \E n \in DOMAIN j.endpoints : j.endpoints[n].mode = m
IsDirect(j) == \/ j.frontend = "vllm"
               \/ j.frontend = "trtllm_serve" /\ HasMode(j, "agg")

\* How the endpoints of a mode become processes.
Layout(j, m) ==
    IF j.backend = "trtllm" THEN "mpi"
    ELSE IF j.backend # "vllm" \/ j.frontend = "vllm" \/ j.dp[m] = 1 THEN "standard"
    ELSE IF j.dp_launch_mode = "per_gpu" THEN "per_gpu"
    ELSE "per_node"

\* What loading a recipe, placing its workers and converting its endpoints let through.
Valid(j) ==
    /\ j.frontend \in {"vllm", "vllm-router"} => j.backend = "vllm"
    /\ j.frontend = "sglang" => j.backend = "sglang"
    /\ j.frontend = "trtllm_serve" => j.backend = "trtllm"
    /\ (HasMode(j, "agg") <=> ~HasMode(j, "prefill") /\ ~HasMode(j, "decode"))
    /\ IsDirect(j) => Len(j.endpoints) = 1 /\ HasMode(j, "agg")
    /\ j.frontend \in {"vllm", "trtllm_serve"} => j.routers = 1
    /\ j.frontend = "vllm-router" => j.dp_launch_mode = "per_node"
    /\ j.sequential_node_start > 0 => j.backend = "trtllm"
    /\ \A n \in DOMAIN j.endpoints :
          LET e == j.endpoints[n]
          IN  /\ e.nodes # <<>>
              /\ \A k \in DOMAIN j.endpoints :
                    j.endpoints[k].mode = e.mode => j.endpoints[k].gpus = e.gpus
              /\ Layout(j, e.mode) \in {"per_gpu", "per_node"} =>
                    j.dp[e.mode] * j.model_parallel[e.mode] = e.gpus * Len(e.nodes)
              /\ Layout(j, e.mode) = "per_gpu" => j.model_parallel[e.mode] = 1

ASSUME JobsAssumption == Jobs \subseteq Job /\ \A j \in Jobs : Valid(j)
ASSUME MaxDeathsAssumption == MaxDeaths \in Nat

VARIABLES job, at,
          thread,      \* of each node: how far start_node_workers has come
          worker,      \* srun by srun: "off", "loading", "serving" or "dead"
          served,      \* the workers that have ever served
          managed,     \* the workers the registry, and so the monitor, knows
          stop_event,  \* set by the monitor
          gate,        \* workers the trtllm-serve frontend has waited for
          front,       \* nginx (0) and each frontend process: "off", "loading" or "up"
          listed,      \* the workers each frontend counts
          pass,        \* one pass over the advertised URLs
          deaths

readinessVars ==
    <<job, at, thread, worker, served, managed, stop_event, gate, front, listed, pass, deaths>>

-----------------------------------------------------------------------------
(* The workers of a job: one for each srun.                                *)

SpansNodes(j, e) == j.model_parallel[e.mode] > e.gpus

\* rank counts the processes of an endpoint; http says that it is given an HTTP port.
ProcessesOf(j, n) ==
    LET e == j.endpoints[n]
        Proc(node, rank, gpus, http) ==
            [endpoint |-> n, mode |-> e.mode, node |-> node, rank |-> rank,
             gpus |-> gpus, http |-> http]
    IN  CASE Layout(j, e.mode) = "mpi" -> << Proc(e.nodes[1], 0, e.gpus, TRUE) >>
          [] Layout(j, e.mode) = "per_gpu" ->
               [k \in 1..(Len(e.nodes) * e.gpus) |->
                   Proc(e.nodes[((k - 1) \div e.gpus) + 1], k - 1, 1, k = 1)]
          [] OTHER ->
               [k \in DOMAIN e.nodes |->
                   Proc(e.nodes[k], k - 1, e.gpus,
                        k = 1 \/ (Layout(j, e.mode) = "per_node" /\ ~SpansNodes(j, e)))]

Processes == [j \in Jobs |-> [n \in DOMAIN j.endpoints |-> ProcessesOf(j, n)]]

\* A worker is its endpoint and its place in it, in the order in which they are listed.
WorkersOf == [j \in Jobs |-> UNION {{n} \X DOMAIN Processes[j][n] : n \in DOMAIN Processes[j]}]
Workers == WorkersOf[job]
Proc(w) == Processes[job][w[1]][w[2]]
Peers(w) == {v \in Workers : v[1] = w[1]}

Before(v, w) == v[1] < w[1] \/ (v[1] = w[1] /\ v[2] < w[2])
First(ws) == CHOOSE w \in ws : \A v \in ws : v = w \/ Before(w, v)

\* The name under which a worker is managed; of several with one name the last is kept.
Name(w) == <<Proc(w).mode, Proc(w).endpoint, Proc(w).node>>
Kept == {w \in Workers : \A v \in Workers : Before(w, v) => Name(v) # Name(w)}

\* The workers a request can be sent to.
Routable ==
    {w \in Workers :
        IF job.frontend = "vllm-router" \/ Layout(job, Proc(w).mode) # "per_gpu"
          THEN Proc(w).http ELSE TRUE}

\* Ranks behind one advertised URL.
RoutedDpSize(w) ==
    LET m == Proc(w).mode
    IN  IF job.dp[m] = 1 \/ job.model_parallel[m] > Proc(w).gpus THEN 1
        ELSE Proc(w).gpus \div job.model_parallel[m]

-----------------------------------------------------------------------------
(* Starting the workers.                                                   *)

Sequential(j) == j.sequential_node_start > 0
Concurrency(j) == IF Sequential(j) THEN j.sequential_node_start ELSE Cardinality(WorkersOf[j])

Nodes == {Proc(w).node : w \in Workers}

\* What the thread of a node starts; without batches one thread starts it all.
StartedOn(n) ==
    IF Sequential(job) THEN {w \in Workers : Proc(w).node = n}
    ELSE IF n = Proc(First(Workers)).node THEN Workers ELSE {}

\* The workers that a batch ends with.
Batch(n) == Concurrency(job) * ((Cardinality(thread[n].healthy) \div Concurrency(job)) + 1)
ThreadOver(n) == thread[n].failed \/ thread[n].started = StartedOn(n)

StartWorker(n) ==
    /\ at = "workers" /\ ~ThreadOver(n)
    /\ Cardinality(thread[n].started) < Batch(n)
    /\ LET w == First(StartedOn(n) \ thread[n].started)
       IN  /\ thread' = [thread EXCEPT ![n].started = @ \cup {w}]
           /\ worker' = [worker EXCEPT ![w] = "loading"]
    /\ UNCHANGED <<job, at, served, managed, stop_event, gate, front, listed, pass, deaths>>

\* The worker of the batch that the thread is waiting for.
Awaited(n) == First(thread[n].started \ thread[n].healthy)
WaitsForBatch(n) ==
    /\ at = "workers" /\ ~ThreadOver(n)
    /\ Cardinality(thread[n].started) = Batch(n)

\* Mutant: waits for the first worker of a batch only.
WorkerHealthy_first(n) ==
    /\ WaitsForBatch(n)
    /\ worker[Awaited(n)] = "serving"
    /\ thread' = [thread EXCEPT ![n].healthy = thread[n].started]
    /\ UNCHANGED <<job, at, worker, served, managed, stop_event, gate, front, listed, pass, deaths>>

WorkerHealthy(n) ==
    /\ WaitsForBatch(n)
    /\ worker[Awaited(n)] = "serving"
    /\ thread' = [thread EXCEPT ![n].healthy = @ \cup {Awaited(n)}]
    /\ UNCHANGED <<job, at, worker, served, managed, stop_event, gate, front, listed, pass, deaths>>

\* After max_attempts; the wait has no stop_event.
WorkerNotHealthy(n) ==
    /\ WaitsForBatch(n)
    /\ worker[Awaited(n)] # "serving"
    /\ thread' = [thread EXCEPT ![n].failed = TRUE]
    /\ UNCHANGED <<job, at, worker, served, managed, stop_event, gate, front, listed, pass, deaths>>

\* The pool waits for the threads of every node before an exception of one is seen.
AllStarted ==
    /\ at = "workers"
    /\ \A n \in Nodes : ThreadOver(n)
    /\ IF \E n \in Nodes : thread[n].failed
         THEN at' = "failed" /\ UNCHANGED managed
         ELSE at' = "frontend" /\ managed' = Kept
    /\ UNCHANGED <<job, thread, worker, served, stop_event, gate, front, listed, pass, deaths>>

-----------------------------------------------------------------------------
(* Starting the frontend.                                                  *)

\* trtllm-serve's orchestrator "does not retry unreachable workers".
Gated == IF job.frontend = "trtllm_serve" /\ ~IsDirect(job) THEN Workers ELSE {}

\* Prefill workers first.
NextGated ==
    LET left == Gated \ gate
        prefill == {w \in left : Proc(w).mode = "prefill"}
    IN  First(IF prefill # {} THEN prefill ELSE left)

\* A router of prefill workers and of decode workers is not made without either.
Missing(ws) == ~HasMode(job, "agg") /\ {Proc(w).mode : w \in ws} # {"prefill", "decode"}

GateOpens ==
    /\ at = "frontend" /\ gate # Gated /\ ~Missing(Gated)
    /\ ~stop_event /\ worker[NextGated] = "serving"
    /\ gate' = gate \cup {NextGated}
    /\ UNCHANGED <<job, at, thread, worker, served, managed, stop_event, front, listed, pass,
                   deaths>>

GateFails ==
    /\ at = "frontend" /\ gate # Gated
    /\ stop_event \/ worker[NextGated] # "serving"
    /\ at' = "failed"
    /\ UNCHANGED <<job, thread, worker, served, managed, stop_event, gate, front, listed, pass,
                   deaths>>

Fronts == 1..job.routers
Nginx == IF job.routers > 1 THEN {0} ELSE {}

\* Nginx is started first, whatever becomes of the frontends.
Leave(to, fronts) ==
    /\ at = "frontend" /\ at' = to
    /\ front' = [f \in DOMAIN front |-> IF f \in Nginx \cup fronts THEN "loading" ELSE front[f]]
    /\ UNCHANGED <<job, thread, worker, served, managed, stop_event, gate, listed, pass, deaths>>
Refuse == Leave("failed", {})
Launch == Leave("model", Fronts)

\* start_frontends of each frontend; Dynamo's finds the workers for itself.
StartDynamo == job.frontend = "dynamo" /\ Launch

\* Its workers are on its command line; vLLM Router expands them all by one factor.
StartStaticRouter ==
    /\ job.frontend \in {"sglang", "vllm-router"}
    /\ IF \/ Missing(Routable)
          \/ job.frontend = "vllm-router" /\ Cardinality({RoutedDpSize(w) : w \in Routable}) > 1
         THEN Refuse
         ELSE Launch

StartOrchestrator ==
    /\ job.frontend = "trtllm_serve" /\ ~IsDirect(job)
    /\ IF Missing(Gated) THEN Refuse ELSE gate = Gated /\ Launch

\* The server owns the public port itself, and no frontend is started.
StartDirect == IsDirect(job) /\ Leave("model", {})

StartFrontends == StartDynamo \/ StartStaticRouter \/ StartOrchestrator \/ StartDirect

-----------------------------------------------------------------------------
(* What the benchmark stage expects and what it is told.                   *)

Side(m) == IF m = "prefill" THEN "prefill" ELSE "decode"
OfSide(s) == {w \in Workers : Side(Proc(w).mode) = s}
LogicalWorkers(s) == Cardinality({Proc(w).endpoint : w \in OfSide(s)})

\* Mutant: per-node processes counted like per-GPU ones.
HealthEntries_ranks(s) ==
    LET m == IF HasMode(job, "agg") /\ s = "decode" THEN "agg" ELSE s
    IN  LogicalWorkers(s) * job.dp[m]

\* _vllm_health_entries: the generate instances that Dynamo should have of one side.
HealthEntries(s) ==
    LET m == IF HasMode(job, "agg") /\ s = "decode" THEN "agg" ELSE s
    IN  IF job.dp[m] = 1 \/ job.dp_launch_mode = "per_gpu"
          THEN LogicalWorkers(s) * job.dp[m]
        ELSE IF OfSide(s) # {} /\ job.model_parallel[m] > Proc(First(OfSide(s))).gpus
          THEN LogicalWorkers(s)
        ELSE Cardinality(OfSide(s))

Expected(s) ==
    CASE job.frontend = "dynamo" /\ job.backend = "vllm" -> HealthEntries(s)
      [] job.frontend = "vllm-router" ->
           MapThenSumSet(RoutedDpSize, {w \in OfSide(s) : Proc(w).http})
      [] OTHER -> LogicalWorkers(s)

\* vLLM Router expands every URL by one factor; Dynamo has one instance for a process.
Counted(f, s) ==
    LET mine == listed[f] \cap OfSide(s)
    IN  IF job.frontend = "vllm-router"
          THEN Cardinality(mine) * Max({RoutedDpSize(w) : w \in Routable})
          ELSE Cardinality(mine)

EnoughWorkers(f) == \A s \in {"prefill", "decode"} : Counted(f, s) >= Expected(s)

\* wait_for_model: a 200 is enough where the workers were waited for before.
Ready(f) == job.frontend = "trtllm_serve" \/ EnoughWorkers(f)

\* Mutant: the benchmark begins when the frontend's count is right.
AfterModel_count == "ready"

AfterModel == IF job.frontend = "vllm-router" THEN "backend" ELSE "ready"

LeaveWait(to) ==
    /\ at' = to
    /\ UNCHANGED <<job, thread, worker, served, managed, stop_event, gate, front, listed, pass,
                   deaths>>

\* The top of each loop of both waits.
StopSeen == at \in {"model", "backend"} /\ stop_event /\ LeaveWait("failed")
GiveUp == at \in {"model", "backend"} /\ ~stop_event /\ LeaveWait("failed")

AskModel == at = "model" /\ ~stop_event /\ LeaveWait("model_get")

\* The public port is a worker's, a frontend's, or nginx', which asks one that is up.
ModelAnswers ==
    /\ at = "model_get"
    /\ LET up == {f \in Fronts : \A g \in Nginx \cup {f} : front[g] = "up"}
       IN  IF IsDirect(job)
             THEN LeaveWait(IF worker[First(Workers)] # "serving" THEN "model"
                            ELSE IF job.frontend = "vllm" THEN "models_get" ELSE "ready")
           ELSE IF up = {} THEN LeaveWait("model")
           ELSE \E f \in up : LeaveWait(IF Ready(f) THEN AfterModel ELSE "model")

\* check_vllm_health: a second request, which the server may not live to answer.
ModelsAnswer ==
    /\ at = "models_get"
    /\ LeaveWait(IF worker[First(Workers)] = "serving" THEN "ready" ELSE "model")

BeginPass ==
    /\ at = "backend" /\ ~stop_event
    /\ at' = "backend_get"
    /\ pass' = [asked |-> {}, pending |-> FALSE, dead |-> {w \in Workers : worker[w] = "dead"}]
    /\ UNCHANGED <<job, thread, worker, served, managed, stop_event, gate, front, listed, deaths>>

UrlAnswers ==
    /\ at = "backend_get" /\ pass.asked # Routable
    /\ LET w == First(Routable \ pass.asked)
       IN  pass' = [pass EXCEPT !.asked = @ \cup {w}, !.pending = @ \/ worker[w] # "serving"]
    /\ UNCHANGED <<job, at, thread, worker, served, managed, stop_event, gate, front, listed,
                   deaths>>

EndPass ==
    /\ at = "backend_get" /\ pass.asked = Routable
    /\ LeaveWait(IF pass.pending THEN "backend" ELSE "ready")

-----------------------------------------------------------------------------
(* The workers, the frontends and the monitor.                             *)

\* An engine is up when every process of its endpoint has joined it.
Serves(w) ==
    /\ worker[w] = "loading"
    /\ \A v \in Peers(w) : worker[v] \in {"loading", "serving"}
    /\ worker' = [worker EXCEPT ![w] = "serving"]
    /\ served' = served \cup {w}
    /\ UNCHANGED <<job, at, thread, managed, stop_event, gate, front, listed, pass, deaths>>

Dies(w) ==
    /\ deaths < MaxDeaths
    /\ worker[w] \in {"loading", "serving"}
    /\ deaths' = deaths + 1
    /\ worker' = [worker EXCEPT ![w] = "dead"]
    /\ UNCHANGED <<job, at, thread, served, managed, stop_event, gate, front, listed, pass>>

FrontendUp(f) ==
    /\ front[f] = "loading"
    /\ front' = [front EXCEPT ![f] = "up"]
    /\ UNCHANGED <<job, at, thread, worker, served, managed, stop_event, gate, listed, pass,
                   deaths>>

\* vLLM Router counts a whole pool once part of it answers.
Discoverable(w) ==
    IF job.frontend = "vllm-router" THEN \E v \in Peers(w) : worker[v] = "serving"
    ELSE worker[w] = "serving"

Lists(f, w) ==
    /\ job.frontend # "trtllm_serve" /\ front[f] = "up"
    /\ w \in Routable \ listed[f] /\ Discoverable(w)
    /\ listed' = [listed EXCEPT ![f] = @ \cup {w}]
    /\ UNCHANGED <<job, at, thread, worker, served, managed, stop_event, gate, front, pass, deaths>>

\* The entry of a dead worker stays until its lease or its health check runs out.
Forgets(f, w) ==
    /\ w \in listed[f] /\ worker[w] = "dead"
    /\ listed' = [listed EXCEPT ![f] = @ \ {w}]
    /\ UNCHANGED <<job, at, thread, worker, served, managed, stop_event, gate, front, pass, deaths>>

MonitorSees ==
    /\ ~stop_event /\ \E w \in managed : worker[w] = "dead"
    /\ stop_event' = TRUE
    /\ UNCHANGED <<job, at, thread, worker, served, managed, gate, front, listed, pass, deaths>>

-----------------------------------------------------------------------------
ReadinessInit ==
    /\ job \in Jobs
    /\ at = "workers"
    /\ thread = [n \in Nodes |-> [started |-> {}, healthy |-> {}, failed |-> FALSE]]
    /\ worker = [w \in Workers |-> "off"]
    /\ served = {} /\ managed = {} /\ stop_event = FALSE /\ gate = {}
    /\ front = [f \in Nginx \cup Fronts |-> "off"]
    /\ listed = [f \in Fronts |-> {}]
    /\ pass = [asked |-> {}, pending |-> FALSE, dead |-> {}]
    /\ deaths = 0

\* The orchestrator, with the wait that goes on for as long as it takes.
Orchestrator ==
    \/ \E n \in Nodes : StartWorker(n) \/ WorkerHealthy(n)
    \/ AllStarted \/ GateOpens \/ StartFrontends
    \/ StopSeen \/ AskModel \/ ModelAnswers \/ ModelsAnswer \/ BeginPass \/ UrlAnswers \/ EndPass

TimesOut == (\E n \in Nodes : WorkerNotHealthy(n)) \/ GateFails \/ GiveUp

Over == at \in {"ready", "failed"} /\ UNCHANGED readinessVars

ReadinessNext ==
    \/ Orchestrator \/ TimesOut \/ MonitorSees \/ Over
    \/ \E w \in Workers : Serves(w) \/ Dies(w)
    \/ \E f \in DOMAIN front : FrontendUp(f)
    \/ \E f \in Fronts, w \in Workers : Lists(f, w) \/ Forgets(f, w)

AllWorkers == UNION {WorkersOf[j] : j \in Jobs}
MaxRouters == Max({j.routers : j \in Jobs})

\* Nothing is fair about deaths, about the monitor or about giving up.
ReadinessFairness ==
    /\ WF_readinessVars(Orchestrator)
    /\ \A w \in AllWorkers : WF_readinessVars(w \in Workers /\ Serves(w))
    /\ \A f \in 0..MaxRouters :
          /\ WF_readinessVars(f \in DOMAIN front /\ FrontendUp(f))
          /\ \A w \in AllWorkers : WF_readinessVars(f \in Fronts /\ w \in Workers /\ Lists(f, w))

ReadinessSpec == ReadinessInit /\ [][ReadinessNext]_readinessVars /\ ReadinessFairness

ReadinessTyped ==
    /\ job \in Jobs
    /\ at \in {"workers", "frontend", "model", "model_get", "models_get", "backend", "backend_get",
               "ready", "failed"}
    /\ thread \in [Nodes -> [started: SUBSET Workers, healthy: SUBSET Workers, failed: BOOLEAN]]
    /\ \A n \in Nodes : /\ thread[n].healthy \subseteq thread[n].started
                        /\ thread[n].started \subseteq StartedOn(n)
    /\ worker \in [Workers -> {"off", "loading", "serving", "dead"}]
    /\ served \subseteq Workers /\ managed \subseteq Workers
    /\ stop_event \in BOOLEAN /\ gate \subseteq Gated
    /\ front \in [Nginx \cup Fronts -> {"off", "loading", "up"}]
    /\ listed \in [Fronts -> SUBSET Routable]
    /\ pass \in [asked: SUBSET Routable, pending: BOOLEAN, dead: SUBSET Workers]
    /\ deaths \in 0..MaxDeaths

-----------------------------------------------------------------------------
(* Properties                                                              *)

\* When the benchmark may begin, every worker a request can be routed to has served,
\* whatever the frontend counts and however late an API binds its port; and none that
\* vLLM Router advertises was dead before the last pass (wait_for_http_endpoints).
ReadyMeansServed ==
    at = "ready" => /\ Routable \subseteq served
                    /\ job.frontend = "vllm-router" => Routable \cap pass.dead = {}

\* The waits keep their counts, and end with a benchmark only over workers that served.
ReadinessSound == ReadinessTyped /\ ReadyMeansServed

\* On a node that starts its workers in batches, a model is never loaded by more workers
\* at a time than a batch has (worker_stage.py, sequential_node_start).
OneBatchLoads ==
    Sequential(job) =>
        \A n \in Nodes :
            Cardinality({w \in Workers : Proc(w).node = n /\ worker[w] = "loading"})
                <= job.sequential_node_start

\* A job whose workers all come up is found ready if no wait runs out: what the wait
\* expects, what was launched and what the frontend counts agree in every layout.
HealthyGetsReady == <>(at \in {"ready", "failed"} \/ deaths > 0)
=============================================================================
