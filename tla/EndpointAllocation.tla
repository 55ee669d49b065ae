------------------------- MODULE EndpointAllocation -------------------------
(***************************************************************************)
(* From a recipe's resources to the processes of the workers: how many     *)
(* nodes submission asks for (core/schema.py, cli/submit.py), which of the *)
(* granted nodes the workers may use (core/runtime.py), on which nodes and *)
(* GPUs each endpoint is placed (core/topology.py), and which processes    *)
(* with which ports it becomes (core/topology.py, backends/vllm.py).       *)
(* WorkerLaunch goes on from there to the processes' command lines.        *)
(*                                                                         *)
(* Nodes are the positions 1..n of the granted node list.  Each class of   *)
(* ports has a range of its own in ports.py, so a port is its distance     *)
(* from the base of its class; an HTTP port counts in strides.             *)
(***************************************************************************)
EXTENDS Integers, Sequences, FiniteSets, FiniteSetsExt

CONSTANTS Recipes,   \* the resources, backend and placement of a recipe
          MaxNodes,  \* no recipe of Recipes asks for more nodes than this
          None       \* Python's None

Modes == {"prefill", "decode", "agg"}
Launches == {"per_node", "per_gpu"}
Backends == {"vllm", "sglang", "trtllm", "mocker"}
Frontends == {"dynamo", "sglang", "vllm-router", "trtllm_serve", "vllm"}
Roles == {"infra", "frontend", "client"}
Nodes == 1..MaxNodes

\* Fields of the right type: numbers are non-negative, a node has GPUs.
\* model_parallel is TP*PP*PCP; pcp is the prefill-context-parallel part of it.
Recipe == [backend: Backends, frontend: Frontends, sidecar: BOOLEAN,
           gpus_per_node: Nat \ {0}, nodes: [Modes -> Nat \cup {None}],
           workers: [Modes -> Nat], gpus: [Modes -> Nat \cup {None}],
           spread: BOOLEAN, het: BOOLEAN, colocation: BOOLEAN, across: BOOLEAN,
           dp: [Modes -> Nat \ {0}], model_parallel: [Modes -> Nat \ {0}],
           pcp: [Modes -> Nat \ {0}], dp_launch_mode: Launches,
           dedicated: SUBSET Roles, colocate_dedicated: BOOLEAN]

ASSUME RecipesAssumption == Recipes \subseteq Recipe
\* Colocation and data parallelism are fields of the vLLM backend.
ASSUME BackendAssumption ==
    \A r \in Recipes : /\ \A m \in Modes : r.model_parallel[m] % r.pcp[m] = 0
                       /\ r.backend # "vllm" =>
                            ~r.colocation /\ \A m \in Modes : r.dp[m] = 1
ASSUME MaxNodesAssumption == MaxNodes \in Nat
ASSUME NoneAssumption == None \notin Int

VARIABLES recipe,     \* the recipe of this job
          phase,      \* "submit", "carve", "allocate", "convert", "done", "failed"
          nodelist,   \* how many nodes the job was granted
          reserved,   \* role -> its dedicated node
          pool,       \* mode -> first and last node its workers may use
          mode,       \* the mode whose workers are being placed
          index,      \* workers of that mode placed so far
          node_idx, gpu_offset,
          endpoints,  \* placed endpoints, in order
          cursor,     \* endpoint and process of it that conversion has reached
          next,       \* the port counters of NodePortAllocator
          processes

vars == <<recipe, phase, nodelist, reserved, pool, mode, index, node_idx,
          gpu_offset, endpoints, cursor, next, processes>>
placing == <<mode, index, node_idx, gpu_offset, endpoints>>
converting == <<cursor, next, processes>>

-----------------------------------------------------------------------------
(* ResourceConfig and SrtConfig: what the recipe's numbers mean.           *)

Or(value, default) == IF value = None THEN default ELSE value

is_disaggregated(r) == r.nodes["prefill"] # None \/ r.nodes["decode"] # None

\* (nodes * gpus_per_node) // workers, when both are given and not zero.
ComputedGpus(r, m) ==
    IF r.nodes[m] \notin {None, 0} /\ r.workers[m] # 0
      THEN (r.nodes[m] * r.gpus_per_node) \div r.workers[m]
      ELSE r.gpus_per_node

gpus_per_prefill(r) == Or(r.gpus["prefill"], ComputedGpus(r, "prefill"))

\* decode_nodes = 0 shares the prefill nodes and takes the prefill size.
gpus_per_decode(r) ==
    IF r.gpus["decode"] = None /\ r.nodes["decode"] = 0 /\ r.workers["decode"] # 0
      THEN gpus_per_prefill(r)
      ELSE Or(r.gpus["decode"], ComputedGpus(r, "decode"))

GpusPer(r, m) == CASE m = "prefill" -> gpus_per_prefill(r)
                   [] m = "decode"  -> gpus_per_decode(r)
                   [] m = "agg"     -> Or(r.gpus["agg"], ComputedGpus(r, "agg"))

TotalWorkerGpus(r) == r.workers["prefill"] * GpusPer(r, "prefill")
                    + r.workers["decode"] * GpusPer(r, "decode")
                    + r.workers["agg"] * GpusPer(r, "agg")

should_colocate(r) ==
    /\ r.colocation
    /\ r.workers["prefill"] > 0 /\ r.workers["decode"] > 0
    /\ TotalWorkerGpus(r) <= r.gpus_per_node \/ r.across

CeilDiv(a, b) == (a + b - 1) \div b

resource_nodes(r) ==
    IF is_disaggregated(r) THEN Or(r.nodes["prefill"], 0) + Or(r.nodes["decode"], 0)
    ELSE IF r.nodes["agg"] \in {None, 0} THEN 1 ELSE r.nodes["agg"]

total_nodes(r) ==
    IF should_colocate(r) THEN CeilDiv(TotalWorkerGpus(r), r.gpus_per_node)
    ELSE resource_nodes(r)

\* het_components: one of prefill nodes, and the infra node if it has one, one of decode nodes.
HetNodes(r, m) == Or(r.nodes[m], 0) + (IF m = "prefill" /\ "infra" \in r.dedicated THEN 1 ELSE 0)

IsDp(r, m) == r.backend = "vllm" /\ r.dp[m] > 1

-----------------------------------------------------------------------------
(* SrtConfig's checks of a recipe at load time.                            *)

AcceptsHet(r) ==
    r.het => /\ is_disaggregated(r)
             /\ Or(r.nodes["prefill"], 0) >= 1 /\ Or(r.nodes["decode"], 0) >= 1
             /\ r.backend = "sglang"
             /\ r.dedicated \cap {"frontend", "client"} = {}

AcceptsSidecar(r) ==
    r.sidecar => r.frontend = "dynamo" /\ r.backend \in {"sglang", "vllm", "trtllm"}

AcceptsDirect(r) ==
    /\ r.frontend = "trtllm_serve" =>
          r.backend = "trtllm" /\ (is_disaggregated(r) \/ r.workers["agg"] = 1)
    /\ r.frontend = "vllm" =>
          r.backend = "vllm" /\ ~is_disaggregated(r) /\ r.workers["agg"] = 1

LocalGpus(r, m) == Min({GpusPer(r, m), r.gpus_per_node})

\* Data-parallel ranks that one API server of the mode stands for.
Expansion(r, m) == IF ~IsDp(r, m) \/ r.model_parallel[m] > LocalGpus(r, m) THEN 1
                   ELSE LocalGpus(r, m) \div r.model_parallel[m]

AcceptsRouter(r) ==
    /\ r.frontend = "sglang" => r.backend = "sglang"
    /\ r.frontend = "vllm-router" =>
          LET used == {m \in Modes : r.workers[m] > 0 /\ GpusPer(r, m) > 0}
          IN  /\ r.backend = "vllm"
              /\ (\E m \in Modes : IsDp(r, m)) => r.dp_launch_mode = "per_node"
              /\ \A m \in used : IsDp(r, m) =>
                    /\ r.dp[m] * r.model_parallel[m] = GpusPer(r, m)
                    /\ \/ r.model_parallel[m] > LocalGpus(r, m)
                       \/ LocalGpus(r, m) % r.model_parallel[m] = 0
              /\ Cardinality({Expansion(r, m) : m \in used}) <= 1

Accepted(r) == AcceptsHet(r) /\ AcceptsSidecar(r) /\ AcceptsDirect(r) /\ AcceptsRouter(r)

\* Roles that get a node to themselves; colocated roles share one.
NumReserved(r) == IF r.dedicated = {} THEN 0
                  ELSE IF r.colocate_dedicated THEN 1 ELSE Cardinality(r.dedicated)

ASSUME NodesAssumption ==
    \A r \in Recipes : Accepted(r) =>
                       /\ total_nodes(r) + NumReserved(r) <= MaxNodes
                       /\ resource_nodes(r) + NumReserved(r) <= MaxNodes

-----------------------------------------------------------------------------
(* Submission and the node list of the job.                                *)

NoPool == [first |-> 1, last |-> 0]
Counters == [http |-> [n \in Nodes |-> 0], bootstrap |-> [n \in Nodes |-> 0],
             rpc |-> [n \in Nodes |-> 0], kv |-> 0, nixl |-> 0, sys |-> 0]

\* Where conversion is: the process to create, and what its endpoint shares.
AtEndpoint(e) == [endpoint |-> e, process |-> 0, bootstrap |-> None, nixl |-> 0, rpc |-> None]

Init ==
    /\ recipe \in Recipes
    /\ phase = "submit"
    /\ nodelist = 0 /\ reserved = [role \in {} |-> 1]
    /\ pool = [m \in Modes |-> NoPool]
    /\ mode = "prefill" /\ index = 0 /\ node_idx = 0 /\ gpu_offset = 0
    /\ endpoints = <<>>
    /\ cursor = AtEndpoint(1)
    /\ next = Counters
    /\ processes = {}

\* generate_minimal_sbatch_script: the size of the allocation, which SLURM grants.
Submit ==
    /\ phase = "submit" /\ Accepted(recipe)
    /\ nodelist' = IF recipe.het THEN HetNodes(recipe, "prefill") + HetNodes(recipe, "decode")
                   ELSE total_nodes(recipe) + NumReserved(recipe)
    /\ phase' = "carve"
    /\ UNCHANGED <<recipe, reserved, pool, placing, converting>>

\* Loading the recipe raises: there is no job.
SubmitRejected ==
    /\ phase = "submit" /\ ~Accepted(recipe)
    /\ phase' = "failed"
    /\ UNCHANGED <<recipe, nodelist, reserved, pool, placing, converting>>

\* Non-client roles are reserved from the front, in this order.
FrontRank(role) == IF role = "infra" \/ "infra" \notin recipe.dedicated THEN 1 ELSE 2

ReservedNode(role) ==
    IF role = "client" \/ (recipe.colocate_dedicated /\ "client" \in recipe.dedicated)
      THEN nodelist
      ELSE IF recipe.colocate_dedicated THEN 1 ELSE FrontRank(role)

\* How many nodes are taken from the front of the list; the client's is the last.
FromFront == IF recipe.dedicated = {} THEN 0
             ELSE IF recipe.colocate_dedicated
                    THEN IF "client" \in recipe.dedicated THEN 0 ELSE 1
                    ELSE Cardinality(recipe.dedicated \ {"client"})

FromTail == IF "client" \in recipe.dedicated THEN 1 ELSE 0

\* Nodes.from_slurm; a het job has a node list of its own for each side.
Carve ==
    /\ phase = "carve"
    /\ nodelist > NumReserved(recipe)
    /\ reserved' = [role \in recipe.dedicated |-> ReservedNode(role)]
    /\ pool' = LET first == FromFront + 1
                   last == nodelist - FromTail
                   split == HetNodes(recipe, "prefill")
               IN  IF recipe.het
                     THEN [m \in Modes |->
                             CASE m = "prefill" -> [first |-> first, last |-> split]
                               [] m = "decode"  -> [first |-> split + 1, last |-> last]
                               [] m = "agg"     -> NoPool]
                     ELSE [m \in Modes |-> [first |-> first, last |-> last]]
    /\ phase' = "allocate"
    /\ UNCHANGED <<recipe, nodelist, placing, converting>>

CarveRejected ==
    /\ phase = "carve"
    /\ nodelist <= NumReserved(recipe)
    /\ phase' = "failed"
    /\ UNCHANGED <<recipe, nodelist, reserved, pool, placing, converting>>

-----------------------------------------------------------------------------
(* allocate_endpoints: allocate_workers_simple, one worker per step.       *)

GpusNow == GpusPer(recipe, mode)
FullNode == GpusNow >= recipe.gpus_per_node
NodesPerWorker == CeilDiv(GpusNow, recipe.gpus_per_node)
NodesAvailable == pool[mode].last - pool[mode].first + 1
Spread == recipe.spread /\ ~recipe.het  \* allocate_endpoints_het does not pass it on

MoreWorkers == /\ phase = "allocate"
               /\ index < recipe.workers[mode]
               /\ recipe.het => mode # "agg"

Placed(first, count, from, size) ==
    Append(endpoints, [mode |-> mode, index |-> index,
                       first |-> pool[mode].first + first, count |-> count,
                       from |-> from, size |-> size])

\* Multi-node or full-node worker: whole nodes from node_idx on.
PlaceFullNode ==
    /\ MoreWorkers /\ FullNode
    /\ node_idx + NodesPerWorker <= NodesAvailable
    /\ endpoints' = Placed(node_idx, NodesPerWorker, 0, recipe.gpus_per_node)
    /\ node_idx' = node_idx + NodesPerWorker
    /\ index' = index + 1
    /\ UNCHANGED <<recipe, phase, nodelist, reserved, pool, mode, gpu_offset, converting>>

\* The node and offset of the next partial worker, after the step to a new node.
Wraps == gpu_offset + GpusNow > recipe.gpus_per_node
PartialNode == IF Wraps THEN node_idx + 1 ELSE node_idx
PartialOffset == IF Wraps THEN 0 ELSE gpu_offset

\* Partial-node worker: packed behind the previous one, or on the next node.
PlacePartialNode ==
    /\ MoreWorkers /\ ~FullNode
    /\ PartialNode < NodesAvailable
    /\ endpoints' = Placed(PartialNode, 1, PartialOffset, GpusNow)
    /\ LET filled == PartialOffset + GpusNow >= recipe.gpus_per_node \/ Spread
       IN  /\ node_idx' = IF filled THEN PartialNode + 1 ELSE PartialNode
           /\ gpu_offset' = IF filled THEN 0 ELSE PartialOffset + GpusNow
    /\ index' = index + 1
    /\ UNCHANGED <<recipe, phase, nodelist, reserved, pool, mode, converting>>

\* available_nodes[node_idx] raises IndexError.
LacksNodes == /\ MoreWorkers
              /\ IF FullNode THEN node_idx + NodesPerWorker > NodesAvailable
                 ELSE PartialNode >= NodesAvailable

OutOfNodes ==
    /\ LacksNodes
    /\ phase' = "failed"
    /\ UNCHANGED <<recipe, nodelist, reserved, pool, placing, converting>>

\* Mutant: an off-by-one in the look for another node.
StepsToOwnNode_early ==
    ~should_colocate(recipe) /\ gpu_offset > 0 /\ node_idx + 2 < NodesAvailable

\* Prefill is placed: decode leaves a partly used node alone if there is another.
StepsToOwnNode == /\ ~should_colocate(recipe)
                  /\ gpu_offset > 0
                  /\ node_idx + 1 < NodesAvailable

StartDecode ==
    /\ phase = "allocate" /\ mode = "prefill"
    /\ index = recipe.workers["prefill"]
    /\ mode' = "decode" /\ index' = 0
    /\ IF recipe.het THEN node_idx' = 0 /\ gpu_offset' = 0
       ELSE IF recipe.workers["decode"] > 0 /\ StepsToOwnNode
         THEN node_idx' = node_idx + 1 /\ gpu_offset' = 0
         ELSE UNCHANGED <<node_idx, gpu_offset>>
    /\ UNCHANGED <<recipe, phase, nodelist, reserved, pool, endpoints, converting>>

StartAgg ==
    /\ phase = "allocate" /\ mode = "decode"
    /\ index = recipe.workers["decode"]
    /\ mode' = "agg" /\ index' = 0
    /\ UNCHANGED <<recipe, phase, nodelist, reserved, pool, node_idx, gpu_offset,
                   endpoints, converting>>

AllPlaced ==
    /\ phase = "allocate" /\ mode = "agg"
    /\ recipe.het \/ index = recipe.workers["agg"]
    /\ phase' = "convert"
    /\ UNCHANGED <<recipe, nodelist, reserved, pool, placing, converting>>

-----------------------------------------------------------------------------
(* endpoints_to_processes of topology.py and of the vLLM backend.          *)

Endpoint == endpoints[cursor.endpoint]
has_dp_mode == \E i \in DOMAIN endpoints : IsDp(recipe, endpoints[i].mode)

\* `vllm serve` owns the ranks of a direct endpoint; a sidecar's are always per node.
PerGpu == recipe.dp_launch_mode = "per_gpu" /\ ~recipe.sidecar
SplitsRanks(e) == IsDp(recipe, e.mode) /\ recipe.frontend # "vllm"

\* "whole": one process per node; "own": the same, a bootstrap port for the
\* leader only; "per_gpu": one per GPU; "per_node": one per node with its ranks.
Layout(e) ==
    IF ~SplitsRanks(e)
      THEN IF has_dp_mode /\ recipe.frontend # "vllm" /\ PerGpu THEN "own" ELSE "whole"
      ELSE IF PerGpu THEN "per_gpu"
      ELSE IF recipe.model_parallel[e.mode] > e.size THEN "whole" ELSE "per_node"

\* _validate_endpoint_parallelism and the checks of the two DP layouts.
Rejected(e) ==
    LET dp == recipe.dp[e.mode]
        replica == recipe.model_parallel[e.mode]
    IN  /\ SplitsRanks(e)
        /\ \/ dp * replica # e.count * e.size
           \/ PerGpu /\ replica # 1
           \/ /\ ~PerGpu
              /\ IF replica > e.size
                   THEN e.count < 2 \/ replica % e.size # 0
                   ELSE e.size % replica # 0

LocalRanks(e) == IF Layout(e) = "per_node" THEN e.size \div recipe.model_parallel[e.mode] ELSE 1

NumProcesses(e) == IF Layout(e) = "per_gpu" THEN e.count * e.size ELSE e.count

\* The first NIXL port a process binds: vLLM adds its data-parallel rank to the base.
NixlFirst(p) == IF p.rpc = None THEN p.nixl ELSE p.nixl + p.rank

Leader == cursor.process = 0
OwnsRanks(e) == Layout(e) \in {"per_gpu", "per_node"}
NodeNow == Endpoint.first + (IF Layout(Endpoint) = "per_gpu"
                               THEN cursor.process \div Endpoint.size ELSE cursor.process)

\* What the endpoint allocates once, at its first process, and its processes share.
SharedNixl == IF Leader THEN next.nixl ELSE cursor.nixl
SharedRpc == IF Leader THEN next.rpc[NodeNow] ELSE cursor.rpc
SharedBootstrap == IF Leader THEN next.bootstrap[NodeNow] ELSE cursor.bootstrap

TakesHttp == Leader \/ Layout(Endpoint) = "per_node"
TakesBootstrap == Endpoint.mode = "prefill" /\ (Leader \/ Layout(Endpoint) = "per_node")
\* Mutant: a NIXL port per endpoint, not per data-parallel rank.
TakesNixl_one == IF OwnsRanks(Endpoint) /\ ~Leader THEN 0 ELSE 1

TakesNixl == IF ~OwnsRanks(Endpoint) THEN 1
             ELSE IF Leader THEN recipe.dp[Endpoint.mode] ELSE 0
TakesRpc == OwnsRanks(Endpoint) /\ Leader

BootstrapNow == CASE Endpoint.mode # "prefill" -> None
                  [] TakesBootstrap -> next.bootstrap[NodeNow]
                  [] Layout(Endpoint) = "whole" /\ ~Leader -> cursor.bootstrap
                  [] OTHER -> None

NewProcess ==
    LET e == Endpoint IN
    [endpoint |-> cursor.endpoint, node |-> NodeNow,
     from |-> IF Layout(e) = "per_gpu" THEN e.from + (cursor.process % e.size) ELSE e.from,
     size |-> IF Layout(e) = "per_gpu" THEN 1 ELSE e.size,
     rank |-> cursor.process * LocalRanks(e), ranks |-> LocalRanks(e),
     sys |-> next.sys, http |-> IF TakesHttp THEN next.http[NodeNow] ELSE None,
     bootstrap |-> BootstrapNow, kv |-> next.kv,
     nixl |-> IF OwnsRanks(e) THEN SharedNixl ELSE next.nixl,
     rpc |-> IF OwnsRanks(e) THEN SharedRpc ELSE None]

Take(counter, takes) == IF takes THEN [counter EXCEPT ![NodeNow] = @ + 1] ELSE counter

Convert ==
    /\ phase = "convert"
    /\ cursor.endpoint <= Len(endpoints) /\ ~Rejected(Endpoint)
    /\ processes' = processes \cup {NewProcess}
    /\ next' = [http |-> Take(next.http, TakesHttp),
                bootstrap |-> Take(next.bootstrap, TakesBootstrap),
                rpc |-> Take(next.rpc, TakesRpc),
                kv |-> next.kv + LocalRanks(Endpoint),
                nixl |-> next.nixl + TakesNixl,
                sys |-> next.sys + 1]
    /\ cursor' = IF cursor.process + 1 < NumProcesses(Endpoint)
                   THEN [endpoint |-> cursor.endpoint, process |-> cursor.process + 1,
                         bootstrap |-> SharedBootstrap, nixl |-> SharedNixl, rpc |-> SharedRpc]
                   ELSE AtEndpoint(cursor.endpoint + 1)
    /\ UNCHANGED <<recipe, phase, nodelist, reserved, pool, placing>>

ConvertRejected ==
    /\ phase = "convert"
    /\ cursor.endpoint <= Len(endpoints) /\ Rejected(Endpoint)
    /\ phase' = "failed"
    /\ UNCHANGED <<recipe, nodelist, reserved, pool, placing, converting>>

AllConverted ==
    /\ phase = "convert"
    /\ cursor.endpoint > Len(endpoints)
    /\ phase' = "done"
    /\ UNCHANGED <<recipe, nodelist, reserved, pool, placing, converting>>

Next == \/ Submit \/ SubmitRejected \/ Carve \/ CarveRejected
        \/ PlaceFullNode \/ PlacePartialNode \/ OutOfNodes
        \/ StartDecode \/ StartAgg \/ AllPlaced
        \/ Convert \/ ConvertRejected \/ AllConverted

Spec == Init /\ [][Next]_vars

-----------------------------------------------------------------------------
(* Type correctness                                                        *)

PortCounters == [http: [Nodes -> Nat], bootstrap: [Nodes -> Nat], rpc: [Nodes -> Nat],
                 kv: Nat, nixl: Nat, sys: Nat]
EndpointRecord == [mode: Modes, index: Nat, first: Nodes, count: Nat \ {0}, from: Nat, size: Nat]

\* The placement and the port counters keep their types; nodes stay in the node list.
TypeOK ==
    /\ recipe \in Recipe
    /\ phase \in {"submit", "carve", "allocate", "convert", "done", "failed"}
    /\ nodelist \in Nat
    /\ pool \in [Modes -> [first: Nat, last: Nat]]
    /\ mode \in Modes /\ index \in Nat /\ node_idx \in Nat /\ gpu_offset \in Nat
    /\ endpoints \in Seq(EndpointRecord)
    /\ cursor.endpoint \in Nat \ {0} /\ cursor.process \in Nat
    /\ next \in PortCounters

-----------------------------------------------------------------------------
(* Properties                                                              *)

LastNode(e) == e.first + e.count - 1
ShareNode(e, f) == e.first <= LastNode(f) /\ f.first <= LastNode(e)
Apart(from1, size1, from2, size2) == from1 + size1 <= from2 \/ from2 + size2 <= from1

\* Workers of an earlier mode may leave a node open, and a later mode takes whole nodes.
Before(m1, m2) == \/ m1 = "prefill" /\ m2 # "prefill"
                  \/ m1 = "decode" /\ m2 = "agg"
Partial(r, m) == r.workers[m] > 0 /\ GpusPer(r, m) < r.gpus_per_node
Whole(r, m) == r.workers[m] > 0 /\ GpusPer(r, m) >= r.gpus_per_node
Mixed(r) == \E m1, m2 \in Modes : Before(m1, m2) /\ Partial(r, m1) /\ Whole(r, m2)

ExclusiveGpus ==
    \A i, j \in DOMAIN endpoints :
        i < j /\ ShareNode(endpoints[i], endpoints[j]) =>
            Apart(endpoints[i].from, endpoints[i].size, endpoints[j].from, endpoints[j].size)

\* How many nodes the workers of one side take when they are packed from a fresh node.
NodesTaken(r, m) ==
    IF r.workers[m] = 0 THEN 0
    ELSE IF GpusPer(r, m) >= r.gpus_per_node
      THEN r.workers[m] * CeilDiv(GpusPer(r, m), r.gpus_per_node)
    ELSE IF r.spread /\ ~r.het THEN r.workers[m]
    ELSE CeilDiv(r.workers[m], r.gpus_per_node \div GpusPer(r, m))

\* A disaggregated recipe in which each side has the nodes that its workers take.
SidesFit(r) == /\ ~should_colocate(r) /\ r.workers["agg"] = 0
               /\ \A m \in {"prefill", "decode"} :
                     /\ GpusPer(r, m) > 0
                     /\ NodesTaken(r, m) <= Or(r.nodes[m], 0)

\* Packed workers, of one size or of two, spread or not, colocated or not, never get
\* the same GPU of the same node (topology.py, allocate_workers_simple).  Where each
\* side has nodes of its own this holds even when whole-node decode follows partial
\* prefill (the overlap topology.py:453-456 is there to prevent), and placement is never
\* refused: neither side runs past its nodes, whichever were reserved on the way.
PackedGpusExclusive ==
    /\ ~Mixed(recipe) \/ SidesFit(recipe) => ExclusiveGpus
    /\ SidesFit(recipe) => ~LacksNodes

\* The nodes submission asked for and the nodes from_slurm hands out add up: workers
\* get exactly the recipe's count, no reserved node is one of theirs, roles that are to
\* be apart are, and the client keeps off the first node, where the orchestrator runs.
WorkersGetTheirNodes ==
    phase \in {"allocate", "convert", "done"} =>
        LET workers == UNION {pool[m].first..pool[m].last : m \in Modes}
        IN  /\ Cardinality(workers) = IF recipe.het THEN resource_nodes(recipe) ELSE total_nodes(recipe)
            /\ workers \cup {reserved[role] : role \in recipe.dedicated} = 1..nodelist
            /\ \A role \in recipe.dedicated : reserved[role] \notin workers
            /\ ~recipe.colocate_dedicated =>
                 \A r1, r2 \in recipe.dedicated : r1 # r2 => reserved[r1] # reserved[r2]
            /\ "client" \in recipe.dedicated => reserved["client"] # 1

\* Nodes and GPUs are handed out once: what submission counted, what the job's start
\* carves and what the packing of the workers takes add up.
PlacementSound == TypeOK /\ PackedGpusExclusive /\ WorkersGetTheirNodes

\* A whole-node follower only names its leader's bootstrap port; one process of a
\* data-parallel endpoint opens its RPC port.
OwnsBootstrap(p) == p.bootstrap # None /\ (p.rank = 0 \/ p.rpc # None)
OwnsRpc(p) == p.rpc # None /\ p.rank = 0

\* Two processes never bind the same port: sys, KV-event and NIXL ports are unique in
\* the job (a process of several ranks holds a block), HTTP, bootstrap and RPC on a node.
PortsExclusive ==
    \A p, q \in processes : p # q =>
        /\ p.sys # q.sys
        /\ Apart(p.kv, p.ranks, q.kv, q.ranks)
        /\ Apart(NixlFirst(p), p.ranks, NixlFirst(q), q.ranks)
        /\ p.node = q.node =>
             /\ p.http # None => p.http # q.http
             /\ OwnsBootstrap(p) /\ OwnsBootstrap(q) => p.bootstrap # q.bootstrap
             /\ OwnsRpc(p) /\ OwnsRpc(q) => p.rpc # q.rpc

\* The GPUs that several processes, or an endpoint, hold: pairs of node and index.
GpusOf(P) == UNION {{<<p.node, g>> : g \in p.from..(p.from + p.size - 1)} : p \in P}
EndpointGpus(e) == (e.first..LastNode(e)) \X (e.from..(e.from + e.size - 1))

\* When the processes of a data-parallel endpoint exist, its ranks are handed out
\* without gap or repetition, and each of its GPUs belongs to one process.
RanksAndGpusCovered ==
    phase = "done" =>
        \A i \in DOMAIN endpoints :
            LET mine == {p \in processes : p.endpoint = i}
            IN  /\ \A p, q \in mine : p # q =>
                     /\ Apart(p.rank, p.ranks, q.rank, q.ranks)
                     /\ p.node = q.node => Apart(p.from, p.size, q.from, q.size)
                /\ Layout(endpoints[i]) \in {"per_gpu", "per_node"} =>
                     UNION {p.rank..(p.rank + p.ranks - 1) : p \in mine}
                        = 0..(recipe.dp[endpoints[i].mode] - 1)
                /\ GpusOf(mine) = EndpointGpus(endpoints[i])
=============================================================================
