---------------------------- MODULE WorkerLaunch ----------------------------
(***************************************************************************)
(* The worker stage turns each process of EndpointAllocation into the      *)
(* command of its engine (backends/*.py, cli/mixins/worker_stage.py).  The *)
(* engines of an endpoint find each other, and share out its ranks and     *)
(* GPUs, by the flags of these commands alone.                             *)
(***************************************************************************)
EXTENDS EndpointAllocation

VARIABLES launch,    \* "no", "starting", "started", "raised"
          commands   \* of the workers that were started

launching == <<launch, commands>>
allVars == <<vars, launching>>

-----------------------------------------------------------------------------
(* The processes of an endpoint.                                           *)

MultiNode(p) == endpoints[p.endpoint].count > 1
LeaderNode(p) == endpoints[p.endpoint].first
NodeRank(p) == p.node - LeaderNode(p)
Mode(p) == endpoints[p.endpoint].mode
IsLeader(p) == p.rank = 0

\* runtime.frontend_port, which is not a port of the allocator.
FrontendPort == -1

\* A command without any of the flags that coordinate several processes.
NoFlags(p) ==
    [endpoint |-> p.endpoint, node |-> p.node, from |-> p.from, size |-> p.size,
     leader |-> None, nnodes |-> None, node_rank |-> None, headless |-> FALSE,
     dp_rank |-> None, start |-> None, local |-> None, rpc |-> None, hybrid |-> FALSE,
     serves |-> p.http, grpc |-> None, tasks |-> 1]

\* --master-addr (SGLang: --dist-init-addr), --nnodes and --node-rank.
NodeFlags(p) ==
    [NoFlags(p) EXCEPT !.leader = LeaderNode(p), !.nnodes = endpoints[p.endpoint].count,
                       !.node_rank = NodeRank(p)]

\* Non-leader nodes run headless.
Headless(c) == IF c.node_rank > 0 THEN [c EXCEPT !.headless = TRUE, !.serves = None] ELSE c

\* process.dp_rpc_port, or the first port of its class.
RpcPort(p) == Or(p.rpc, 0)

\* sidecar_grpc_port: the engine's gRPC port, where the sidecar beside it connects.
GrpcPort(p) == p.sys

\* --data-parallel-size-local, -start-rank, -address, -rpc-port and -hybrid-lb.
LocalRankFlags(p, local) ==
    [NoFlags(p) EXCEPT !.leader = LeaderNode(p), !.local = local, !.start = p.rank,
                       !.rpc = RpcPort(p), !.hybrid = TRUE]

-----------------------------------------------------------------------------
(* vLLM: build_worker_command and _build_sidecar_command.                  *)

LocalDpSize(p) == p.size \div recipe.model_parallel[Mode(p)]

\* The replica as the Dynamo branch computes it: TP*PP, without PCP.
DynamoReplica(p) == recipe.model_parallel[Mode(p)] \div recipe.pcp[Mode(p)]

\* Mutant: the rank of a node-local process is the position of its node.
DynamoCommand_nodeRank(p) ==
    IF ~IsDp(recipe, Mode(p))
      THEN IF MultiNode(p) THEN Headless(NodeFlags(p)) ELSE NoFlags(p)
    ELSE IF recipe.dp_launch_mode = "per_gpu"
      THEN [NoFlags(p) EXCEPT !.leader = LeaderNode(p), !.dp_rank = p.rank, !.rpc = RpcPort(p)]
    ELSE IF DynamoReplica(p) > p.size
      THEN [Headless(NodeFlags(p)) EXCEPT !.rpc = RpcPort(p)]
    ELSE [LocalRankFlags(p, p.size \div DynamoReplica(p)) EXCEPT !.start = NodeRank(p)]

DynamoCommand(p) ==
    IF ~IsDp(recipe, Mode(p))
      THEN IF MultiNode(p) THEN Headless(NodeFlags(p)) ELSE NoFlags(p)
    ELSE IF recipe.dp_launch_mode = "per_gpu"
      THEN [NoFlags(p) EXCEPT !.leader = LeaderNode(p), !.dp_rank = p.rank, !.rpc = RpcPort(p)]
    ELSE IF DynamoReplica(p) > p.size
      THEN [Headless(NodeFlags(p)) EXCEPT !.rpc = RpcPort(p)]
    ELSE LocalRankFlags(p, p.size \div DynamoReplica(p))

\* `vllm serve`, for a direct endpoint or behind vLLM Router: every node of a router's
\* endpoint serves the ranks it holds, else the first node serves alone.
IsRouterLocalDp(p) ==
    /\ recipe.frontend = "vllm-router" /\ MultiNode(p) /\ IsDp(recipe, Mode(p))
    /\ recipe.model_parallel[Mode(p)] <= p.size

ServeFlags(p) ==
    IF IsRouterLocalDp(p) THEN LocalRankFlags(p, LocalDpSize(p))
    ELSE IF ~MultiNode(p) THEN NoFlags(p)
    ELSE IF recipe.frontend = "vllm-router" /\ IsDp(recipe, Mode(p))
      THEN [Headless(NodeFlags(p)) EXCEPT !.rpc = RpcPort(p)]
    ELSE Headless(NodeFlags(p))

ServePort(p) == IF NodeRank(p) # 0 /\ ~IsRouterLocalDp(p) THEN None
                ELSE IF recipe.frontend = "vllm" THEN FrontendPort ELSE p.http

ServeCommand(p) == [ServeFlags(p) EXCEPT !.serves = ServePort(p)]

\* vllm-rs: the leader serves the ranks of all nodes; its own start at 0.
VllmSidecarCommand(p) ==
    IF ~IsDp(recipe, Mode(p)) THEN [NoFlags(p) EXCEPT !.grpc = GrpcPort(p)]
    ELSE [LocalRankFlags(p, LocalDpSize(p)) EXCEPT
             !.hybrid = FALSE,
             !.start = IF IsLeader(p) THEN None ELSE p.rank,
             !.headless = ~IsLeader(p),
             !.serves = IF IsLeader(p) THEN p.http ELSE None,
             !.grpc = IF IsLeader(p) THEN GrpcPort(p) ELSE None]

VllmRaises(p) ==
    IF recipe.sidecar
      THEN IF IsDp(recipe, Mode(p)) THEN p.size % recipe.model_parallel[Mode(p)] # 0
           ELSE MultiNode(p)
      ELSE recipe.frontend = "vllm" /\ Mode(p) # "agg"

-----------------------------------------------------------------------------
(* The other backends.                                                     *)

\* SGLang: no follower is given a port of its own, nor a sidecar.
SglangCommand(p) == IF MultiNode(p) THEN NodeFlags(p) ELSE NoFlags(p)

SglangSidecarCommand(p) ==
    [SglangCommand(p) EXCEPT !.grpc = IF NodeRank(p) = 0 THEN GrpcPort(p) ELSE None]

\* One srun over the nodes of the endpoint, with a task for each of its GPUs.
TrtllmCommand(p) ==
    [NoFlags(p) EXCEPT
        !.tasks = endpoints[p.endpoint].count * p.size,
        !.serves = IF recipe.frontend = "trtllm_serve" /\ Mode(p) = "agg"
                     THEN FrontendPort ELSE p.http]

\* Rank zero alone starts the sidecar.
TrtllmSidecarCommand(p) == [TrtllmCommand(p) EXCEPT !.grpc = GrpcPort(p)]

TrtllmRaises(p) == recipe.sidecar /\ Mode(p) # "agg"

\* Dynamo's mocker is told of its mode and its bootstrap port only.
MockerCommand(p) == NoFlags(p)

Command(p) ==
    CASE recipe.backend = "vllm" ->
           IF recipe.sidecar THEN VllmSidecarCommand(p)
           ELSE IF recipe.frontend = "dynamo" THEN DynamoCommand(p)
           ELSE ServeCommand(p)
      [] recipe.backend = "sglang" ->
           IF recipe.sidecar THEN SglangSidecarCommand(p) ELSE SglangCommand(p)
      [] recipe.backend = "trtllm" ->
           IF recipe.sidecar THEN TrtllmSidecarCommand(p) ELSE TrtllmCommand(p)
      [] recipe.backend = "mocker" -> MockerCommand(p)

Raises(p) == \/ recipe.backend = "vllm" /\ VllmRaises(p)
             \/ recipe.backend = "trtllm" /\ TrtllmRaises(p)

-----------------------------------------------------------------------------
(* start_all_workers.                                                      *)

\* One srun for each process; TRT-LLM's leader stands for its endpoint.
Launched == IF recipe.backend = "trtllm" THEN {p \in processes : IsLeader(p)} ELSE processes

Started(p) == \E c \in commands : c.endpoint = p.endpoint /\ c.node = p.node /\ c.from = p.from

\* Endpoint by endpoint, in the order of conversion.
NextUp == CHOOSE p \in Launched :
             /\ ~Started(p)
             /\ \A q \in Launched : Started(q) \/ p.sys <= q.sys

LaunchInit == Init /\ launch = "no" /\ commands = {}

\* Before the worker stage.
Prepare == Next /\ UNCHANGED launching

BeginStage ==
    /\ phase = "done" /\ launch = "no"
    /\ launch' = "starting"
    /\ UNCHANGED <<vars, commands>>

Start ==
    /\ launch = "starting"
    /\ \E p \in Launched : ~Started(p)
    /\ ~Raises(NextUp)
    /\ commands' = commands \cup {Command(NextUp)}
    /\ UNCHANGED <<vars, launch>>

StartRaises ==
    /\ launch = "starting"
    /\ \E p \in Launched : ~Started(p)
    /\ Raises(NextUp)
    /\ launch' = "raised"
    /\ UNCHANGED <<vars, commands>>

AllStarted ==
    /\ launch = "starting"
    /\ \A p \in Launched : Started(p)
    /\ launch' = "started"
    /\ UNCHANGED <<vars, commands>>

LaunchNext == Prepare \/ BeginStage \/ Start \/ StartRaises \/ AllStarted

LaunchSpec == LaunchInit /\ [][LaunchNext]_allVars

-----------------------------------------------------------------------------
(* Properties                                                              *)

\* The ranks an engine takes; a sidecar's leader, which is not told, starts at 0.
Ranks(c) == IF c.dp_rank # None THEN {c.dp_rank}
            ELSE Or(c.start, 0)..(Or(c.start, 0) + c.local - 1)

\* One engine over n nodes: every node has its own rank, the leader alone serves.
SpansTheNodes(C, e) ==
    /\ {c.node_rank : c \in C} = 0..(e.count - 1)
    /\ \A c \in C : /\ c.nnodes = Cardinality(C) /\ c.leader = e.first
                    /\ c.serves # None <=> c.node_rank = 0
                    /\ c.node_rank = 0 => c.node = e.first

\* Engines that share the ranks: none is missing or taken twice, each holds as many
\* replicas as it has GPUs for, and all meet at the leader's node and port.
SharesTheRanks(C, e) ==
    LET dp == recipe.dp[e.mode]
    IN  /\ UNION {Ranks(c) : c \in C} = 0..(dp - 1)
        /\ \A c, d \in C : c # d => Ranks(c) \cap Ranks(d) = {}
        /\ \A c \in C : /\ Cardinality(Ranks(c)) * recipe.model_parallel[e.mode] = c.size
                        /\ c.leader = e.first
                        /\ c.rpc # None /\ \A d \in C : d.rpc = c.rpc
                        /\ c.headless \/ c.hybrid \/ 0 \in Ranks(c) \/ c.dp_rank # None

\* A process that was told of no other: it is the endpoint, or srun makes its tasks.
Alone(C, e) == \E c \in C : /\ C = {c} /\ c.leader = None /\ c.serves # None
                            /\ c.tasks = e.count * e.size \/ e.count = 1

EngineFormed(i) ==
    LET C == {c \in commands : c.endpoint = i}
    IN  /\ Cardinality({c \in C : c.grpc # None}) = IF recipe.sidecar THEN 1 ELSE 0
        /\ \/ recipe.backend = "mocker"
           \/ IF \E c \in C : c.nnodes # None THEN SpansTheNodes(C, endpoints[i])
              ELSE IF \E c \in C : c.rpc # None THEN SharesTheRanks(C, endpoints[i])
              ELSE Alone(C, endpoints[i])

\* Dynamo's vLLM command leaves context parallelism out of a replica's size.
CountsReplicas(r) ==
    r.backend = "vllm" /\ r.frontend = "dynamo" /\ ~r.sidecar =>
        \A m \in Modes : IsDp(r, m) => r.pcp[m] = 1

\* A disaggregated recipe has no aggregated workers: preflight's rule (validation.py,
\* validate_topology), which the schema does not repeat.
OneKind(r) == is_disaggregated(r) => r.workers["agg"] = 0

\* Once the worker stage has started them all, the commands of every endpoint fit
\* together: its nodes or its data-parallel ranks are each taken by one engine, all know
\* the same leader, whoever is to be asked for completions has a port to be asked at,
\* and one engine of the endpoint, if any is to, has the sidecar that registers it.
EnginesFormed ==
    launch = "started" /\ CountsReplicas(recipe) => \A i \in DOMAIN endpoints : EngineFormed(i)

\* Two endpoints never meet at the same address, nor serve at the same one: with node
\* flags the port of the meeting is fixed, with rank flags it is the RPC port.  A leader
\* node has one endpoint with node flags, and then, unless whole-node workers were put
\* on nodes that partial ones had left open, no other endpoint with a leader.
EndpointsApart ==
    \A c, d \in commands : c.endpoint # d.endpoint =>
        /\ OneKind(recipe) /\ c.node = d.node /\ c.serves # None => c.serves # d.serves
        /\ c.leader # None /\ c.leader = d.leader =>
             /\ c.nnodes = None \/ d.nnodes = None
             /\ ~Mixed(recipe) \/ SidesFit(recipe) =>
                  c.nnodes = None /\ d.nnodes = None /\ c.rpc # d.rpc

\* What was allocated and what the commands say fit together: every rank and GPU of an
\* endpoint has one engine, and the engines of an endpoint find each other.
EnginesSound == RanksAndGpusCovered /\ EnginesFormed

\* No port is used twice, neither as it was allocated nor as the commands name it.
AddressesApart == PortsExclusive /\ EndpointsApart
=============================================================================
