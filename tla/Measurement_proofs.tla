-------------------------- MODULE Measurement_proofs --------------------------
(***************************************************************************)
(* The placement of a job, the commands of its workers and what is put     *)
(* around them, for every recipe and any number of nodes and workers.      *)
(*                                                                         *)
(* EndpointAllocation:                                                     *)
(*  - no two processes of a job bind the same port (PortsExclusive).  It   *)
(*    is not inductive.  The counters of NodePortAllocator only grow, and  *)
(*    what a process holds lies below them; the ranks of a data-parallel   *)
(*    endpoint share one block of NIXL ports, which they must fill in      *)
(*    order and may not leave;                                             *)
(*  - nodes and GPUs are handed out once (PlacementSound).  The node list  *)
(*    is divided when the job starts, everything placed so far lies behind *)
(*    the node and GPU that packing has reached, and what a side of the    *)
(*    recipe has used of its nodes is what its workers take.               *)
(*                                                                         *)
(* WorkerLaunch: the engines of an endpoint find each other and share out  *)
(* its ranks and GPUs (EnginesSound), and two endpoints never meet, nor    *)
(* serve, at one address (AddressesApart).  They follow from which         *)
(* processes conversion has made of each endpoint (Made), which endpoints  *)
(* can share a node (Sharers), and that the commands are those of the      *)
(* processes (Commands).                                                   *)
(*                                                                         *)
(* Measurement: the stages agree on who is where (ClientPlaced), every     *)
(* metrics endpoint is read once (ReadOnce) and every worker profiled as   *)
(* asked (ProfiledAsAsked).  Each stage works out its part from the recipe *)
(* and the processes; the invariant MeasureInv says that what was started  *)
(* is what a later stage works out.                                        *)
(***************************************************************************)
EXTENDS Measurement, FiniteSetTheorems, FunctionTheorems, WellFoundedInduction, TLAPS

-----------------------------------------------------------------------------
(***************************************************************************)
(* EndpointAllocation                                                      *)
(***************************************************************************)

-----------------------------------------------------------------------------
(* Arithmetic                                                              *)

LEMMA TimesNat == ASSUME NEW a \in Nat, NEW b \in Nat PROVE a * b \in Nat
  BY SMT

LEMMA DivNat == ASSUME NEW a \in Nat, NEW b \in Nat \ {0} PROVE a \div b \in Nat
  BY SMT

LEMMA DivBelow ==
  ASSUME NEW a \in Nat, NEW b \in Nat \ {0}, NEW c \in Nat, a < c * b
  PROVE  a \div b < c
  BY SMT

LEMMA DivPositive ==
  ASSUME NEW a \in Nat, NEW b \in Nat \ {0}, b <= a
  PROVE  a \div b >= 1
  BY SMT

LEMMA DivExact ==
  ASSUME NEW a \in Nat, NEW b \in Nat \ {0}, a % b = 0
  PROVE  a = (a \div b) * b
  BY SMT

\* d * b = c * (l * b): how many ranks d, if each of c processes has l of b GPUs.
LEMMA RanksOfSlices ==
  ASSUME NEW d \in Nat, NEW b \in Nat \ {0}, NEW c \in Nat, NEW l \in Nat,
         d * b = c * (l * b)
  PROVE  d = c * l
<1>1. c * (l * b) = (c * l) * b
  BY SMT
<1> QED
  BY <1>1, SMT

LEMMA IntervalSize ==
  ASSUME NEW a \in Int, NEW b \in Int, a <= b
  PROVE  IsFiniteSet(a..b) /\ Cardinality(a..b) = b - a + 1
<1>1. ~(a > b)
  OBVIOUS
<1> QED
  BY <1>1, FS_Interval

LEMMA NextSlice ==
  ASSUME NEW k \in Nat, NEW n \in Nat, NEW l \in Nat, k + 1 <= n
  PROVE  k * l + l <= n * l /\ (k + 1) * l = k * l + l
  BY SMT

-----------------------------------------------------------------------------
(* The numbers of a recipe                                                 *)

LEMMA RecipeNumbers ==
  \A r \in Recipe : /\ r.gpus_per_node \in Nat \ {0} /\ r.workers \in [Modes -> Nat]
                    /\ \A m \in Modes : r.workers[m] \in Nat
  BY DEF Recipe

\* What a mode's worker is given is a number of GPUs.
LEMMA GpusPerNat ==
  ASSUME NEW r \in Recipe, NEW m \in Modes
  PROVE  GpusPer(r, m) \in Nat
<1> DEFINE g == r.gpus_per_node
<1>1. g \in Nat \ {0} /\ r.workers \in [Modes -> Nat]
      /\ r.nodes \in [Modes -> Nat \union {None}] /\ r.gpus \in [Modes -> Nat \union {None}]
  BY DEF Recipe
<1>2. \A x \in Modes : ComputedGpus(r, x) \in Nat
  <2> TAKE x \in Modes
  <2>1. CASE r.nodes[x] \notin {None, 0} /\ r.workers[x] # 0
    <3>1. r.nodes[x] * g \in Nat /\ r.workers[x] \in Nat \ {0}
      BY <1>1, <2>1, TimesNat
    <3> QED
      BY <2>1, <3>1, DivNat DEF ComputedGpus
  <2> QED
    BY <2>1, <1>1 DEF ComputedGpus
<1>3. \A x \in Modes : Or(r.gpus[x], ComputedGpus(r, x)) \in Nat
  BY <1>1, <1>2 DEF Or
<1>4. gpus_per_prefill(r) \in Nat /\ gpus_per_decode(r) \in Nat
  BY <1>3 DEF gpus_per_prefill, gpus_per_decode, Modes
<1> QED
  BY <1>3, <1>4 DEF GpusPer, Modes

LEMMA CeilDivNat ==
  ASSUME NEW a \in Nat, NEW b \in Nat \ {0}
  PROVE  CeilDiv(a, b) \in Nat /\ (a >= b => CeilDiv(a, b) >= 1)
  BY a + b - 1 \in Nat, DivNat, DivPositive DEF CeilDiv

LEMMA FiniteRoles == IsFiniteSet(Roles)
<1>1. IsFiniteSet({"infra"} \union {"frontend"})
  BY FS_Singleton, FS_AddElement
<1>2. IsFiniteSet(({"infra"} \union {"frontend"}) \union {"client"})
  BY <1>1, FS_AddElement
<1> QED
  BY <1>2, Roles = ({"infra"} \union {"frontend"}) \union {"client"} DEF Roles

\* So are the counts of nodes.
LEMMA NodeCounts ==
  ASSUME NEW r \in Recipe
  PROVE  total_nodes(r) \in Nat /\ resource_nodes(r) \in Nat /\ NumReserved(r) \in Nat
<1> DEFINE g == r.gpus_per_node
<1>1. g \in Nat \ {0} /\ r.workers \in [Modes -> Nat]
      /\ r.nodes \in [Modes -> Nat \union {None}] /\ r.dedicated \in SUBSET Roles
  BY DEF Recipe
<1>2. resource_nodes(r) \in Nat
  BY <1>1 DEF resource_nodes, Or, Modes
<1>3. \A m \in Modes : r.workers[m] * GpusPer(r, m) \in Nat
  BY <1>1, GpusPerNat, TimesNat
<1>4. TotalWorkerGpus(r) \in Nat
  BY <1>3 DEF TotalWorkerGpus, Modes
<1>5. total_nodes(r) \in Nat
  BY <1>1, <1>2, <1>4, CeilDivNat DEF total_nodes
<1>6. IsFiniteSet(Roles)
  BY FiniteRoles
<1>7. NumReserved(r) \in Nat
  BY <1>1, <1>6, FS_Subset, FS_CardinalityType DEF NumReserved
<1> QED
  BY <1>2, <1>5, <1>7

\* No more nodes are taken from the front of the list, or from its end, than are reserved.
LEMMA FrontAndTail ==
  ASSUME recipe \in Recipe
  PROVE  /\ FromFront \in Nat /\ FromTail \in Nat
         /\ FromFront <= NumReserved(recipe) /\ FromTail <= NumReserved(recipe)
<1> DEFINE D == recipe.dedicated
<1>1. IsFiniteSet(D)
  BY FiniteRoles, FS_Subset, D \in SUBSET Roles DEF Recipe
<1>2. Cardinality(D) \in Nat /\ (D # {} => Cardinality(D) >= 1)
  BY <1>1, FS_CardinalityType, FS_EmptySet
<1>3. Cardinality(D \ {"client"}) \in Nat /\ Cardinality(D \ {"client"}) <= Cardinality(D)
  BY <1>1, FS_Subset, FS_CardinalityType, D \ {"client"} \in SUBSET D
<1> QED
  BY <1>2, <1>3 DEF FromFront, FromTail, NumReserved

\* The two components of a het job hold the reserved node, which is the infra node, and the
\* nodes of both sides; the first ends where the prefill nodes after the reserved one do.
LEMMA HetSplit ==
  ASSUME recipe \in Recipe, Accepted(recipe), recipe.het
  PROVE  /\ HetNodes(recipe, "prefill") = FromFront + recipe.nodes["prefill"]
         /\ HetNodes(recipe, "prefill") + HetNodes(recipe, "decode")
              = NumReserved(recipe) + resource_nodes(recipe)
<1>1. /\ recipe.dedicated \in SUBSET Roles
      /\ recipe.nodes["prefill"] \in Nat \union {None}
      /\ recipe.nodes["decode"] \in Nat \union {None}
  BY DEF Recipe, Modes
<1>2. /\ is_disaggregated(recipe) /\ recipe.dedicated \cap {"frontend", "client"} = {}
      /\ Or(recipe.nodes["prefill"], 0) >= 1 /\ Or(recipe.nodes["decode"], 0) >= 1
  BY DEF Accepted, AcceptsHet
<1>3. recipe.nodes["prefill"] \in Nat /\ recipe.nodes["decode"] \in Nat
  BY <1>1, <1>2 DEF Or
<1>4. /\ Or(recipe.nodes["prefill"], 0) = recipe.nodes["prefill"]
      /\ Or(recipe.nodes["decode"], 0) = recipe.nodes["decode"]
  BY <1>3, NoneAssumption DEF Or
<1>5. resource_nodes(recipe) = recipe.nodes["prefill"] + recipe.nodes["decode"]
  BY <1>2, <1>4 DEF resource_nodes
<1>6. /\ HetNodes(recipe, "prefill")
           = recipe.nodes["prefill"] + (IF "infra" \in recipe.dedicated THEN 1 ELSE 0)
      /\ HetNodes(recipe, "decode") = recipe.nodes["decode"]
  BY <1>3, <1>4 DEF HetNodes
<1>7. recipe.dedicated = IF "infra" \in recipe.dedicated THEN {"infra"} ELSE {}
  BY <1>1, <1>2 DEF Roles
<1>8. CASE "infra" \in recipe.dedicated
  <2>1. recipe.dedicated = {"infra"} /\ Cardinality(recipe.dedicated) = 1
    BY <1>7, <1>8, FS_Singleton
  <2>2. recipe.dedicated # {} /\ "client" \notin recipe.dedicated
        /\ recipe.dedicated \ {"client"} = recipe.dedicated
    BY <2>1
  <2>3. FromFront = 1 /\ NumReserved(recipe) = 1
    BY <2>1, <2>2 DEF FromFront, NumReserved
  <2> QED
    BY <1>3, <1>5, <1>6, <1>8, <2>3
<1>9. CASE "infra" \notin recipe.dedicated
  <2>1. recipe.dedicated = {} /\ recipe.dedicated \ {"client"} = {}
    BY <1>7, <1>9
  <2>2. FromFront = 0 /\ NumReserved(recipe) = 0
    BY <2>1, FS_EmptySet DEF FromFront, NumReserved
  <2> QED
    BY <1>3, <1>5, <1>6, <1>9, <2>2
<1> QED
  BY <1>8, <1>9

-----------------------------------------------------------------------------
(* The invariant                                                           *)

\* Workers are placed on nodes the job was granted.
Granted ==
    /\ recipe \in Recipes
    /\ nodelist <= MaxNodes
    /\ phase = "carve" =>
         /\ Accepted(recipe)
         /\ nodelist = NumReserved(recipe)
                       + IF recipe.het THEN resource_nodes(recipe) ELSE total_nodes(recipe)
    /\ \A m \in Modes : pool[m].first >= 1 /\ pool[m].last <= MaxNodes
    /\ \A i \in DOMAIN endpoints : LastNode(endpoints[i]) <= MaxNodes

\* In the middle of an endpoint its processes so far hold the first ranks of its block.
InOrder ==
    /\ phase \in {"submit", "carve", "allocate"} => cursor.process = 0
    /\ cursor.process # 0 =>
         /\ cursor.endpoint <= Len(endpoints) /\ ~Rejected(Endpoint)
         /\ cursor.process < NumProcesses(Endpoint)
         /\ OwnsRanks(Endpoint) => /\ cursor.nixl \in Nat /\ cursor.rpc \in Nat
                                   /\ next.nixl = cursor.nixl + recipe.dp[Endpoint.mode]

\* The first NIXL port that no process holds: inside the endpoint's block, if it has one.
NixlFrontier ==
    IF cursor.process # 0 /\ OwnsRanks(Endpoint)
      THEN cursor.nixl + cursor.process * LocalRanks(Endpoint)
      ELSE next.nixl

\* What a process holds lies below the counters.
Below(p) ==
    /\ p.node \in Nodes /\ p.ranks \in Nat \ {0}
    /\ p.sys \in Nat /\ p.sys < next.sys
    /\ p.kv \in Nat /\ p.kv + p.ranks <= next.kv
    /\ NixlFirst(p) \in Nat /\ NixlFirst(p) + p.ranks <= NixlFrontier
    /\ p.http # None => p.http \in Nat /\ p.http < next.http[p.node]
    /\ OwnsBootstrap(p) => p.bootstrap \in Nat /\ p.bootstrap < next.bootstrap[p.node]
    /\ OwnsRpc(p) => p.rpc \in Nat /\ p.rpc < next.rpc[p.node]

AllBelow == \A p \in processes : Below(p)

PortsInv == TypeOK /\ Granted /\ InOrder /\ AllBelow /\ PortsExclusive

-----------------------------------------------------------------------------
(* Placement                                                               *)

\* A placed endpoint lies on granted nodes.
LEMMA PlacedOnNodes ==
  ASSUME TypeOK, Granted, NEW first \in Nat, NEW count \in Nat \ {0}, NEW from \in Nat,
         NEW size \in Nat, first + count <= NodesAvailable
  PROVE  LET e == Placed(first, count, from, size)
         IN  /\ e \in Seq(EndpointRecord)
             /\ \A i \in DOMAIN e : LastNode(e[i]) <= MaxNodes
<1> DEFINE new == [mode |-> mode, index |-> index, first |-> pool[mode].first + first,
                   count |-> count, from |-> from, size |-> size]
<1>1. pool[mode].first \in Nat /\ pool[mode].last \in Nat /\ MaxNodes \in Nat
      /\ pool[mode].first >= 1 /\ pool[mode].last <= MaxNodes
  BY MaxNodesAssumption DEF TypeOK, Granted
<1>2. pool[mode].first + first \in Nodes /\ pool[mode].first + first + count - 1 <= MaxNodes
  BY <1>1 DEF NodesAvailable, Nodes
<1>3. new \in EndpointRecord /\ LastNode(new) <= MaxNodes
  BY <1>2 DEF EndpointRecord, LastNode, TypeOK
<1>4. Placed(first, count, from, size) = Append(endpoints, new)
  BY DEF Placed
<1> QED
  BY <1>3, <1>4 DEF TypeOK, Granted

-----------------------------------------------------------------------------
(* Conversion                                                              *)

\* The ranks of an endpoint: its processes take all of them, each at least one.
LEMMA RanksFit ==
  ASSUME recipe \in Recipe, NEW e \in EndpointRecord, ~Rejected(e)
  PROVE  /\ LocalRanks(e) \in Nat \ {0} /\ NumProcesses(e) \in Nat \ {0}
         /\ Layout(e) = "per_gpu" => e.size \in Nat \ {0}
         /\ Layout(e) \in {"whole", "own", "per_gpu"} => LocalRanks(e) = 1
         /\ Layout(e) \in {"per_gpu", "per_node"} =>
              recipe.dp[e.mode] = NumProcesses(e) * LocalRanks(e)
<1> DEFINE dp == recipe.dp[e.mode]
           replica == recipe.model_parallel[e.mode]
<1>1. /\ e.count \in Nat \ {0} /\ e.size \in Nat
      /\ dp \in Nat \ {0} /\ replica \in Nat \ {0}
  BY DEF Recipe, EndpointRecord
<1>2. Layout(e) \in {"whole", "own", "per_gpu", "per_node"}
  BY DEF Layout
<1>3. CASE Layout(e) \in {"whole", "own"}
  BY <1>1, <1>3 DEF LocalRanks, NumProcesses
<1>4. CASE Layout(e) = "per_gpu"
  <2>1. dp * replica = e.count * e.size /\ replica = 1
    BY <1>4 DEF Layout, Rejected
  <2>2. dp = e.count * e.size
    BY <2>1, <1>1
  <2>3. e.size # 0
    BY <2>2, <1>1
  <2> QED
    BY <1>4, <1>1, <2>2, <2>3 DEF LocalRanks, NumProcesses
<1>5. CASE Layout(e) = "per_node"
  <2>1. dp * replica = e.count * e.size /\ e.size % replica = 0 /\ replica <= e.size
    BY <1>5, <1>1 DEF Layout, Rejected
  <2>2. LocalRanks(e) = e.size \div replica /\ NumProcesses(e) = e.count
    BY <1>5 DEF LocalRanks, NumProcesses
  <2>3. LocalRanks(e) \in Nat \ {0} /\ e.size = LocalRanks(e) * replica
    <3>1. e.size \div replica \in Nat /\ e.size \div replica >= 1
      BY <1>1, <2>1, DivNat, DivPositive
    <3>2. e.size = (e.size \div replica) * replica
      BY <1>1, <2>1, DivExact
    <3> QED
      BY <2>2, <3>1, <3>2
  <2>4. dp = e.count * LocalRanks(e)
    <3>1. PICK d, b, c, l : d = dp /\ b = replica /\ c = e.count /\ l = LocalRanks(e)
      OBVIOUS
    <3>2. d \in Nat /\ b \in Nat \ {0} /\ c \in Nat /\ l \in Nat
      BY <1>1, <2>3, <3>1
    <3>3. d * b = c * (l * b)
      <4>1. dp * replica = e.count * e.size /\ e.size = LocalRanks(e) * replica
        BY <2>1, <2>3
      <4> QED
        BY ONLY <3>1, <4>1, Zenon
    <3>4. d = c * l
      BY <3>2, <3>3, RanksOfSlices
    <3> QED
      BY <3>1, <3>4
  <2> QED
    BY <1>5, <1>1, <2>2, <2>3, <2>4
<1> QED
  BY <1>2, <1>3, <1>4, <1>5

\* The process that conversion has reached: on a granted node, within its endpoint.
LEMMA AtProcess ==
  ASSUME TypeOK, Granted, InOrder, cursor.endpoint <= Len(endpoints), ~Rejected(Endpoint)
  PROVE  /\ Endpoint \in EndpointRecord
         /\ cursor.process \in Nat /\ cursor.process + 1 <= NumProcesses(Endpoint)
         /\ NodeNow \in Nodes
<1>1. cursor.endpoint \in DOMAIN endpoints /\ cursor.process \in Nat
  BY DEF TypeOK
<1>2. Endpoint \in EndpointRecord /\ LastNode(Endpoint) <= MaxNodes
  BY <1>1 DEF TypeOK, Granted, Endpoint
<1>3. recipe \in Recipe
  BY DEF TypeOK
<1> DEFINE e == Endpoint
<1>4. /\ NumProcesses(e) \in Nat \ {0}
      /\ Layout(e) = "per_gpu" => e.size \in Nat \ {0}
  BY <1>2, <1>3, RanksFit
<1>5. cursor.process + 1 <= NumProcesses(e)
  BY <1>1, <1>4 DEF InOrder
<1>6. /\ e.first \in 1..MaxNodes /\ e.count \in Nat \ {0} /\ e.first + e.count - 1 <= MaxNodes
      /\ MaxNodes \in Nat
  BY <1>2, MaxNodesAssumption DEF EndpointRecord, Nodes, LastNode
<1>7. CASE Layout(e) = "per_gpu"
  <2>1. cursor.process < e.count * e.size
    BY <1>1, <1>4, <1>5, <1>7 DEF NumProcesses
  <2>2. cursor.process \div e.size \in Nat /\ cursor.process \div e.size < e.count
    BY <1>1, <1>4, <1>6, <1>7, <2>1, DivNat, DivBelow
  <2>3. e.first + (cursor.process \div e.size) \in 1..MaxNodes
    BY <1>6, <2>2
  <2> QED
    BY <1>1, <1>2, <1>5, <1>7, <2>3 DEF NodeNow, Nodes
<1>8. CASE Layout(e) # "per_gpu"
  <2>1. cursor.process < e.count
    BY <1>1, <1>5, <1>6, <1>8 DEF NumProcesses
  <2>2. e.first + cursor.process \in 1..MaxNodes
    BY <1>1, <1>6, <2>1
  <2> QED
    BY <1>1, <1>2, <1>5, <1>8, <2>2 DEF NodeNow, Nodes
<1> QED
  BY <1>7, <1>8

\* A new process takes the next port of each class it binds.
LEMMA TakesTheNext ==
  ASSUME TypeOK, Granted, InOrder, cursor.endpoint <= Len(endpoints), ~Rejected(Endpoint)
  PROVE  LET p == NewProcess
         IN  /\ p.node = NodeNow /\ p.ranks = LocalRanks(Endpoint)
             /\ p.sys = next.sys /\ p.kv = next.kv
             /\ NixlFirst(p) = NixlFrontier
             /\ p.http # None => TakesHttp /\ p.http = next.http[NodeNow]
             /\ OwnsBootstrap(p) => TakesBootstrap /\ p.bootstrap = next.bootstrap[NodeNow]
             /\ OwnsRpc(p) => TakesRpc /\ p.rpc = next.rpc[NodeNow]
<1> DEFINE p == NewProcess
           L == LocalRanks(Endpoint)
<1>1. /\ recipe \in Recipe /\ Endpoint \in EndpointRecord
      /\ cursor.process \in Nat /\ NodeNow \in Nodes
  BY AtProcess DEF TypeOK
<1>2. /\ L \in Nat \ {0}
      /\ Layout(Endpoint) \in {"whole", "own", "per_gpu"} => L = 1
  BY <1>1, RanksFit
<1>3. /\ cursor.process * L \in Nat
      /\ cursor.process * L = 0 <=> cursor.process = 0
  BY <1>1, <1>2
<1>4. /\ next.nixl \in Nat /\ next.rpc[NodeNow] \in Nat
      /\ \A x \in Nat : x # None
  BY <1>1, NoneAssumption DEF TypeOK, PortCounters
<1>5. /\ p.node = NodeNow /\ p.ranks = L /\ p.rank = cursor.process * L
      /\ p.sys = next.sys /\ p.kv = next.kv
      /\ p.http = IF TakesHttp THEN next.http[NodeNow] ELSE None
      /\ p.bootstrap = BootstrapNow
      /\ p.nixl = IF OwnsRanks(Endpoint) THEN SharedNixl ELSE next.nixl
      /\ p.rpc = IF OwnsRanks(Endpoint) THEN SharedRpc ELSE None
  BY DEF NewProcess
<1>6. OwnsRanks(Endpoint) => SharedNixl \in Nat /\ SharedRpc \in Nat
  BY <1>1, <1>4 DEF SharedNixl, SharedRpc, Leader, InOrder
<1>7. p.rpc # None <=> OwnsRanks(Endpoint)
  BY <1>4, <1>5, <1>6
<1>8. NixlFirst(p) = NixlFrontier
  <2>1. CASE ~OwnsRanks(Endpoint)
    BY <1>5, <1>7, <2>1 DEF NixlFirst, NixlFrontier
  <2>2. CASE OwnsRanks(Endpoint)
    <3>1. NixlFirst(p) = SharedNixl + cursor.process * L
      BY <1>5, <1>7, <2>2 DEF NixlFirst
    <3>2. cursor.process = 0 => SharedNixl = next.nixl /\ cursor.process * L = 0
      BY <1>3 DEF SharedNixl, Leader
    <3>3. cursor.process # 0 => SharedNixl = cursor.nixl
      BY DEF SharedNixl, Leader
    <3> QED
      BY <1>4, <2>2, <3>1, <3>2, <3>3 DEF NixlFrontier
  <2> QED
    BY <2>1, <2>2
<1>9. p.http # None => TakesHttp /\ p.http = next.http[NodeNow]
  BY <1>5
<1>10. OwnsBootstrap(p) => TakesBootstrap /\ p.bootstrap = next.bootstrap[NodeNow]
  <2>1. SUFFICES ASSUME p.bootstrap # None, p.rank = 0 \/ p.rpc # None
                 PROVE  TakesBootstrap /\ p.bootstrap = next.bootstrap[NodeNow]
    BY DEF OwnsBootstrap
  <2>2. Leader \/ OwnsRanks(Endpoint)
    BY <1>3, <1>5, <1>7, <2>1 DEF Leader
  <2> QED
    BY <1>5, <2>1, <2>2 DEF BootstrapNow, OwnsRanks
<1>11. OwnsRpc(p) => TakesRpc /\ p.rpc = next.rpc[NodeNow]
  BY <1>3, <1>5, <1>7 DEF OwnsRpc, TakesRpc, SharedRpc, Leader
<1> QED
  BY <1>5, <1>8, <1>9, <1>10, <1>11

\* Conversion goes on with the same endpoint or with the next, and what the new process
\* holds of the NIXL ports is the frontier's next slice.
LEMMA FrontierMoves ==
  ASSUME TypeOK, Granted, InOrder, Convert
  PROVE  InOrder' /\ NixlFrontier \in Nat /\ NixlFrontier' \in Nat
         /\ NixlFrontier + LocalRanks(Endpoint) <= NixlFrontier'
<1> DEFINE e == Endpoint
           L == LocalRanks(Endpoint)
           n == NumProcesses(Endpoint)
           k == cursor.process
           dp == recipe.dp[Endpoint.mode]
<1>1. /\ cursor.endpoint <= Len(endpoints) /\ ~Rejected(Endpoint)
      /\ phase = "convert" /\ UNCHANGED <<phase, recipe, endpoints>>
      /\ next' = [http |-> Take(next.http, TakesHttp),
                  bootstrap |-> Take(next.bootstrap, TakesBootstrap),
                  rpc |-> Take(next.rpc, TakesRpc),
                  kv |-> next.kv + LocalRanks(Endpoint),
                  nixl |-> next.nixl + TakesNixl,
                  sys |-> next.sys + 1]
  BY DEF Convert, placing
<1>2. /\ recipe \in Recipe /\ e \in EndpointRecord /\ NodeNow \in Nodes
      /\ k \in Nat /\ k + 1 <= n
  BY <1>1, AtProcess DEF TypeOK
<1>3. /\ L \in Nat \ {0} /\ n \in Nat \ {0}
      /\ ~OwnsRanks(e) => L = 1
      /\ OwnsRanks(e) => dp = n * L
      /\ dp \in Nat
  <2>1. Layout(e) \in {"whole", "own", "per_gpu", "per_node"}
    BY DEF Layout
  <2> QED
    BY <1>1, <1>2, <2>1, RanksFit DEF OwnsRanks, Recipe, EndpointRecord
<1>4. k * L \in Nat /\ k * L + L <= n * L /\ (k + 1) * L = k * L + L
  BY <1>2, <1>3, NextSlice
<1>5. next.nixl \in Nat /\ next.rpc[NodeNow] \in Nat
  BY <1>2 DEF TypeOK, PortCounters
<1>6. OwnsRanks(e) => /\ SharedNixl \in Nat /\ SharedRpc \in Nat
                      /\ next'.nixl = SharedNixl + dp
  <2>1. OwnsRanks(e) => next'.nixl = next.nixl + IF k = 0 THEN dp ELSE 0
    BY <1>1 DEF TakesNixl, Leader
  <2> QED
    BY <1>2, <1>3, <1>5, <2>1 DEF SharedNixl, SharedRpc, Leader, InOrder
<1>7. ~OwnsRanks(e) => next'.nixl = next.nixl + 1
  BY <1>1 DEF TakesNixl
<1>8. /\ NixlFrontier \in Nat
      /\ NixlFrontier = IF OwnsRanks(e) THEN SharedNixl + k * L ELSE next.nixl
  <2>1. k = 0 => k * L = 0
    BY <1>3
  <2> QED
    BY <1>4, <1>5, <1>6, <2>1 DEF NixlFrontier, SharedNixl, Leader
<1>9. CASE k + 1 < n
  <2>1. cursor' = [endpoint |-> cursor.endpoint, process |-> k + 1,
                   bootstrap |-> SharedBootstrap, nixl |-> SharedNixl, rpc |-> SharedRpc]
    BY <1>9 DEF Convert
  <2>2. Endpoint' = Endpoint
    BY <1>1, <2>1 DEF Endpoint
  <2>3. /\ OwnsRanks(Endpoint)' = OwnsRanks(e) /\ Rejected(Endpoint)' = Rejected(e)
        /\ NumProcesses(Endpoint)' = n /\ LocalRanks(Endpoint)' = L
    BY <1>1, <2>2
       DEF OwnsRanks, Rejected, NumProcesses, LocalRanks, Layout, SplitsRanks, IsDp, PerGpu,
           has_dp_mode
  <2>4. InOrder'
    BY <1>1, <1>6, <1>9, <2>1, <2>2, <2>3 DEF InOrder
  <2>5. cursor'.process = k + 1 /\ cursor'.process # 0 /\ cursor'.nixl = SharedNixl
    BY <1>2, <2>1
  <2>6. CASE OwnsRanks(e)
    <3>1. NixlFrontier' = SharedNixl + (k + 1) * L
      BY <2>3, <2>5, <2>6 DEF NixlFrontier
    <3> QED
      BY <1>3, <1>4, <1>6, <1>8, <2>4, <2>6, <3>1
  <2>7. CASE ~OwnsRanks(e)
    <3>1. NixlFrontier' = next.nixl + 1
      BY <1>7, <2>3, <2>7 DEF NixlFrontier
    <3> QED
      BY <1>3, <1>5, <1>8, <2>4, <2>7, <3>1
  <2> QED
    BY <2>6, <2>7
<1>10. CASE ~(k + 1 < n)
  <2>1. cursor'.process = 0
    BY <1>10 DEF Convert, AtEndpoint
  <2>2. InOrder'
    BY <2>1 DEF InOrder
  <2>3. NixlFrontier' = next'.nixl
    BY <2>1 DEF NixlFrontier
  <2>4. CASE OwnsRanks(e)
    BY <1>3, <1>4, <1>6, <1>8, <2>2, <2>3, <2>4
  <2>5. CASE ~OwnsRanks(e)
    BY <1>3, <1>5, <1>7, <1>8, <2>2, <2>3, <2>5
  <2> QED
    BY <2>4, <2>5
<1> QED
  BY <1>9, <1>10

\* The counters never fall.
LEMMA CountersGrow ==
  ASSUME TypeOK, Granted, InOrder, Convert
  PROVE  /\ next' \in PortCounters
         /\ next'.sys = next.sys + 1
         /\ next'.kv = next.kv + LocalRanks(Endpoint)
         /\ \A n \in Nodes : /\ next.http[n] <= next'.http[n]
                             /\ next.bootstrap[n] <= next'.bootstrap[n]
                             /\ next.rpc[n] <= next'.rpc[n]
         /\ TakesHttp => next'.http[NodeNow] = next.http[NodeNow] + 1
         /\ TakesBootstrap => next'.bootstrap[NodeNow] = next.bootstrap[NodeNow] + 1
         /\ TakesRpc => next'.rpc[NodeNow] = next.rpc[NodeNow] + 1
<1>1. /\ cursor.endpoint <= Len(endpoints) /\ ~Rejected(Endpoint)
      /\ next' = [http |-> Take(next.http, TakesHttp),
                  bootstrap |-> Take(next.bootstrap, TakesBootstrap),
                  rpc |-> Take(next.rpc, TakesRpc),
                  kv |-> next.kv + LocalRanks(Endpoint),
                  nixl |-> next.nixl + TakesNixl,
                  sys |-> next.sys + 1]
  BY DEF Convert
<1>2. recipe \in Recipe /\ Endpoint \in EndpointRecord /\ NodeNow \in Nodes
  BY <1>1, AtProcess DEF TypeOK
<1>3. LocalRanks(Endpoint) \in Nat \ {0}
  BY <1>1, <1>2, RanksFit
<1>4. recipe.dp[Endpoint.mode] \in Nat /\ TakesNixl \in Nat
  BY <1>2 DEF Recipe, EndpointRecord, TakesNixl
<1>5. /\ next.http \in [Nodes -> Nat] /\ next.bootstrap \in [Nodes -> Nat]
      /\ next.rpc \in [Nodes -> Nat]
      /\ next.kv \in Nat /\ next.nixl \in Nat /\ next.sys \in Nat
  BY DEF TypeOK, PortCounters
<1>6. \A c \in [Nodes -> Nat], b \in BOOLEAN :
         /\ Take(c, b) \in [Nodes -> Nat]
         /\ \A n \in Nodes : c[n] <= Take(c, b)[n]
         /\ b => Take(c, b)[NodeNow] = c[NodeNow] + 1
  BY <1>2 DEF Take
<1>7. TakesHttp \in BOOLEAN /\ TakesBootstrap \in BOOLEAN /\ TakesRpc \in BOOLEAN
  BY DEF TakesHttp, TakesBootstrap, TakesRpc, Leader, OwnsRanks
<1>8. next' \in PortCounters
  <2>1. /\ Take(next.http, TakesHttp) \in [Nodes -> Nat]
        /\ Take(next.bootstrap, TakesBootstrap) \in [Nodes -> Nat]
        /\ Take(next.rpc, TakesRpc) \in [Nodes -> Nat]
    BY <1>5, <1>6, <1>7
  <2>2. /\ next.kv + LocalRanks(Endpoint) \in Nat /\ next.nixl + TakesNixl \in Nat
        /\ next.sys + 1 \in Nat
    BY <1>3, <1>4, <1>5
  <2> QED
    BY <1>1, <2>1, <2>2 DEF PortCounters
<1>9. /\ next'.http = Take(next.http, TakesHttp)
      /\ next'.bootstrap = Take(next.bootstrap, TakesBootstrap)
      /\ next'.rpc = Take(next.rpc, TakesRpc)
      /\ next'.kv = next.kv + LocalRanks(Endpoint) /\ next'.sys = next.sys + 1
  BY <1>1
<1>10. /\ \A n \in Nodes : /\ next.http[n] <= next'.http[n]
                           /\ next.bootstrap[n] <= next'.bootstrap[n]
                           /\ next.rpc[n] <= next'.rpc[n]
       /\ TakesHttp => next'.http[NodeNow] = next.http[NodeNow] + 1
       /\ TakesBootstrap => next'.bootstrap[NodeNow] = next.bootstrap[NodeNow] + 1
       /\ TakesRpc => next'.rpc[NodeNow] = next.rpc[NodeNow] + 1
  BY <1>5, <1>6, <1>7, <1>9
<1> QED
  BY <1>8, <1>9, <1>10

\* A conversion keeps everything below the counters, and the new process apart.
LEMMA ConvertKeeps ==
  ASSUME PortsInv, Convert
  PROVE  PortsInv'
<1> DEFINE L == LocalRanks(Endpoint)
<1>0. PICK new : new = NewProcess
  OBVIOUS
<1>1. /\ TypeOK /\ Granted /\ InOrder /\ AllBelow /\ PortsExclusive
      /\ cursor.endpoint <= Len(endpoints) /\ ~Rejected(Endpoint)
      /\ processes' = processes \union {new}
  BY <1>0 DEF PortsInv, Convert
<1>2. /\ recipe \in Recipe /\ Endpoint \in EndpointRecord /\ NodeNow \in Nodes
      /\ L \in Nat \ {0}
  BY <1>1, AtProcess, RanksFit DEF TypeOK
<1>3. /\ InOrder' /\ NixlFrontier \in Nat /\ NixlFrontier' \in Nat
      /\ NixlFrontier + L <= NixlFrontier'
  BY <1>1, FrontierMoves
<1>4. /\ new.node = NodeNow /\ new.ranks = L
      /\ new.sys = next.sys /\ new.kv = next.kv /\ NixlFirst(new) = NixlFrontier
      /\ new.http # None => TakesHttp /\ new.http = next.http[NodeNow]
      /\ OwnsBootstrap(new) => TakesBootstrap /\ new.bootstrap = next.bootstrap[NodeNow]
      /\ OwnsRpc(new) => TakesRpc /\ new.rpc = next.rpc[NodeNow]
  BY <1>0, <1>1, TakesTheNext
<1>5. next' \in PortCounters /\ next \in PortCounters
  BY <1>1, CountersGrow DEF TypeOK
<1>6. TypeOK'
  <2>1. cursor'.endpoint \in Nat \ {0} /\ cursor'.process \in Nat
    BY <1>1, AtProcess DEF Convert, AtEndpoint, TypeOK
  <2> QED
    BY <1>1, <1>5, <2>1 DEF TypeOK, Convert, placing
<1>7. Granted'
  BY <1>1 DEF Granted, Convert, placing, LastNode
<1>8. AllBelow'
  <2>1. /\ next.sys \in Nat /\ next'.sys = next.sys + 1
        /\ next.kv \in Nat /\ next'.kv = next.kv + L
    BY <1>1, <1>2, <1>5, CountersGrow DEF PortCounters
  <2>2. \A n \in Nodes : /\ next.http[n] \in Nat /\ next'.http[n] \in Nat
                         /\ next.bootstrap[n] \in Nat /\ next'.bootstrap[n] \in Nat
                         /\ next.rpc[n] \in Nat /\ next'.rpc[n] \in Nat
    BY <1>5 DEF PortCounters
  <2>3. ASSUME NEW p \in processes
        PROVE  Below(p)'
    <3>1. Below(p)
      BY <1>1 DEF AllBelow
    <3>2. \A n \in Nodes : /\ next.http[n] <= next'.http[n]
                           /\ next.bootstrap[n] <= next'.bootstrap[n]
                           /\ next.rpc[n] <= next'.rpc[n]
      BY <1>1, CountersGrow
    <3>3. /\ p.node \in Nodes /\ p.ranks \in Nat \ {0} /\ p.sys \in Nat /\ p.kv \in Nat
          /\ NixlFirst(p) \in Nat
      BY <3>1 DEF Below
    <3>4. p.sys < next'.sys /\ p.kv + p.ranks <= next'.kv
      BY <1>2, <2>1, <3>1, <3>3 DEF Below
    <3>5. NixlFirst(p) + p.ranks <= NixlFrontier'
      BY <1>2, <1>3, <3>1, <3>3 DEF Below
    <3>6. p.http # None => p.http \in Nat /\ p.http < next'.http[p.node]
      BY <2>2, <3>1, <3>2, <3>3 DEF Below
    <3>7. OwnsBootstrap(p) => p.bootstrap \in Nat /\ p.bootstrap < next'.bootstrap[p.node]
      BY <2>2, <3>1, <3>2, <3>3 DEF Below
    <3>8. OwnsRpc(p) => p.rpc \in Nat /\ p.rpc < next'.rpc[p.node]
      BY <2>2, <3>1, <3>2, <3>3 DEF Below
    <3> QED
      BY <3>3, <3>4, <3>5, <3>6, <3>7, <3>8 DEF Below, NixlFirst, OwnsBootstrap, OwnsRpc
  <2>4. Below(new)'
    <3>1. /\ TakesHttp => next'.http[NodeNow] = next.http[NodeNow] + 1
          /\ TakesBootstrap => next'.bootstrap[NodeNow] = next.bootstrap[NodeNow] + 1
          /\ TakesRpc => next'.rpc[NodeNow] = next.rpc[NodeNow] + 1
      BY <1>1, CountersGrow
    <3>2. /\ new.node \in Nodes /\ new.ranks \in Nat \ {0}
          /\ new.sys \in Nat /\ new.sys < next'.sys
          /\ new.kv \in Nat /\ new.kv + new.ranks <= next'.kv
      BY <1>2, <1>4, <2>1
    <3>3. NixlFirst(new) \in Nat /\ NixlFirst(new) + new.ranks <= NixlFrontier'
      BY <1>3, <1>4
    <3>4. new.http # None => new.http \in Nat /\ new.http < next'.http[new.node]
      BY <1>2, <1>4, <2>2, <3>1
    <3>5. OwnsBootstrap(new) =>
             new.bootstrap \in Nat /\ new.bootstrap < next'.bootstrap[new.node]
      BY <1>2, <1>4, <2>2, <3>1
    <3>6. OwnsRpc(new) => new.rpc \in Nat /\ new.rpc < next'.rpc[new.node]
      BY <1>2, <1>4, <2>2, <3>1
    <3> QED
      BY <3>2, <3>3, <3>4, <3>5, <3>6 DEF Below, NixlFirst, OwnsBootstrap, OwnsRpc
  <2> QED
    BY <1>1, <2>3, <2>4 DEF AllBelow
<1>9. PortsExclusive'
  <2>1. ASSUME NEW p \in processes
        PROVE  /\ p.sys # new.sys
               /\ Apart(p.kv, p.ranks, new.kv, new.ranks)
               /\ Apart(new.kv, new.ranks, p.kv, p.ranks)
               /\ Apart(NixlFirst(p), p.ranks, NixlFirst(new), new.ranks)
               /\ Apart(NixlFirst(new), new.ranks, NixlFirst(p), p.ranks)
               /\ p.node = new.node =>
                    /\ p.http # None => p.http # new.http
                    /\ OwnsBootstrap(p) /\ OwnsBootstrap(new) => p.bootstrap # new.bootstrap
                    /\ OwnsRpc(p) /\ OwnsRpc(new) => p.rpc # new.rpc
    <3>1. Below(p)
      BY <1>1 DEF AllBelow
    <3>2. next.sys \in Nat
          /\ \A n \in Nodes : next.http[n] \in Nat /\ next.bootstrap[n] \in Nat
                             /\ next.rpc[n] \in Nat
      BY <1>5 DEF PortCounters
    <3>3. p.sys # new.sys
      BY <1>4, <3>1, <3>2 DEF Below
    <3>4. /\ p.kv + p.ranks <= new.kv
          /\ NixlFirst(p) + p.ranks <= NixlFirst(new)
      BY <1>4, <3>1 DEF Below
    <3>5. p.node = new.node =>
            /\ p.http # None => p.http # new.http
            /\ OwnsBootstrap(p) /\ OwnsBootstrap(new) => p.bootstrap # new.bootstrap
            /\ OwnsRpc(p) /\ OwnsRpc(new) => p.rpc # new.rpc
      BY <1>2, <1>4, <3>1, <3>2, NoneAssumption DEF Below
    <3> QED
      BY <3>3, <3>4, <3>5 DEF Apart
  <2> QED
    BY <1>1, <2>1 DEF PortsExclusive, NixlFirst, OwnsBootstrap, OwnsRpc
<1> QED
  BY <1>3, <1>6, <1>7, <1>8, <1>9 DEF PortsInv

-----------------------------------------------------------------------------
(* The steps before conversion                                             *)

LEMMA PortsInitial == Init => PortsInv
<1> SUFFICES ASSUME Init PROVE PortsInv
  OBVIOUS
<1>1. /\ recipe \in Recipes /\ recipe \in Recipe /\ MaxNodes \in Nat
  BY RecipesAssumption, MaxNodesAssumption DEF Init
<1>2. Counters \in PortCounters
  BY DEF Counters, PortCounters
<1>3. TypeOK
  BY <1>1, <1>2 DEF Init, TypeOK, NoPool, AtEndpoint, Modes
<1>4. Granted
  BY <1>1 DEF Init, Granted, NoPool
<1>5. InOrder /\ AllBelow /\ PortsExclusive
  BY DEF Init, InOrder, AllBelow, PortsExclusive, AtEndpoint
<1> QED
  BY <1>3, <1>4, <1>5 DEF PortsInv

\* The allocation has no more nodes than the constant allows.
LEMMA SubmitKeeps ==
  ASSUME TypeOK, Granted, Submit
  PROVE  TypeOK' /\ Granted'
<1>1. /\ recipe \in Recipe /\ recipe \in Recipes /\ Accepted(recipe)
      /\ UNCHANGED <<recipe, pool, placing, converting>>
      /\ phase' = "carve"
      /\ nodelist' = NumReserved(recipe)
                     + IF recipe.het THEN resource_nodes(recipe) ELSE total_nodes(recipe)
  <2>1. /\ recipe \in Recipe /\ recipe \in Recipes /\ Accepted(recipe)
        /\ UNCHANGED <<recipe, pool, placing, converting>> /\ phase' = "carve"
        /\ nodelist' = IF recipe.het
                         THEN HetNodes(recipe, "prefill") + HetNodes(recipe, "decode")
                         ELSE total_nodes(recipe) + NumReserved(recipe)
    BY DEF TypeOK, Granted, Submit
  <2>2. total_nodes(recipe) \in Nat /\ NumReserved(recipe) \in Nat
    BY <2>1, NodeCounts
  <2> QED
    BY <2>1, <2>2, HetSplit
<1>2. nodelist' \in Nat /\ nodelist' <= MaxNodes
  BY <1>1, NodeCounts, NodesAssumption, MaxNodesAssumption
<1>3. TypeOK'
  BY <1>1, <1>2 DEF TypeOK, placing, converting
<1>4. Granted'
  BY <1>1, <1>2
     DEF Granted, placing, converting, NumReserved, resource_nodes, total_nodes, Accepted,
         LastNode
<1> QED
  BY <1>3, <1>4

\* Whatever is reserved, the workers' nodes are among the granted ones.
LEMMA CarveKeeps ==
  ASSUME TypeOK, Granted, Carve
  PROVE  TypeOK' /\ Granted'
<1> DEFINE first == FromFront + 1
           last == nodelist - FromTail
           split == FromFront + recipe.nodes["prefill"]
           halves(at) == [m \in Modes |->
                            CASE m = "prefill" -> [first |-> first, last |-> at]
                              [] m = "decode"  -> [first |-> at + 1, last |-> last]
                              [] m = "agg"     -> NoPool]
<1>1. /\ recipe \in Recipe /\ recipe \in Recipes /\ Accepted(recipe) /\ nodelist \in Nat
      /\ nodelist = NumReserved(recipe)
                    + IF recipe.het THEN resource_nodes(recipe) ELSE total_nodes(recipe)
      /\ nodelist <= MaxNodes /\ nodelist > NumReserved(recipe)
      /\ phase' = "allocate" /\ UNCHANGED <<recipe, nodelist, placing, converting>>
      /\ pool' = IF recipe.het
                   THEN halves(split)
                   ELSE [m \in Modes |-> [first |-> first, last |-> last]]
  <2>1. /\ recipe \in Recipe /\ recipe \in Recipes /\ Accepted(recipe) /\ nodelist \in Nat
        /\ nodelist = NumReserved(recipe)
                      + IF recipe.het THEN resource_nodes(recipe) ELSE total_nodes(recipe)
        /\ nodelist <= MaxNodes /\ nodelist > NumReserved(recipe)
        /\ phase' = "allocate" /\ UNCHANGED <<recipe, nodelist, placing, converting>>
        /\ pool' = IF recipe.het THEN halves(HetNodes(recipe, "prefill"))
                   ELSE [m \in Modes |-> [first |-> first, last |-> last]]
    BY DEF TypeOK, Granted, Carve
  <2> HIDE DEF halves
  <2> QED
    BY <2>1, HetSplit
<1>2. /\ FromFront \in Nat /\ FromTail \in Nat /\ NumReserved(recipe) \in Nat
      /\ FromFront <= NumReserved(recipe) /\ FromTail <= NumReserved(recipe)
  BY <1>1, FrontAndTail, NodeCounts
<1>3. first \in Nat /\ first >= 1 /\ last \in Nat /\ last <= MaxNodes /\ MaxNodes \in Nat
  BY <1>1, <1>2, MaxNodesAssumption
<1>4. recipe.het => split \in Nat /\ split <= MaxNodes
  <2> SUFFICES ASSUME recipe.het PROVE split \in Nat /\ split <= MaxNodes
    OBVIOUS
  <2>1. /\ is_disaggregated(recipe)
        /\ Or(recipe.nodes["prefill"], 0) >= 1 /\ Or(recipe.nodes["decode"], 0) >= 1
    BY <1>1 DEF Accepted, AcceptsHet
  <2>2. recipe.nodes["prefill"] \in Nat \union {None} /\ recipe.nodes["decode"] \in Nat \union {None}
    BY <1>1 DEF Recipe, Modes
  <2>3. recipe.nodes["prefill"] \in Nat /\ recipe.nodes["decode"] \in Nat
    BY <2>1, <2>2 DEF Or
  <2>4. resource_nodes(recipe) = recipe.nodes["prefill"] + recipe.nodes["decode"]
    BY <2>1, <2>3, NoneAssumption DEF resource_nodes, Or
  <2> QED
    BY <1>1, <1>2, <1>3, <2>3, <2>4
<1>5. /\ pool' \in [Modes -> [first: Nat, last: Nat]]
      /\ \A m \in Modes : pool'[m].first >= 1 /\ pool'[m].last <= MaxNodes
  <2>1. CASE recipe.het
    BY <1>1, <1>3, <1>4, <2>1 DEF Modes, NoPool
  <2>2. CASE ~recipe.het
    BY <1>1, <1>3, <2>2
  <2> QED
    BY <2>1, <2>2
<1>6. TypeOK'
  BY <1>1, <1>5 DEF TypeOK, placing, converting
<1>7. Granted'
  BY <1>1, <1>5 DEF Granted, placing, converting, LastNode
<1> QED
  BY <1>6, <1>7

LEMMA PlaceFullNodeKeeps ==
  ASSUME TypeOK, Granted, PlaceFullNode
  PROVE  TypeOK' /\ Granted'
<1>1. /\ recipe \in Recipe /\ mode \in Modes /\ node_idx \in Nat /\ index \in Nat
      /\ recipe.gpus_per_node \in Nat \ {0}
  BY DEF TypeOK, Recipe
<1>2. GpusNow \in Nat /\ NodesPerWorker \in Nat \ {0}
  BY <1>1, GpusPerNat, CeilDivNat DEF GpusNow, NodesPerWorker, FullNode, PlaceFullNode
<1>3. /\ endpoints' = Placed(node_idx, NodesPerWorker, 0, recipe.gpus_per_node)
      /\ node_idx' = node_idx + NodesPerWorker /\ index' = index + 1
      /\ node_idx + NodesPerWorker <= NodesAvailable
      /\ phase = "allocate"
      /\ UNCHANGED <<recipe, phase, nodelist, reserved, pool, mode, gpu_offset, cursor, next,
                     processes>>
  BY DEF PlaceFullNode, converting, MoreWorkers
<1>4. endpoints' \in Seq(EndpointRecord) /\ \A i \in DOMAIN endpoints' : LastNode(endpoints'[i]) <= MaxNodes
  BY <1>1, <1>2, <1>3, PlacedOnNodes
<1> QED
  BY <1>1, <1>2, <1>3, <1>4 DEF TypeOK, Granted, LastNode

LEMMA PlacePartialNodeKeeps ==
  ASSUME TypeOK, Granted, PlacePartialNode
  PROVE  TypeOK' /\ Granted'
<1>1. /\ recipe \in Recipe /\ mode \in Modes /\ node_idx \in Nat /\ index \in Nat
      /\ gpu_offset \in Nat /\ recipe.gpus_per_node \in Nat \ {0}
      /\ pool[mode].first \in Nat /\ pool[mode].last \in Nat
  BY DEF TypeOK, Recipe
<1>2. GpusNow \in Nat /\ PartialNode \in Nat /\ PartialOffset \in Nat /\ NodesAvailable \in Int
  BY <1>1, GpusPerNat DEF GpusNow, PartialNode, PartialOffset, NodesAvailable
<1>3. /\ endpoints' = Placed(PartialNode, 1, PartialOffset, GpusNow)
      /\ PartialNode + 1 <= NodesAvailable /\ index' = index + 1
      /\ node_idx' \in Nat /\ gpu_offset' \in Nat
      /\ phase = "allocate"
      /\ UNCHANGED <<recipe, phase, nodelist, reserved, pool, mode, cursor, next, processes>>
  BY <1>1, <1>2 DEF PlacePartialNode, converting, MoreWorkers
<1>4. endpoints' \in Seq(EndpointRecord) /\ \A i \in DOMAIN endpoints' : LastNode(endpoints'[i]) <= MaxNodes
  <2> DEFINE one == 1
  <2>1. one \in Nat \ {0} /\ PartialNode + one <= NodesAvailable
    BY <1>3
  <2> HIDE DEF one
  <2>2. LET e == Placed(PartialNode, one, PartialOffset, GpusNow)
        IN  /\ e \in Seq(EndpointRecord)
            /\ \A i \in DOMAIN e : LastNode(e[i]) <= MaxNodes
    BY <1>2, <2>1, PlacedOnNodes
  <2> QED
    BY <1>3, <2>2 DEF one
<1> QED
  BY <1>1, <1>3, <1>4 DEF TypeOK, Granted, LastNode

\* Actions that place and convert nothing.
Moves == \/ SubmitRejected \/ CarveRejected \/ OutOfNodes
         \/ StartDecode \/ StartAgg \/ AllPlaced
         \/ ConvertRejected \/ AllConverted

LEMMA MovesKeep ==
  ASSUME TypeOK, Granted, InOrder, Moves
  PROVE  TypeOK' /\ Granted' /\ InOrder'
<1>1. /\ UNCHANGED <<recipe, nodelist, reserved, pool, endpoints, cursor, next, processes>>
      /\ phase' \in {"failed", "allocate", "convert", "done"}
      /\ phase' = "allocate" => phase = "allocate"
  BY DEF Moves, SubmitRejected, CarveRejected, OutOfNodes, StartDecode, StartAgg, AllPlaced,
         ConvertRejected, AllConverted, placing, converting
<1>2. mode' \in Modes /\ index' \in Nat /\ node_idx' \in Nat /\ gpu_offset' \in Nat
  <2>1. /\ mode \in Modes /\ index \in Nat /\ node_idx \in Nat /\ gpu_offset \in Nat
        /\ {"prefill", "decode", "agg"} \subseteq Modes
    BY DEF TypeOK, Modes
  <2>2. CASE UNCHANGED placing
    BY <2>1, <2>2 DEF placing
  <2>3. CASE StartDecode
    BY <2>1, <2>3 DEF StartDecode
  <2>4. CASE StartAgg
    BY <2>1, <2>4 DEF StartAgg
  <2> QED
    BY <2>2, <2>3, <2>4
       DEF Moves, SubmitRejected, CarveRejected, OutOfNodes, AllPlaced, ConvertRejected,
           AllConverted
<1>3. TypeOK'
  BY <1>1, <1>2 DEF TypeOK
<1>4. Granted'
  BY <1>1 DEF Granted, LastNode
<1>5. InOrder'
  BY <1>1 DEF InOrder, Endpoint, OwnsRanks, Rejected, NumProcesses, LocalRanks, Layout,
              SplitsRanks, IsDp, PerGpu, has_dp_mode
<1> QED
  BY <1>3, <1>4, <1>5

-----------------------------------------------------------------------------
(* Every step keeps the invariant                                          *)

\* Where nothing is converted, nothing that concerns the ports changes.
LEMMA PortsUntouched ==
  ASSUME AllBelow, PortsExclusive, UNCHANGED <<cursor, next, processes>>,
         \/ cursor.process = 0
         \/ UNCHANGED <<recipe, endpoints>>
  PROVE  AllBelow' /\ PortsExclusive'
<1>1. NixlFrontier' = NixlFrontier
  BY DEF NixlFrontier, OwnsRanks, LocalRanks, Layout, SplitsRanks, IsDp, PerGpu, has_dp_mode,
         Endpoint
<1>2. AllBelow'
  BY <1>1 DEF AllBelow, Below, NixlFirst, OwnsBootstrap, OwnsRpc
<1>3. PortsExclusive'
  BY DEF PortsExclusive, NixlFirst, OwnsBootstrap, OwnsRpc
<1> QED
  BY <1>2, <1>3

LEMMA PortsStep == PortsInv /\ [Next]_vars => PortsInv'
<1> SUFFICES ASSUME PortsInv, [Next]_vars PROVE PortsInv'
  OBVIOUS
<1>0. TypeOK /\ Granted /\ InOrder /\ AllBelow /\ PortsExclusive
  BY DEF PortsInv
<1>1. CASE Submit \/ Carve \/ PlaceFullNode \/ PlacePartialNode
  <2>1. TypeOK' /\ Granted'
    BY <1>0, <1>1, SubmitKeeps, CarveKeeps, PlaceFullNodeKeeps, PlacePartialNodeKeeps
  <2>2. /\ phase \in {"submit", "carve", "allocate"}
        /\ UNCHANGED <<cursor, next, processes>>
    BY <1>1 DEF Submit, Carve, PlaceFullNode, PlacePartialNode, MoreWorkers, converting
  <2>3. cursor.process = 0 /\ cursor'.process = 0
    BY <1>0, <2>2 DEF InOrder
  <2>4. InOrder'
    BY <2>3 DEF InOrder
  <2>5. AllBelow' /\ PortsExclusive'
    BY <1>0, <2>2, <2>3, PortsUntouched
  <2> QED
    BY <2>1, <2>4, <2>5 DEF PortsInv
<1>2. CASE Moves
  <2>1. TypeOK' /\ Granted' /\ InOrder'
    BY <1>0, <1>2, MovesKeep
  <2>2. UNCHANGED <<recipe, endpoints, cursor, next, processes>>
    BY <1>2 DEF Moves, SubmitRejected, CarveRejected, OutOfNodes, StartDecode, StartAgg,
                AllPlaced, ConvertRejected, AllConverted, placing, converting
  <2>3. AllBelow' /\ PortsExclusive'
    BY <1>0, <2>2, PortsUntouched
  <2> QED
    BY <2>1, <2>3 DEF PortsInv
<1>3. CASE Convert
  BY <1>3, ConvertKeeps
<1>4. CASE UNCHANGED vars
  <2>1. UNCHANGED <<recipe, endpoints, cursor, next, processes>>
    BY <1>4 DEF vars
  <2>2. AllBelow' /\ PortsExclusive'
    BY <1>0, <2>1, PortsUntouched
  <2>3. TypeOK' /\ Granted'
    BY <1>0, <1>4 DEF vars, TypeOK, Granted, LastNode
  <2>4. InOrder'
    BY <1>0, <1>4 DEF vars, InOrder, Endpoint, OwnsRanks, Rejected, NumProcesses, LocalRanks,
                      Layout, SplitsRanks, IsDp, PerGpu, has_dp_mode
  <2> QED
    BY <2>2, <2>3, <2>4 DEF PortsInv
<1> QED
  BY <1>1, <1>2, <1>3, <1>4 DEF Next, Moves

\* Type correctness of placement and conversion, for every recipe, nodes in bounds
\* included (topology.py, allocate_endpoints and endpoints_to_processes).
THEOREM PlacementTypes == Spec => []TypeOK
<1>1. PortsInv => TypeOK
  BY DEF PortsInv
<1> QED
  BY <1>1, PortsInitial, PortsStep, PTL DEF Spec

\* No two processes of a job bind the same port (topology.py, NodePortAllocator; vllm.py,
\* endpoints_to_processes).
THEOREM PortsAreExclusive == Spec => []PortsExclusive
<1>1. PortsInv => PortsExclusive
  BY DEF PortsInv
<1> QED
  BY <1>1, PortsInitial, PortsStep, PTL DEF Spec

-----------------------------------------------------------------------------
(* Where nodes and GPUs go                                                 *)

LEMMA CeilAtLeast ==
  ASSUME NEW a \in Nat, NEW b \in Nat \ {0}, NEW d \in Nat
  PROVE  /\ a >= d * b => CeilDiv(a, b) >= d
         /\ a > d * b => CeilDiv(a, b) >= d + 1
<1> DEFINE q == CeilDiv(a, b)
<1>1. q \in Nat /\ d * b \in Nat
  BY CeilDivNat, TimesNat
<1>2. a + b - 1 < (q + 1) * b
  BY SMT DEF CeilDiv
<1>3. (q + 1) * b = q * b + b /\ q * b \in Nat
  BY <1>1, TimesNat, SMT
<1>4. a - 1 < q * b
  BY <1>1, <1>2, <1>3
<1>5. ASSUME a >= d * b PROVE q >= d
  <2>1. d * b <= q * b
    BY <1>1, <1>3, <1>4, <1>5
  <2> QED
    BY <1>1, <2>1, SMT
<1>6. ASSUME a > d * b PROVE q >= d + 1
  <2>1. d * b < q * b
    BY <1>1, <1>3, <1>4, <1>6
  <2> QED
    BY <1>1, <2>1, SMT
<1> QED
  BY <1>5, <1>6

\* What is taken from the front and from the end of the list are the reserved nodes.
LEMMA ReservedSum ==
  ASSUME recipe \in Recipe
  PROVE  FromFront + FromTail = NumReserved(recipe)
<1> DEFINE D == recipe.dedicated
<1>1. IsFiniteSet(D) /\ Cardinality(D) \in Nat
  BY FiniteRoles, FS_Subset, FS_CardinalityType, D \in SUBSET Roles DEF Recipe
<1>2. CASE "client" \in D
  <2>1. Cardinality(D \ {"client"}) = Cardinality(D) - 1
    BY <1>1, <1>2, FS_RemoveElement
  <2> QED
    BY <1>1, <1>2, <2>1 DEF FromFront, FromTail, NumReserved
<1>3. CASE "client" \notin D
  <2>1. D \ {"client"} = D
    BY <1>3
  <2> QED
    BY <1>1, <1>3, <2>1 DEF FromFront, FromTail, NumReserved
<1> QED
  BY <1>2, <1>3

\* The nodes the recipe asks for, without the dedicated ones.
NodesAsked == IF recipe.het THEN resource_nodes(recipe) ELSE total_nodes(recipe)

\* From the start of the job on the node list is divided as from_slurm divided it.
Carved ==
    phase \in {"allocate", "convert", "done"} =>
        /\ Accepted(recipe)
        /\ nodelist = NumReserved(recipe) + NodesAsked /\ NodesAsked > 0
        /\ reserved = [role \in recipe.dedicated |-> ReservedNode(role)]
        /\ ~recipe.het => \A m \in Modes : /\ pool[m].first = FromFront + 1
                                           /\ pool[m].last = nodelist - FromTail
        /\ recipe.het => /\ pool["prefill"].first = FromFront + 1
                         /\ pool["prefill"].last = FromFront + recipe.nodes["prefill"]
                         /\ pool["decode"].first = FromFront + recipe.nodes["prefill"] + 1
                         /\ pool["decode"].last = nodelist
                         /\ pool["agg"] = NoPool

LEMMA HetDivision ==
  ASSUME recipe \in Recipe, Accepted(recipe), recipe.het
  PROVE  /\ FromTail = 0 /\ "client" \notin recipe.dedicated
         /\ recipe.nodes["prefill"] \in Nat \ {0} /\ recipe.nodes["decode"] \in Nat \ {0}
         /\ resource_nodes(recipe) = recipe.nodes["prefill"] + recipe.nodes["decode"]
         /\ FromFront = NumReserved(recipe)
<1>1. /\ is_disaggregated(recipe) /\ recipe.dedicated \cap {"frontend", "client"} = {}
      /\ Or(recipe.nodes["prefill"], 0) >= 1 /\ Or(recipe.nodes["decode"], 0) >= 1
  BY DEF Accepted, AcceptsHet
<1>2. /\ recipe.nodes["prefill"] \in Nat \union {None}
      /\ recipe.nodes["decode"] \in Nat \union {None}
  BY DEF Recipe, Modes
<1>3. recipe.nodes["prefill"] \in Nat \ {0} /\ recipe.nodes["decode"] \in Nat \ {0}
  BY <1>1, <1>2 DEF Or
<1>4. FromTail = 0 /\ "client" \notin recipe.dedicated
  BY <1>1 DEF FromTail
<1>5. FromFront = NumReserved(recipe)
  BY <1>4, ReservedSum, FrontAndTail
<1>6. recipe.nodes["prefill"] # None /\ recipe.nodes["decode"] # None
  BY <1>3, NoneAssumption
<1>7. resource_nodes(recipe) = recipe.nodes["prefill"] + recipe.nodes["decode"]
  BY <1>1, <1>6 DEF resource_nodes, Or
<1> QED
  BY <1>3, <1>4, <1>5, <1>7

\* The pools of the modes are the nodes between the reserved ones.
LEMMA PoolsTogether ==
  ASSUME TypeOK, Carved, phase \in {"allocate", "convert", "done"}
  PROVE  UNION {pool[m].first..pool[m].last : m \in Modes} = (FromFront + 1)..(nodelist - FromTail)
<1>1. /\ recipe \in Recipe /\ nodelist \in Nat /\ FromFront \in Nat /\ FromTail \in Nat
      /\ Modes = {"prefill", "decode", "agg"} /\ Accepted(recipe)
      /\ nodelist = NumReserved(recipe) + NodesAsked
      /\ FromFront + FromTail = NumReserved(recipe) /\ NumReserved(recipe) \in Nat
  BY FrontAndTail, ReservedSum, NodeCounts DEF TypeOK, Modes, Carved
<1>2. CASE ~recipe.het
  <2>1. \A m \in Modes : pool[m].first..pool[m].last = (FromFront + 1)..(nodelist - FromTail)
    BY <1>2 DEF Carved
  <2> QED
    BY <1>1, <2>1
<1>3. CASE recipe.het
  <2> DEFINE f == FromFront
             p == recipe.nodes["prefill"]
             d == recipe.nodes["decode"]
  <2>1. /\ p \in Nat /\ d \in Nat /\ FromTail = 0 /\ nodelist = f + p + d
    BY <1>1, <1>3, HetDivision DEF NodesAsked
  <2>2. /\ pool["prefill"].first..pool["prefill"].last = (f + 1)..(f + p)
        /\ pool["decode"].first..pool["decode"].last = (f + p + 1)..(f + p + d)
        /\ pool["agg"].first..pool["agg"].last = 1..0
    BY <1>3, <2>1 DEF Carved, NoPool
  <2>3. 1..0 = {} /\ (f + 1)..(f + p + d) = ((f + 1)..(f + p)) \union ((f + p + 1)..(f + p + d))
    BY <1>1, <2>1
  <2>4. UNION {pool[m].first..pool[m].last : m \in Modes}
          = ((f + 1)..(f + p)) \union ((f + p + 1)..(f + p + d))
    <3> DEFINE I(m) == pool[m].first..pool[m].last
    <3>1. UNION {I(m) : m \in Modes} = I("prefill") \union I("decode") \union I("agg")
      BY <1>1
    <3>2. I("agg") = {}
      BY <2>2, <2>3
    <3> QED
      BY <2>2, <3>1, <3>2
  <2>5. (FromFront + 1)..(nodelist - FromTail) = (f + 1)..(f + p + d)
    BY <2>1
  <2> QED
    BY <2>3, <2>4, <2>5
<1> QED
  BY <1>2, <1>3

\* The reserved nodes are those at the front of the list and the one at its end.
LEMMA ReservedNodes ==
  ASSUME recipe \in Recipe, nodelist \in Nat, nodelist > NumReserved(recipe)
  PROVE  LET D == recipe.dedicated
             R == {ReservedNode(role) : role \in D}
         IN  /\ R = (1..FromFront) \union ((nodelist - FromTail + 1)..nodelist)
             /\ ~recipe.colocate_dedicated =>
                  \A r1, r2 \in D : r1 # r2 => ReservedNode(r1) # ReservedNode(r2)
             /\ "client" \in D => ReservedNode("client") = nodelist /\ nodelist # 1
<1> DEFINE D == recipe.dedicated
           R == {ReservedNode(role) : role \in D}
<1>1. D \subseteq {"infra", "frontend", "client"} /\ recipe.colocate_dedicated \in BOOLEAN
  BY DEF Recipe, Roles
<1>2. /\ NumReserved(recipe) \in Nat /\ FromFront \in Nat /\ FromTail \in Nat
      /\ FromFront + FromTail = NumReserved(recipe)
  BY NodeCounts, FrontAndTail, ReservedSum
<1>3. nodelist..nodelist = {nodelist} /\ (nodelist + 1)..nodelist = {} /\ 1..0 = {} /\ 1..1 = {1}
      /\ 1..2 = {1, 2}
  OBVIOUS
<1>4. CASE D = {}
  BY <1>3, <1>4 DEF FromFront, FromTail
<1>5. CASE D # {} /\ recipe.colocate_dedicated
  <2>1. CASE "client" \in D
    <3>1. R = {nodelist} /\ FromFront = 0 /\ FromTail = 1
      BY <1>5, <2>1 DEF ReservedNode, FromFront, FromTail
    <3>2. nodelist - 1 + 1 = nodelist /\ nodelist # 1 /\ ReservedNode("client") = nodelist
      BY <1>2, <3>1 DEF ReservedNode
    <3> QED
      BY <1>3, <1>5, <3>1, <3>2
  <2>2. CASE "client" \notin D
    <3>1. R = {1} /\ FromFront = 1 /\ FromTail = 0
      BY <1>5, <2>2 DEF ReservedNode, FromFront, FromTail
    <3> QED
      BY <1>3, <1>5, <2>2, <3>1
  <2> QED
    BY <2>1, <2>2
<1>6. CASE D # {} /\ ~recipe.colocate_dedicated
  <2> DEFINE F == D \ {"client"}
  <2>1. FromFront = Cardinality(F)
    BY <1>6 DEF FromFront
  <2>2. /\ F \in {{}, {"infra"}, {"frontend"}, {"infra", "frontend"}}
        /\ \A role \in F : ReservedNode(role) = FrontRank(role)
        /\ "client" \in D => ReservedNode("client") = nodelist
    BY <1>1, <1>6 DEF ReservedNode
  <2>3. /\ {FrontRank(role) : role \in F} = 1..FromFront
        /\ \A r1, r2 \in F : r1 # r2 => FrontRank(r1) # FrontRank(r2)
        /\ \A r1 \in F : FrontRank(r1) <= FromFront
    <3>1. CASE F = {}
      BY <1>3, <2>1, <3>1, FS_EmptySet
    <3>2. CASE F = {"infra"}
      <4>1. "infra" \in D /\ FromFront = 1
        BY <2>1, <3>2, FS_Singleton
      <4> QED
        BY <1>3, <3>2, <4>1 DEF FrontRank
    <3>3. CASE F = {"frontend"}
      <4>1. "infra" \notin D /\ FromFront = 1
        <5>1. "infra" \notin F /\ "infra" # "client"
          BY <3>3
        <5>2. Cardinality({"frontend"}) = 1
          BY FS_Singleton
        <5> QED
          BY <2>1, <3>3, <5>1, <5>2
      <4> QED
        BY <1>3, <3>3, <4>1 DEF FrontRank
    <3>4. CASE F = {"infra", "frontend"}
      <4>1. "infra" \in D /\ FromFront = 2
        <5>1. IsFiniteSet({"infra"}) /\ Cardinality({"infra"}) = 1
          BY FS_Singleton
        <5>2. Cardinality({"infra"} \union {"frontend"}) = 2
          BY <5>1, FS_AddElement, "frontend" \notin {"infra"}
        <5> QED
          BY <2>1, <3>4, <5>2, {"infra"} \union {"frontend"} = {"infra", "frontend"}
      <4> QED
        BY <1>3, <3>4, <4>1 DEF FrontRank
    <3> QED
      BY <2>2, <3>1, <3>2, <3>3, <3>4
  <2>4. {ReservedNode(role) : role \in F} = 1..FromFront
    BY <2>2, <2>3
  <2>5. CASE "client" \in D
    <3>1. FromTail = 1 /\ nodelist > FromFront + 1 /\ D = F \union {"client"}
      BY <1>2, <2>5 DEF FromTail
    <3>2. R = (1..FromFront) \union {nodelist}
      <4>1. R = {ReservedNode(role) : role \in F} \union {ReservedNode("client")}
        BY <3>1
      <4> QED
        BY <2>2, <2>4, <2>5, <4>1
    <3>3. \A r1, r2 \in D : r1 # r2 => ReservedNode(r1) # ReservedNode(r2)
      <4> TAKE r1, r2 \in D
      <4> HAVE r1 # r2
      <4>1. \A r \in F : ReservedNode(r) <= FromFront /\ ReservedNode(r) \in 1..FromFront
        BY <2>2, <2>3, <2>4
      <4>2. CASE r1 \in F /\ r2 \in F
        BY <2>2, <2>3, <4>2
      <4>3. CASE r1 = "client" \/ r2 = "client"
        BY <1>2, <2>2, <2>5, <3>1, <4>1, <4>3
      <4> QED
        BY <3>1, <4>2, <4>3
    <3> QED
      BY <1>2, <1>3, <2>2, <3>1, <3>2, <3>3
  <2>6. CASE "client" \notin D
    <3>1. FromTail = 0 /\ D = F
      BY <2>6 DEF FromTail
    <3> QED
      BY <1>3, <2>2, <2>3, <2>4, <2>6, <3>1
  <2> QED
    BY <2>5, <2>6
<1> QED
  BY <1>4, <1>5, <1>6

\* The division of the node list gives workers the nodes submission counted for them.
LEMMA NodesDivided ==
  ASSUME TypeOK, Carved
  PROVE  WorkersGetTheirNodes
<1> SUFFICES ASSUME phase \in {"allocate", "convert", "done"}
             PROVE  LET workers == UNION {pool[m].first..pool[m].last : m \in Modes}
                    IN  /\ Cardinality(workers)
                             = IF recipe.het THEN resource_nodes(recipe) ELSE total_nodes(recipe)
                        /\ workers \union {reserved[role] : role \in recipe.dedicated} = 1..nodelist
                        /\ \A role \in recipe.dedicated : reserved[role] \notin workers
                        /\ ~recipe.colocate_dedicated =>
                             \A r1, r2 \in recipe.dedicated : r1 # r2 => reserved[r1] # reserved[r2]
                        /\ "client" \in recipe.dedicated => reserved["client"] # 1
  BY DEF WorkersGetTheirNodes
<1> DEFINE W == (FromFront + 1)..(nodelist - FromTail)
<1>1. UNION {pool[m].first..pool[m].last : m \in Modes} = W
  BY PoolsTogether
<1>2. /\ recipe \in Recipe /\ nodelist \in Nat /\ FromFront \in Nat /\ FromTail \in Nat
      /\ FromFront + FromTail = NumReserved(recipe) /\ NumReserved(recipe) \in Nat
      /\ nodelist = NumReserved(recipe) + NodesAsked /\ NodesAsked \in Nat /\ NodesAsked > 0
      /\ \A role \in recipe.dedicated : reserved[role] = ReservedNode(role)
  BY FrontAndTail, ReservedSum, NodeCounts DEF TypeOK, Carved, NodesAsked
<1>3. Cardinality(W) = NodesAsked
  <2>1. FromFront + 1 <= nodelist - FromTail
    BY <1>2
  <2>2. Cardinality(W) = (nodelist - FromTail) - (FromFront + 1) + 1
    <3>1. FromFront + 1 \in Int /\ nodelist - FromTail \in Int
      BY <1>2
    <3> QED
      BY <2>1, <3>1, IntervalSize
  <2> QED
    BY <1>2, <2>2
<1> DEFINE R == {ReservedNode(role) : role \in recipe.dedicated}
<1>4. /\ R = (1..FromFront) \union ((nodelist - FromTail + 1)..nodelist)
      /\ ~recipe.colocate_dedicated =>
           \A r1, r2 \in recipe.dedicated : r1 # r2 => ReservedNode(r1) # ReservedNode(r2)
      /\ "client" \in recipe.dedicated => ReservedNode("client") = nodelist /\ nodelist # 1
  BY <1>2, ReservedNodes
<1>5. {reserved[role] : role \in recipe.dedicated} = R
  BY <1>2
<1>6. W \union R = 1..nodelist /\ W \cap R = {}
  BY <1>2, <1>4
<1> HIDE DEF W, R
<1>7. \A role \in recipe.dedicated : reserved[role] \in R
  BY <1>5
<1> QED
  BY <1>1, <1>2, <1>3, <1>4, <1>5, <1>6, <1>7 DEF NodesAsked

\* The division is made once.
LEMMA CarvedStep ==
  ASSUME TypeOK, Granted, Carved, [Next]_vars
  PROVE  Carved'
<1>1. CASE Carve
  <2>1. /\ recipe \in Recipe /\ Accepted(recipe) /\ nodelist \in Nat
        /\ nodelist = NumReserved(recipe) + NodesAsked /\ nodelist > NumReserved(recipe)
        /\ NodesAsked \in Nat /\ NumReserved(recipe) \in Nat
        /\ UNCHANGED <<recipe, nodelist>>
    BY <1>1, NodeCounts DEF TypeOK, Granted, Carve, NodesAsked
  <2>2. reserved' = [role \in recipe.dedicated |-> ReservedNode(role)]
    BY <1>1 DEF Carve
  <2>3. ASSUME ~recipe.het
        PROVE  \A m \in Modes : pool'[m].first = FromFront + 1 /\ pool'[m].last = nodelist - FromTail
    BY <1>1, <2>3 DEF Carve
  <2>4. ASSUME recipe.het
        PROVE  /\ pool'["prefill"].first = FromFront + 1
               /\ pool'["prefill"].last = FromFront + recipe.nodes["prefill"]
               /\ pool'["decode"].first = FromFront + recipe.nodes["prefill"] + 1
               /\ pool'["decode"].last = nodelist
               /\ pool'["agg"] = NoPool
    <3>1. HetNodes(recipe, "prefill") = FromFront + recipe.nodes["prefill"] /\ FromTail = 0
      BY <2>1, <2>4, HetSplit, HetDivision
    <3>2. nodelist - FromTail = nodelist
      BY <2>1, <3>1
    <3> QED
      BY <1>1, <2>4, <3>1, <3>2 DEF Carve, Modes
  <2>5. /\ FromFront' = FromFront /\ FromTail' = FromTail /\ NodesAsked' = NodesAsked
        /\ \A role : ReservedNode(role)' = ReservedNode(role)
    BY <2>1 DEF FromFront, FromTail, NodesAsked, ReservedNode, FrontRank
  <2> QED
    BY <2>1, <2>2, <2>3, <2>4, <2>5 DEF Carved
<1>2. CASE ~Carve
  <2>1. phase' \in {"allocate", "convert", "done"} =>
          /\ phase \in {"allocate", "convert", "done"}
          /\ UNCHANGED <<recipe, nodelist, reserved, pool>>
    BY <1>2 DEF Next, vars, Submit, SubmitRejected, CarveRejected, PlaceFullNode,
                PlacePartialNode, OutOfNodes, StartDecode, StartAgg, AllPlaced, Convert,
                ConvertRejected, AllConverted, MoreWorkers
  <2>2. UNCHANGED <<recipe, nodelist, reserved, pool>> =>
          /\ FromFront' = FromFront /\ FromTail' = FromTail /\ NodesAsked' = NodesAsked
          /\ \A role : ReservedNode(role)' = ReservedNode(role)
    BY DEF FromFront, FromTail, NodesAsked, ReservedNode, FrontRank
  <2> QED
    BY <2>1, <2>2 DEF Carved
<1> QED
  BY <1>1, <1>2

-----------------------------------------------------------------------------
(* How the workers of a mode are packed                                    *)

\* Where the packing of mode m stands that began with an open node `start`: so many
\* workers placed, the next one on this node at this offset.
Packed(r, m, start, placed, node, offset) ==
    LET gpus == GpusPer(r, m)
        per_node == r.gpus_per_node \div gpus
    IN  IF gpus >= r.gpus_per_node
          THEN offset = 0 /\ node = start + placed * CeilDiv(gpus, r.gpus_per_node)
        ELSE IF r.spread /\ ~r.het THEN offset = 0 /\ node = start + placed
        ELSE \E k \in 0..per_node : /\ offset = k * gpus /\ node >= start
                                    /\ placed = (node - start) * per_node + k

LEMMA PerNodeNat ==
  ASSUME NEW g \in Nat \ {0}, NEW G \in Nat, g <= G
  PROVE  /\ G \div g \in Nat \ {0}
         /\ \A k \in Nat : k <= G \div g <=> k * g <= G
<1> DEFINE q == G \div g
<1>1. q \in Nat /\ q >= 1
  BY DivNat, DivPositive
<1>2. q * g <= G /\ G < (q + 1) * g
  BY SMT
<1>3. ASSUME NEW k \in Nat PROVE k <= q <=> k * g <= G
  <2>1. CASE k <= q
    <3>1. k * g <= q * g /\ k * g \in Nat /\ q * g \in Nat
      BY <1>1, <2>1, TimesNat, SMT
    <3> QED
      BY <1>2, <2>1, <3>1
  <2>2. CASE k >= q + 1
    <3>1. (q + 1) * g <= k * g /\ k * g \in Nat /\ (q + 1) * g \in Nat
      BY <1>1, <2>2, TimesNat, SMT
    <3> QED
      BY <1>1, <1>2, <2>2, <3>1
  <2> QED
    BY <1>1, <2>1, <2>2
<1> QED
  BY <1>1, <1>3

LEMMA PackedFresh ==
  ASSUME NEW r \in Recipe, NEW m \in Modes, NEW start \in Nat, GpusPer(r, m) > 0
  PROVE  Packed(r, m, start, 0, start, 0)
<1>1. GpusPer(r, m) \in Nat \ {0} /\ r.gpus_per_node \in Nat \ {0}
  BY GpusPerNat DEF Recipe
<1>2. CASE GpusPer(r, m) >= r.gpus_per_node
  <2>1. CeilDiv(GpusPer(r, m), r.gpus_per_node) \in Nat
    BY <1>1, CeilDivNat
  <2> QED
    BY <1>2, <2>1 DEF Packed
<1>3. CASE GpusPer(r, m) < r.gpus_per_node
  <2> DEFINE q == r.gpus_per_node \div GpusPer(r, m)
  <2>1. q \in Nat
    BY <1>1, <1>3, PerNodeNat
  <2>2. 0 \in 0..q /\ 0 = 0 * GpusPer(r, m) /\ 0 = (start - start) * q + 0
    BY <1>1, <2>1
  <2> QED
    BY <1>1, <1>3, <2>2 DEF Packed
<1> QED
  BY <1>1, <1>2, <1>3

LEMMA PackedFull ==
  ASSUME NEW r \in Recipe, NEW m \in Modes, NEW start \in Nat, NEW placed \in Nat, NEW node \in Nat,
         NEW offset \in Nat, GpusPer(r, m) >= r.gpus_per_node,
         Packed(r, m, start, placed, node, offset)
  PROVE  LET n == CeilDiv(GpusPer(r, m), r.gpus_per_node)
         IN  /\ offset = 0
             /\ Packed(r, m, start, placed + 1, node + n, 0)
             /\ \A w \in Nat : placed < w => node + n <= start + w * n
             /\ placed * n \in Nat /\ node = start + placed * n
<1> DEFINE n == CeilDiv(GpusPer(r, m), r.gpus_per_node)
<1>1. n \in Nat /\ offset = 0 /\ node = start + placed * n
  BY GpusPerNat, CeilDivNat, r.gpus_per_node \in Nat \ {0} DEF Packed, Recipe
<1>2. placed * n \in Nat /\ (placed + 1) * n = placed * n + n
  BY <1>1, TimesNat, SMT
<1>3. ASSUME NEW w \in Nat, placed < w PROVE node + n <= start + w * n
  <2>1. (placed + 1) * n <= w * n /\ w * n \in Nat
    BY <1>1, <1>3, TimesNat, SMT
  <2> QED
    BY <1>1, <1>2, <2>1
<1>4. Packed(r, m, start, placed + 1, node + n, 0)
  BY <1>1, <1>2 DEF Packed
<1> QED
  BY <1>1, <1>2, <1>3, <1>4

\* One more worker that takes part of a node: behind the previous one, or on the next.
LEMMA PackedPartial ==
  ASSUME NEW r \in Recipe, NEW m \in Modes, NEW start \in Nat, NEW placed \in Nat, NEW node \in Nat,
         NEW offset \in Nat, GpusPer(r, m) > 0, GpusPer(r, m) < r.gpus_per_node,
         Packed(r, m, start, placed, node, offset)
  PROVE  LET gpus == GpusPer(r, m)
             wraps == offset + gpus > r.gpus_per_node
             at == IF wraps THEN node + 1 ELSE node
             from == IF wraps THEN 0 ELSE offset
             filled == from + gpus >= r.gpus_per_node \/ (r.spread /\ ~r.het)
         IN  /\ Packed(r, m, start, placed + 1, IF filled THEN at + 1 ELSE at,
                       IF filled THEN 0 ELSE from + gpus)
             /\ placed < r.workers[m] => at < start + NodesTaken(r, m)
<1> DEFINE g == GpusPer(r, m)
           G == r.gpus_per_node
           q == G \div g
           wraps == offset + g > G
           at == IF wraps THEN node + 1 ELSE node
           from == IF wraps THEN 0 ELSE offset
           filled == from + g >= G \/ (r.spread /\ ~r.het)
<1>1. /\ g \in Nat \ {0} /\ G \in Nat \ {0} /\ g < G /\ q \in Nat \ {0}
      /\ r.workers[m] \in Nat
  BY GpusPerNat, PerNodeNat DEF Recipe
<1>2. CASE r.spread /\ ~r.het
  <2>1. offset = 0 /\ node = start + placed /\ ~wraps
    BY <1>1, <1>2 DEF Packed
  <2>2. r.workers[m] # 0 => NodesTaken(r, m) = r.workers[m]
    BY <1>1, <1>2 DEF NodesTaken
  <2> QED
    BY <1>1, <1>2, <2>1, <2>2 DEF Packed
<1>3. CASE ~(r.spread /\ ~r.het)
  <2>1. \A p, n, o : Packed(r, m, start, p, n, o) <=>
          \E k \in 0..q : o = k * g /\ n >= start /\ p = (n - start) * q + k
    BY <1>1, <1>3 DEF Packed
  <2>2. r.workers[m] # 0 => NodesTaken(r, m) = CeilDiv(r.workers[m], q)
    BY <1>1, <1>3 DEF NodesTaken
  <2>3. \A j \in Nat : j <= q <=> j * g <= G
    <3>1. g \in Nat \ {0} /\ G \in Nat /\ g <= G
      BY <1>1
    <3> QED
      BY ONLY <3>1, PerNodeNat
  <2>4. \A c, j \in Nat : CeilDiv(c, q) \in Nat /\ (c > j * q => CeilDiv(c, q) >= j + 1)
    BY <1>1, CeilAtLeast, CeilDivNat
  <2>5. PICK k \in 0..q : offset = k * g /\ node >= start /\ placed = (node - start) * q + k
    BY <2>1
  <2>6. PICK d \in Nat : node = start + d
    BY <2>5, node - start \in Nat, node = start + (node - start)
  <2> HIDE DEF g, G, q
  <2>7. /\ placed = d * q + k /\ k \in Nat /\ k <= q
        /\ d * q \in Nat /\ k * g \in Nat /\ (k + 1) * g \in Nat
        /\ (d + 1) * q = d * q + q /\ (k + 1) * g = k * g + g /\ (k + 2) * g = (k + 1) * g + g
    <3>1. node - start = d /\ k \in Nat /\ k <= q
      BY <1>1, <2>5, <2>6
    <3>2. d * q \in Nat /\ k * g \in Nat /\ (k + 1) * g \in Nat
      BY <1>1, <3>1, TimesNat
    <3>3. (d + 1) * q = d * q + q
      BY <1>1, SMT
    <3>4. (k + 1) * g = k * g + g /\ (k + 2) * g = (k + 1) * g + g
      BY <1>1, <3>1, SMT
    <3> QED
      BY <2>5, <3>1, <3>2, <3>3, <3>4
  <2>8. wraps <=> k = q
    <3>1. k + 1 <= q <=> (k + 1) * g <= G
      BY <2>3, <2>7
    <3> QED
      BY <1>1, <2>5, <2>7, <3>1
  <2>9. ASSUME wraps
        PROVE  /\ Packed(r, m, start, placed + 1, IF filled THEN at + 1 ELSE at,
                         IF filled THEN 0 ELSE from + g)
               /\ placed < r.workers[m] => at < start + NodesTaken(r, m)
    <3>1. placed = (d + 1) * q /\ at = start + (d + 1) /\ from = 0 /\ ~filled
      BY <1>1, <1>3, <2>6, <2>7, <2>8, <2>9
    <3>2. Packed(r, m, start, placed + 1, at, from + g)
      <4>1. 1 \in 0..q /\ from + g = 1 * g /\ at >= start
        BY <1>1, <3>1
      <4>2. at - start = d + 1
        BY <3>1
      <4>3. placed + 1 = (at - start) * q + 1
        BY <3>1, <4>2
      <4> QED
        BY <2>1, <4>1, <4>3
    <3>3. placed < r.workers[m] => at < start + NodesTaken(r, m)
      <4> SUFFICES ASSUME placed < r.workers[m] PROVE at < start + NodesTaken(r, m)
        OBVIOUS
      <4>. r.workers[m] > (d + 1) * q /\ d + 1 \in Nat
        BY <1>1, <3>1
      <4>1. CeilDiv(r.workers[m], q) >= (d + 1) + 1 /\ CeilDiv(r.workers[m], q) \in Nat
        BY <1>1, <2>4
      <4>2. NodesTaken(r, m) = CeilDiv(r.workers[m], q)
        BY <1>1, <2>2
      <4> QED
        BY <3>1, <4>1, <4>2
    <3> QED
      BY <3>1, <3>2, <3>3
  <2>10. ASSUME ~wraps
        PROVE  /\ Packed(r, m, start, placed + 1, IF filled THEN at + 1 ELSE at,
                         IF filled THEN 0 ELSE from + g)
               /\ placed < r.workers[m] => at < start + NodesTaken(r, m)
    <3>1. at = start + d /\ from = k * g /\ k + 1 <= q
      BY <1>1, <2>5, <2>6, <2>7, <2>8, <2>10
    <3>2. at - start = d /\ at + 1 - start = d + 1 /\ at >= start /\ at + 1 >= start
          /\ at \in Nat
      BY <3>1
    <3>3. Packed(r, m, start, placed + 1, IF filled THEN at + 1 ELSE at,
                 IF filled THEN 0 ELSE from + g)
      <4>1. CASE filled
        <5>1. (k + 1) * g >= G
          BY <1>1, <1>3, <2>7, <3>1, <4>1
        <5>2. k + 1 = q
          <6>1. k + 2 <= q <=> (k + 2) * g <= G
            BY <2>3, <2>7
          <6> QED
            BY <1>1, <2>7, <3>1, <5>1, <6>1
        <5>3. placed + 1 = (d + 1) * q + 0
          BY <1>1, <2>7, <5>2
        <5>4. 0 \in 0..q /\ 0 = 0 * g
          BY <1>1
        <5> HIDE DEF at
        <5>5. Packed(r, m, start, placed + 1, at + 1, 0)
          BY <2>1, <3>2, <5>3, <5>4
        <5> QED
          BY <4>1, <5>5
      <4>2. CASE ~filled
        <5>1. k + 1 \in 0..q /\ from + g = (k + 1) * g /\ placed + 1 = d * q + (k + 1)
          BY <1>1, <2>7, <3>1
        <5> HIDE DEF at, from, filled
        <5>2. Packed(r, m, start, placed + 1, at, from + g)
          BY <2>1, <3>2, <5>1
        <5> QED
          BY <4>2, <5>2
      <4> QED
        BY <4>1, <4>2
    <3>4. placed < r.workers[m] => at < start + NodesTaken(r, m)
      <4> SUFFICES ASSUME placed < r.workers[m] PROVE at < start + NodesTaken(r, m)
        OBVIOUS
      <4>1. r.workers[m] > d * q /\ r.workers[m] # 0
        BY <1>1, <2>7
      <4>2. CeilDiv(r.workers[m], q) >= d + 1 /\ CeilDiv(r.workers[m], q) \in Nat
        BY <1>1, <2>4, <4>1
      <4>3. NodesTaken(r, m) = CeilDiv(r.workers[m], q)
        BY <2>2, <4>1
      <4> QED
        BY <3>1, <4>2, <4>3
    <3> QED
      BY <3>3, <3>4
  <2> QED
    BY <2>9, <2>10 DEF g, G
<1> QED
  BY <1>2, <1>3

\* A worker takes some node.
LEMMA TakesNodes ==
  ASSUME NEW r \in Recipe, NEW m \in Modes, GpusPer(r, m) > 0, r.workers[m] > 0
  PROVE  NodesTaken(r, m) \in Nat \ {0}
<1> DEFINE g == GpusPer(r, m)
           G == r.gpus_per_node
           w == r.workers[m]
<1>1. g \in Nat \ {0} /\ G \in Nat \ {0} /\ w \in Nat \ {0}
  BY GpusPerNat DEF Recipe
<1>2. CASE g >= G
  <2>1. CeilDiv(g, G) \in Nat \ {0}
    BY <1>1, <1>2, CeilDivNat
  <2>2. w * CeilDiv(g, G) \in Nat \ {0}
    BY <1>1, <2>1, TimesNat, SMT
  <2> QED
    BY <1>1, <1>2, <2>2 DEF NodesTaken
<1>3. CASE g < G /\ (r.spread /\ ~r.het)
  BY <1>1, <1>3 DEF NodesTaken
<1>4. CASE g < G /\ ~(r.spread /\ ~r.het)
  <2>1. G \div g \in Nat \ {0}
    BY <1>1, <1>4, PerNodeNat
  <2>2. CeilDiv(w, G \div g) \in Nat /\ CeilDiv(w, G \div g) >= 0 + 1
    BY <1>1, <2>1, CeilDivNat, CeilAtLeast, 0 * (G \div g) = 0
  <2> QED
    BY <1>1, <1>4, <2>2 DEF NodesTaken
<1> QED
  BY <1>1, <1>2, <1>3, <1>4

\* The mode is packed: its workers lie on the nodes that NodesTaken counts.
LEMMA PackedUsed ==
  ASSUME NEW r \in Recipe, NEW m \in Modes, NEW start \in Nat, NEW node \in Nat,
         NEW offset \in Nat, GpusPer(r, m) > 0,
         Packed(r, m, start, r.workers[m], node, offset)
  PROVE  /\ NodesTaken(r, m) \in Nat
         /\ node + (IF offset > 0 THEN 1 ELSE 0) <= start + NodesTaken(r, m)
<1> DEFINE g == GpusPer(r, m)
           G == r.gpus_per_node
           q == G \div g
           w == r.workers[m]
<1>1. g \in Nat \ {0} /\ G \in Nat \ {0} /\ w \in Nat
  BY GpusPerNat DEF Recipe
<1>2. CASE g >= G
  <2> DEFINE n == CeilDiv(g, G)
  <2>1. offset = 0 /\ node = start + w * n /\ w * n \in Nat
    BY <1>1, <1>2, PackedFull
  <2>2. n \in Nat /\ 0 * n = 0
    BY <1>1, CeilDivNat
  <2>3. NodesTaken(r, m) = w * n
    BY <1>1, <1>2, <2>2 DEF NodesTaken
  <2> QED
    BY <2>1, <2>3
<1>3. CASE g < G /\ (r.spread /\ ~r.het)
  <2>1. offset = 0 /\ node = start + w
    BY <1>1, <1>3 DEF Packed
  <2>2. NodesTaken(r, m) = w
    BY <1>1, <1>3 DEF NodesTaken
  <2> QED
    BY <1>1, <2>1, <2>2
<1>4. CASE g < G /\ ~(r.spread /\ ~r.het)
  <2>1. PICK k \in 0..q : offset = k * g /\ node >= start /\ w = (node - start) * q + k
    BY <1>1, <1>4 DEF Packed
  <2>2. q \in Nat \ {0}
    <3>1. g \in Nat \ {0} /\ G \in Nat /\ g <= G
      BY <1>1, <1>4
    <3> HIDE DEF g, G
    <3> QED
      BY <3>1, PerNodeNat
  <2> DEFINE d == node - start
  <2>3. d \in Nat /\ d * q \in Nat /\ w = d * q + k /\ k \in Nat /\ node = start + d
    BY <2>1, <2>2, TimesNat
  <2>4. offset > 0 => k > 0
    BY <1>1, <2>1, <2>3
  <2>5. CASE w = 0
    <3>1. NodesTaken(r, m) = 0
      BY <2>5 DEF NodesTaken
    <3>2. k = 0 /\ d * q = 0
      BY <2>3, <2>5
    <3>3. d = 0
      BY <2>2, <2>3, <3>2, SMT
    <3> QED
      BY <2>3, <2>4, <3>1, <3>2, <3>3
  <2>6. CASE w # 0
    <3>1. NodesTaken(r, m) = CeilDiv(w, q)
      BY <1>1, <1>4, <2>6 DEF NodesTaken
    <3>. CeilDiv(w, q) \in Nat
      BY <1>1, <2>2, CeilDivNat
    <3>2. CeilDiv(w, q) >= d /\ (k > 0 => CeilDiv(w, q) >= d + 1)
      BY <1>1, <2>2, <2>3, CeilAtLeast
    <3> QED
      BY <2>3, <2>4, <3>1, <3>2
  <2> QED
    BY <2>5, <2>6
<1> QED
  BY <1>1, <1>2, <1>3, <1>4

-----------------------------------------------------------------------------
(* The invariant of placement                                              *)

\* Before the job starts nothing is placed.
Unplaced ==
    phase \in {"submit", "carve"} =>
        endpoints = <<>> /\ mode = "prefill" /\ index = 0 /\ node_idx = 0 /\ gpu_offset = 0

\* What a placed endpoint says of its mode; a side of a het job stays on its own nodes.
Kind(e) ==
    /\ e.mode = mode \/ Before(e.mode, mode)
    /\ recipe.workers[e.mode] > 0
    /\ GpusPer(recipe, e.mode) < recipe.gpus_per_node => e.size = GpusPer(recipe, e.mode)
    /\ recipe.het => e.mode # "agg" /\ LastNode(e) <= pool[e.mode].last

Kinds == \A i \in DOMAIN endpoints : Kind(endpoints[i])

\* It lies before the node where packing goes on, or on that node before the offset.
Behind(e, node, offset) ==
    \/ LastNode(e) < node
    \/ /\ LastNode(e) = node
       /\ GpusPer(recipe, e.mode) < recipe.gpus_per_node
       /\ e.from + e.size <= offset

Frontier == phase = "allocate" /\ ~(recipe.het /\ mode = "agg") =>
                \A i \in DOMAIN endpoints :
                    Behind(endpoints[i], pool[mode].first + node_idx, gpu_offset)

\* A side with nodes of its own is packed from its first node, decode at the latest from
\* the node after the prefill nodes.
OnOwnNodes ==
    SidesFit(recipe) /\ phase = "allocate" /\ mode # "agg"
        /\ (mode = "prefill" \/ recipe.workers[mode] > 0) =>
        \E start \in Nat :
            /\ start + Or(recipe.nodes[mode], 0) <= NodesAvailable
            /\ mode = "prefill" => start = 0
            /\ Packed(recipe, mode, start, index, node_idx, gpu_offset)

Exclusive == ~Mixed(recipe) \/ SidesFit(recipe) => ExclusiveGpus

PlacedInv == Carved /\ Unplaced /\ Kinds /\ Frontier /\ OnOwnNodes /\ Exclusive

LEMMA PlacedInitial == Init => PlacedInv
  BY DEF Init, PlacedInv, Carved, Unplaced, Kinds, Frontier, OnOwnNodes, Exclusive, ExclusiveGpus

\* The nodes of one mode in the list, where each side has nodes of its own.
LEMMA OwnNodes ==
  ASSUME TypeOK, Carved, phase = "allocate", SidesFit(recipe), NEW m \in {"prefill", "decode"}
  PROVE  /\ Or(recipe.nodes[m], 0) \in Nat
         /\ recipe.het => pool[m].last - pool[m].first + 1 = Or(recipe.nodes[m], 0)
         /\ ~recipe.het /\ (m = "prefill" \/ recipe.workers["decode"] > 0) =>
              pool[m].last - pool[m].first + 1
                >= Or(recipe.nodes["prefill"], 0) + (IF m = "decode" THEN Or(recipe.nodes["decode"], 0) ELSE 0)
<1>1. /\ recipe \in Recipe /\ nodelist \in Nat /\ m \in Modes
      /\ \A x \in Modes : recipe.nodes[x] \in Nat \union {None} /\ recipe.workers[x] \in Nat
  BY DEF TypeOK, Recipe, Modes
<1>2. \A x \in Modes : Or(recipe.nodes[x], 0) \in Nat
  BY <1>1 DEF Or
<1>3. ASSUME recipe.het
      PROVE  pool[m].last - pool[m].first + 1 = Or(recipe.nodes[m], 0)
  <2>1. /\ recipe.nodes["prefill"] \in Nat /\ recipe.nodes["decode"] \in Nat
        /\ nodelist = FromFront + recipe.nodes["prefill"] + recipe.nodes["decode"]
        /\ FromFront \in Nat
    BY <1>1, <1>3, HetDivision, FrontAndTail DEF Carved, NodesAsked
  <2>2. Or(recipe.nodes["prefill"], 0) = recipe.nodes["prefill"]
        /\ Or(recipe.nodes["decode"], 0) = recipe.nodes["decode"]
    BY <2>1, NoneAssumption DEF Or
  <2>3. CASE m = "prefill"
    BY <1>3, <2>1, <2>2, <2>3 DEF Carved
  <2>4. CASE m = "decode"
    BY <1>3, <2>1, <2>2, <2>4 DEF Carved
  <2> QED
    BY <2>3, <2>4
<1>4. ASSUME ~recipe.het
      PROVE  pool[m].last - pool[m].first + 1 = resource_nodes(recipe) /\ resource_nodes(recipe) \in Nat
  <2>1. /\ pool[m].first = FromFront + 1 /\ pool[m].last = nodelist - FromTail
        /\ nodelist = NumReserved(recipe) + total_nodes(recipe)
    BY <1>1, <1>4 DEF Carved, NodesAsked
  <2>2. total_nodes(recipe) = resource_nodes(recipe)
    BY DEF total_nodes, SidesFit
  <2> QED
    BY <1>1, <2>1, <2>2, ReservedSum, FrontAndTail, NodeCounts
<1>5. ASSUME is_disaggregated(recipe)
      PROVE  resource_nodes(recipe) = Or(recipe.nodes["prefill"], 0) + Or(recipe.nodes["decode"], 0)
  BY <1>5 DEF resource_nodes
<1>6. ASSUME ~is_disaggregated(recipe)
      PROVE  /\ Or(recipe.nodes["prefill"], 0) = 0 /\ Or(recipe.nodes["decode"], 0) = 0
  BY <1>6 DEF is_disaggregated, Or
<1> QED
  BY <1>1, <1>2, <1>3, <1>4, <1>5, <1>6 DEF Modes

LEMMA OwnPrefillNodes ==
  TypeOK /\ Carved /\ phase = "allocate" /\ SidesFit(recipe) =>
     Or(recipe.nodes["prefill"], 0) <= pool["prefill"].last - pool["prefill"].first + 1
<1> SUFFICES ASSUME TypeOK, Carved, phase = "allocate", SidesFit(recipe)
             PROVE  Or(recipe.nodes["prefill"], 0) <= pool["prefill"].last - pool["prefill"].first + 1
  OBVIOUS
<1>1. pool["prefill"].last - pool["prefill"].first + 1 \in Int
  BY DEF TypeOK, Modes
<1> QED
  BY <1>1, OwnNodes

\* Placement is not refused to sides with nodes of their own.
LEMMA NotRefused ==
  ASSUME TypeOK, Carved, OnOwnNodes, SidesFit(recipe)
  PROVE  ~LacksNodes
<1> SUFFICES ASSUME LacksNodes PROVE FALSE
  OBVIOUS
<1>1. /\ phase = "allocate" /\ index < recipe.workers[mode] /\ mode \in Modes /\ index \in Nat
      /\ recipe \in Recipe /\ node_idx \in Nat /\ gpu_offset \in Nat
      /\ \A m \in Modes : recipe.workers[m] \in Nat
      /\ pool[mode].first \in Nat /\ pool[mode].last \in Nat
      /\ recipe.gpus_per_node \in Nat \ {0}
  BY DEF TypeOK, LacksNodes, MoreWorkers, Recipe
<1>2. mode \in {"prefill", "decode"} /\ recipe.workers[mode] > 0
  BY <1>1 DEF SidesFit, Modes
<1>3. PICK start \in Nat : /\ start + Or(recipe.nodes[mode], 0) <= NodesAvailable
                           /\ Packed(recipe, mode, start, index, node_idx, gpu_offset)
  BY <1>1, <1>2 DEF OnOwnNodes
<1>4. /\ GpusPer(recipe, mode) > 0 /\ GpusPer(recipe, mode) \in Nat
      /\ NodesTaken(recipe, mode) <= Or(recipe.nodes[mode], 0)
      /\ Or(recipe.nodes[mode], 0) \in Nat
  BY <1>1, <1>2, OwnNodes, GpusPerNat DEF SidesFit
<1>5. NodesAvailable \in Int
  BY <1>1 DEF NodesAvailable
<1>6. CASE FullNode
  <2> DEFINE n == CeilDiv(GpusPer(recipe, mode), recipe.gpus_per_node)
  <2>1. node_idx + n <= start + recipe.workers[mode] * n
    BY <1>1, <1>3, <1>4, <1>6, PackedFull DEF FullNode, GpusNow
  <2>2. NodesTaken(recipe, mode) = recipe.workers[mode] * n
    BY <1>1, <1>2, <1>6 DEF NodesTaken, FullNode, GpusNow
  <2>3. n \in Nat /\ recipe.workers[mode] * n \in Nat
    BY <1>1, <1>4, CeilDivNat, TimesNat
  <2>4. node_idx + n > NodesAvailable
    BY <1>6 DEF LacksNodes, NodesPerWorker, GpusNow
  <2> HIDE DEF n
  <2> QED
    BY <1>1, <1>3, <1>4, <1>5, <2>1, <2>2, <2>3, <2>4
<1>7. CASE ~FullNode
  <2>1. PartialNode < start + NodesTaken(recipe, mode)
    BY <1>1, <1>3, <1>4, <1>7, PackedPartial DEF FullNode, GpusNow, PartialNode, Wraps
  <2>2. PartialNode >= NodesAvailable /\ PartialNode \in Nat
    BY <1>1, <1>7 DEF LacksNodes, PartialNode
  <2>3. NodesTaken(recipe, mode) \in Nat
    <3>0. GpusPer(recipe, mode) \in Nat \ {0} /\ GpusPer(recipe, mode) <= recipe.gpus_per_node
      BY <1>1, <1>4, <1>7 DEF FullNode, GpusNow
    <3>1. recipe.gpus_per_node \div GpusPer(recipe, mode) \in Nat \ {0}
      <4>1. PICK g, G : g = GpusPer(recipe, mode) /\ G = recipe.gpus_per_node
        OBVIOUS
      <4>2. G \div g \in Nat \ {0}
        BY <1>1, <3>0, <4>1, PerNodeNat
      <4> QED
        BY <4>1, <4>2
    <3>2. CeilDiv(recipe.workers[mode], recipe.gpus_per_node \div GpusPer(recipe, mode)) \in Nat
      BY <1>1, <3>1, CeilDivNat
    <3> QED
      BY <1>1, <1>2, <1>7, <3>2 DEF NodesTaken, FullNode, GpusNow
  <2> QED
    BY <1>3, <1>4, <1>5, <2>1, <2>2, <2>3
<1> QED
  BY <1>6, <1>7

-----------------------------------------------------------------------------
(* Every step places what it places behind the rest                        *)

\* A new endpoint that shares no GPU with those behind the frontier.
LEMMA AppendKeeps ==
  ASSUME TypeOK, Kinds, Frontier, Exclusive, NEW e, endpoints' = Append(endpoints, e), Kind(e),
         phase = "allocate", UNCHANGED <<recipe, phase, pool, mode>>,
         Behind(e, pool[mode].first + node_idx', gpu_offset'),
         \A i \in DOMAIN endpoints :
            Behind(endpoints[i], pool[mode].first + node_idx', gpu_offset'),
         ~Mixed(recipe) \/ SidesFit(recipe) =>
            \A i \in DOMAIN endpoints :
               ShareNode(endpoints[i], e) =>
                  Apart(endpoints[i].from, endpoints[i].size, e.from, e.size)
  PROVE  Kinds' /\ Frontier' /\ Exclusive'
<1>1. /\ DOMAIN endpoints' = 1..(Len(endpoints) + 1) /\ Len(endpoints) \in Nat
      /\ DOMAIN endpoints = 1..Len(endpoints)
      /\ \A i \in DOMAIN endpoints : endpoints'[i] = endpoints[i]
      /\ endpoints'[Len(endpoints) + 1] = e
  BY DEF TypeOK
<1>2. \A i \in DOMAIN endpoints' : i \in DOMAIN endpoints \/ i = Len(endpoints) + 1
  BY <1>1
<1>3. Kinds'
  <2>1. \A x : Kind(x)' <=> Kind(x)
    BY DEF Kind, LastNode
  <2> QED
    BY <1>1, <1>2, <2>1 DEF Kinds
<1>4. Frontier'
  <2>1. \A x, n, o : Behind(x, n, o)' <=> Behind(x, n, o)
    BY DEF Behind, LastNode
  <2>2. \A i \in DOMAIN endpoints' :
           Behind(endpoints'[i], pool[mode].first + node_idx', gpu_offset')
    BY <1>1, <1>2
  <2> QED
    BY <2>2 DEF Frontier, Behind, LastNode
<1>5. Exclusive'
  <2> SUFFICES ASSUME ~Mixed(recipe) \/ SidesFit(recipe), NEW i \in DOMAIN endpoints',
                      NEW j \in DOMAIN endpoints', i < j,
                      ShareNode(endpoints'[i], endpoints'[j])
               PROVE  Apart(endpoints'[i].from, endpoints'[i].size,
                            endpoints'[j].from, endpoints'[j].size)
    BY DEF Exclusive, ExclusiveGpus
  <2>1. i \in DOMAIN endpoints
    BY <1>1, <1>2
  <2>2. CASE j \in DOMAIN endpoints
    BY <1>1, <2>1, <2>2 DEF Exclusive, ExclusiveGpus
  <2>3. CASE j = Len(endpoints) + 1
    BY <1>1, <2>1, <2>3
  <2> QED
    BY <1>2, <2>2, <2>3
<1> QED
  BY <1>3, <1>4, <1>5

\* Whole nodes are taken from a node that nobody is on, unless they follow partial
\* workers of an earlier mode.
LEMMA WholeNodesApart ==
  ASSUME TypeOK, Kinds, Frontier, OnOwnNodes, PlaceFullNode,
         ~Mixed(recipe) \/ SidesFit(recipe), NEW i \in DOMAIN endpoints,
         LastNode(endpoints[i]) >= pool[mode].first + node_idx
  PROVE  FALSE
<1> DEFINE d == endpoints[i]
           at == pool[mode].first + node_idx
<1>1. /\ recipe \in Recipe /\ mode \in Modes /\ node_idx \in Nat /\ index \in Nat
      /\ gpu_offset \in Nat /\ recipe.gpus_per_node \in Nat \ {0}
      /\ pool[mode].first \in Nat /\ pool[mode].last \in Nat /\ d \in EndpointRecord
      /\ GpusPer(recipe, mode) \in Nat /\ recipe.workers[mode] \in Nat
  BY RecipeNumbers, GpusPerNat DEF TypeOK
<1>2. /\ phase = "allocate" /\ index < recipe.workers[mode] /\ ~(recipe.het /\ mode = "agg")
      /\ GpusPer(recipe, mode) >= recipe.gpus_per_node
  BY DEF PlaceFullNode, MoreWorkers, FullNode, GpusNow
<1>3. Behind(d, at, gpu_offset) /\ Kind(d)
  BY <1>2 DEF Kinds, Frontier
<1>4. d.first \in Nat /\ d.count \in Nat /\ d.from \in Nat /\ d.size \in Nat /\ d.mode \in Modes
  BY <1>1 DEF EndpointRecord, Nodes
<1>5. /\ LastNode(d) = at
      /\ GpusPer(recipe, d.mode) < recipe.gpus_per_node /\ d.from + d.size <= gpu_offset
  <2>1. LastNode(d) \in Int /\ at \in Int
    BY <1>1, <1>4 DEF LastNode
  <2> HIDE DEF at
  <2> QED
    BY <1>3, <2>1 DEF Behind, at
<1>6. /\ d.mode # mode /\ Before(d.mode, mode) /\ recipe.workers[d.mode] > 0
      /\ d.size = GpusPer(recipe, d.mode)
  <2>1. d.mode # mode
    BY <1>1, <1>2, <1>5
  <2> QED
    BY <1>3, <1>5, <2>1 DEF Kind
<1>7. Mixed(recipe)
  <2>1. Partial(recipe, d.mode) /\ Whole(recipe, mode)
    BY <1>1, <1>2, <1>5, <1>6 DEF Partial, Whole
  <2> QED
    BY <1>1, <1>4, <1>6, <2>1 DEF Mixed
<1>8. SidesFit(recipe)
  BY <1>7
<1>9. d.mode \in {"prefill", "decode"} /\ d.size > 0
  <2>1. d.mode # "agg"
    BY <1>6, <1>8 DEF SidesFit
  <2> QED
    BY <1>4, <1>6, <1>8, <2>1 DEF SidesFit, Modes
<1>10. gpu_offset = 0
  <2>1. mode # "agg" /\ GpusPer(recipe, mode) > 0
    BY <1>1, <1>2, <1>8 DEF SidesFit, Modes
  <2>2. PICK start \in Nat : Packed(recipe, mode, start, index, node_idx, gpu_offset)
    BY <1>1, <1>2, <1>8, <2>1 DEF OnOwnNodes
  <2> QED
    BY <1>1, <1>2, <2>1, <2>2, PackedFull
<1> QED
  BY <1>4, <1>5, <1>9, <1>10

LEMMA PlaceFullKeeps ==
  ASSUME TypeOK, Carved, Kinds, Frontier, OnOwnNodes, Exclusive, PlaceFullNode
  PROVE  Kinds' /\ Frontier' /\ OnOwnNodes' /\ Exclusive'
<1>0. PICK e : e = [mode |-> mode, index |-> index, first |-> pool[mode].first + node_idx,
                    count |-> NodesPerWorker, from |-> 0, size |-> recipe.gpus_per_node]
  OBVIOUS
<1> DEFINE at == pool[mode].first + node_idx
<1>1. /\ recipe \in Recipe /\ mode \in Modes /\ node_idx \in Nat /\ index \in Nat
      /\ gpu_offset \in Nat /\ recipe.gpus_per_node \in Nat \ {0}
      /\ pool[mode].first \in Nat /\ pool[mode].last \in Nat
      /\ \A i \in DOMAIN endpoints : endpoints[i] \in EndpointRecord
  BY RecipeNumbers DEF TypeOK
<1>2. /\ phase = "allocate" /\ index < recipe.workers[mode] /\ ~(recipe.het /\ mode = "agg")
      /\ FullNode /\ node_idx + NodesPerWorker <= NodesAvailable
      /\ endpoints' = Append(endpoints, e)
      /\ node_idx' = node_idx + NodesPerWorker /\ index' = index + 1
      /\ UNCHANGED <<recipe, phase, nodelist, reserved, pool, mode, gpu_offset>>
  BY <1>0 DEF PlaceFullNode, MoreWorkers, Placed
<1>3. /\ GpusPer(recipe, mode) \in Nat /\ recipe.workers[mode] \in Nat
      /\ NodesPerWorker \in Nat \ {0}
  <2>1. GpusPer(recipe, mode) \in Nat
    BY <1>1, GpusPerNat
  <2>2. recipe.workers[mode] \in Nat
    BY <1>1 DEF Recipe
  <2>3. NodesPerWorker \in Nat \ {0}
    <3>1. GpusPer(recipe, mode) >= recipe.gpus_per_node
      BY <1>2 DEF FullNode, GpusNow
    <3>2. /\ CeilDiv(GpusPer(recipe, mode), recipe.gpus_per_node) \in Nat
          /\ CeilDiv(GpusPer(recipe, mode), recipe.gpus_per_node) >= 1
      BY <1>1, <2>1, <3>1, CeilDivNat
    <3> QED
      BY <3>2 DEF NodesPerWorker, GpusNow
  <2> QED
    BY <2>1, <2>2, <2>3
<1>4. LastNode(e) = at + NodesPerWorker - 1 /\ at \in Nat /\ e.mode = mode
      /\ e.first = at /\ e.size = recipe.gpus_per_node
  BY <1>0, <1>1, <1>3 DEF LastNode
<1>5. Kind(e)
  <2>1. GpusPer(recipe, mode) >= recipe.gpus_per_node /\ recipe.workers[mode] > 0
    BY <1>1, <1>2, <1>3 DEF FullNode, GpusNow
  <2>2. LastNode(e) <= pool[mode].last
    <3>1. LastNode(e) = pool[mode].first + node_idx + NodesPerWorker - 1
      BY <1>4
    <3>2. node_idx + NodesPerWorker <= pool[mode].last - pool[mode].first + 1
      BY <1>2 DEF NodesAvailable
    <3>3. /\ node_idx \in Nat /\ NodesPerWorker \in Nat
          /\ pool[mode].first \in Nat /\ pool[mode].last \in Nat
      BY <1>1, <1>3
    <3> QED
      BY ONLY <3>1, <3>2, <3>3
  <2>3. e.mode = mode /\ (recipe.het => mode # "agg") /\ recipe.gpus_per_node \in Nat
        /\ GpusPer(recipe, mode) \in Nat
    BY <1>1, <1>2, <1>3, <1>4
  <2> QED
    BY <2>1, <2>2, <2>3 DEF Kind
<1>6. \A i \in DOMAIN endpoints : Behind(endpoints[i], at, gpu_offset)
  BY <1>2 DEF Frontier
<1>7. at < pool[mode].first + node_idx'
  BY <1>1, <1>2, <1>3
<1>8. Behind(e, pool[mode].first + node_idx', gpu_offset')
  <2>1. /\ LastNode(e) = pool[mode].first + node_idx + NodesPerWorker - 1
        /\ node_idx' = node_idx + NodesPerWorker
        /\ pool[mode].first \in Nat /\ node_idx \in Nat /\ NodesPerWorker \in Nat
    BY <1>1, <1>2, <1>3, <1>4
  <2>2. LastNode(e) < pool[mode].first + node_idx'
    BY ONLY <2>1
  <2> QED
    BY <2>2 DEF Behind
<1>9. \A i \in DOMAIN endpoints :
         Behind(endpoints[i], pool[mode].first + node_idx', gpu_offset')
  <2> TAKE i \in DOMAIN endpoints
  <2>1. LastNode(endpoints[i]) <= at /\ LastNode(endpoints[i]) \in Int
    BY <1>1, <1>6 DEF Behind, LastNode, EndpointRecord, Nodes
  <2>2. LastNode(endpoints[i]) < pool[mode].first + node_idx'
    <3>1. at \in Int /\ pool[mode].first + node_idx' \in Int
      <4>1. /\ pool[mode].first \in Nat /\ node_idx \in Nat /\ NodesPerWorker \in Nat
            /\ node_idx' = node_idx + NodesPerWorker
        BY <1>1, <1>2, <1>3
      <4> QED
        BY ONLY <4>1
    <3> HIDE DEF at
    <3> QED
      BY <1>7, <2>1, <3>1
  <2> QED
    BY <2>2 DEF Behind
<1>10. ASSUME SidesFit(recipe)
       PROVE  /\ mode # "agg" /\ GpusPer(recipe, mode) > 0
              /\ \E start \in Nat :
                   /\ start + Or(recipe.nodes[mode], 0) <= NodesAvailable
                   /\ mode = "prefill" => start = 0
                   /\ Packed(recipe, mode, start, index, node_idx, gpu_offset)
  BY <1>1, <1>2, <1>3, <1>10 DEF OnOwnNodes, SidesFit, Modes
<1>11. ASSUME ~Mixed(recipe) \/ SidesFit(recipe), NEW i \in DOMAIN endpoints,
              ShareNode(endpoints[i], e)
       PROVE  FALSE
  <2>1. LastNode(endpoints[i]) >= at
    BY <1>4, <1>11 DEF ShareNode
  <2> QED
    BY <1>11, <2>1, WholeNodesApart
<1>12. OnOwnNodes'
  <2> SUFFICES ASSUME SidesFit(recipe)
               PROVE  \E start \in Nat :
                        /\ start + Or(recipe.nodes[mode], 0) <= NodesAvailable
                        /\ mode = "prefill" => start = 0
                        /\ Packed(recipe, mode, start, index', node_idx', gpu_offset')
    BY <1>2 DEF OnOwnNodes, NodesAvailable
  <2>1. PICK start \in Nat : /\ start + Or(recipe.nodes[mode], 0) <= NodesAvailable
                             /\ mode = "prefill" => start = 0
                             /\ Packed(recipe, mode, start, index, node_idx, gpu_offset)
    BY <1>10
  <2>2. /\ gpu_offset = 0
        /\ Packed(recipe, mode, start, index + 1, node_idx + NodesPerWorker, 0)
    BY <1>1, <1>2, <2>1, PackedFull DEF FullNode, GpusNow, NodesPerWorker
  <2> QED
    BY <1>2, <2>1, <2>2
<1>13. Kinds' /\ Frontier' /\ Exclusive'
  BY <1>2, <1>5, <1>8, <1>9, <1>11, AppendKeeps
<1> QED
  BY <1>12, <1>13

LEMMA PlacePartialKeeps ==
  ASSUME TypeOK, Carved, Kinds, Frontier, OnOwnNodes, Exclusive, PlacePartialNode
  PROVE  Kinds' /\ Frontier' /\ OnOwnNodes' /\ Exclusive'
<1>0. PICK e : e = [mode |-> mode, index |-> index, first |-> pool[mode].first + PartialNode,
                    count |-> 1, from |-> PartialOffset, size |-> GpusNow]
  OBVIOUS
<1> DEFINE at == pool[mode].first + node_idx
           filled == PartialOffset + GpusNow >= recipe.gpus_per_node \/ Spread
<1>1. /\ recipe \in Recipe /\ mode \in Modes /\ node_idx \in Nat /\ index \in Nat
      /\ gpu_offset \in Nat /\ recipe.gpus_per_node \in Nat \ {0}
      /\ pool[mode].first \in Nat /\ pool[mode].last \in Nat
      /\ \A i \in DOMAIN endpoints : endpoints[i] \in EndpointRecord
  BY RecipeNumbers DEF TypeOK
<1>2. /\ phase = "allocate" /\ index < recipe.workers[mode] /\ ~(recipe.het /\ mode = "agg")
      /\ ~FullNode /\ PartialNode < NodesAvailable
      /\ endpoints' = Append(endpoints, e)
      /\ node_idx' = (IF filled THEN PartialNode + 1 ELSE PartialNode)
      /\ gpu_offset' = (IF filled THEN 0 ELSE PartialOffset + GpusNow)
      /\ index' = index + 1
      /\ UNCHANGED <<recipe, phase, nodelist, reserved, pool, mode>>
  BY <1>0 DEF PlacePartialNode, MoreWorkers, Placed
<1>3. /\ GpusNow \in Nat /\ GpusNow = GpusPer(recipe, mode) /\ GpusNow < recipe.gpus_per_node
      /\ recipe.workers[mode] \in Nat
      /\ PartialNode \in Nat /\ PartialOffset \in Nat /\ PartialNode >= node_idx
      /\ \/ PartialNode = node_idx /\ PartialOffset = gpu_offset
         \/ PartialNode = node_idx + 1 /\ PartialOffset = 0
  <2>1. GpusNow \in Nat /\ GpusNow = GpusPer(recipe, mode)
    BY <1>1, GpusPerNat DEF GpusNow
  <2>2. GpusNow < recipe.gpus_per_node
    BY <1>1, <1>2, <2>1 DEF FullNode
  <2>3. recipe.workers[mode] \in Nat
    BY <1>1 DEF Recipe
  <2>4. \/ PartialNode = node_idx /\ PartialOffset = gpu_offset
        \/ PartialNode = node_idx + 1 /\ PartialOffset = 0
    BY DEF PartialNode, PartialOffset
  <2> QED
    BY <1>1, <2>1, <2>2, <2>3, <2>4
<1>4. LastNode(e) = pool[mode].first + PartialNode /\ at \in Nat /\ e.mode = mode
      /\ e.first = pool[mode].first + PartialNode /\ e.from = PartialOffset /\ e.size = GpusNow
  BY <1>0, <1>1, <1>3 DEF LastNode
<1>5. Kind(e)
  <2>1. LastNode(e) <= pool[mode].last
    <3>1. LastNode(e) = pool[mode].first + PartialNode
      BY <1>4
    <3>2. PartialNode < pool[mode].last - pool[mode].first + 1
      BY <1>2 DEF NodesAvailable
    <3>3. PartialNode \in Nat /\ pool[mode].first \in Nat /\ pool[mode].last \in Nat
      BY <1>1, <1>3
    <3> QED
      BY ONLY <3>1, <3>2, <3>3
  <2>2. /\ e.mode = mode /\ e.size = GpusPer(recipe, mode) /\ (recipe.het => mode # "agg")
        /\ recipe.workers[mode] > 0
    BY <1>1, <1>2, <1>3, <1>4
  <2> QED
    BY <2>1, <2>2 DEF Kind
<1>6. \A i \in DOMAIN endpoints : Behind(endpoints[i], at, gpu_offset)
  BY <1>2 DEF Frontier
<1>7. Behind(e, pool[mode].first + node_idx', gpu_offset')
  <2>1. CASE filled
    BY <1>1, <1>2, <1>3, <1>4, <2>1 DEF Behind
  <2>2. CASE ~filled
    BY <1>1, <1>2, <1>3, <1>4, <2>2 DEF Behind
  <2> QED
    BY <2>1, <2>2
<1> HIDE DEF filled
<1>8. \A i \in DOMAIN endpoints :
         Behind(endpoints[i], pool[mode].first + node_idx', gpu_offset')
  <2> TAKE i \in DOMAIN endpoints
  <2>0. PICK d : d = endpoints[i]
    OBVIOUS
  <2>1. /\ d.first \in Nat /\ d.count \in Nat /\ d.from \in Nat /\ d.size \in Nat
        /\ LastNode(d) \in Int /\ Behind(d, at, gpu_offset)
    BY <1>1, <1>6, <2>0 DEF LastNode, EndpointRecord, Nodes
  <2>2. CASE LastNode(d) < pool[mode].first + node_idx'
    BY <2>0, <2>2 DEF Behind
  <2>3. CASE ~(LastNode(d) < pool[mode].first + node_idx')
    <3>1. node_idx' >= node_idx /\ node_idx' \in Nat
      BY <1>1, <1>2, <1>3
    <3>2. LastNode(d) = at /\ node_idx' = node_idx
      BY <1>1, <1>4, <2>1, <2>3, <3>1 DEF Behind
    <3>3. ~filled /\ PartialNode = node_idx /\ PartialOffset = gpu_offset
      BY <1>1, <1>2, <1>3, <3>2
    <3>4. gpu_offset' >= gpu_offset /\ gpu_offset' \in Nat
      BY <1>1, <1>2, <1>3, <3>3
    <3>5. GpusPer(recipe, d.mode) < recipe.gpus_per_node /\ d.from + d.size <= gpu_offset
      BY <1>4, <2>1, <3>2 DEF Behind
    <3>6. d.from + d.size <= gpu_offset'
      BY <1>1, <2>1, <3>4, <3>5
    <3> QED
      BY <2>0, <3>2, <3>5, <3>6 DEF Behind
  <2> QED
    BY <2>2, <2>3
<1>9. ASSUME NEW i \in DOMAIN endpoints, ShareNode(endpoints[i], e)
      PROVE  Apart(endpoints[i].from, endpoints[i].size, e.from, e.size)
  <2> DEFINE d == endpoints[i]
  <2>1. /\ Behind(d, at, gpu_offset) /\ d \in EndpointRecord /\ e.first <= LastNode(d)
        /\ LastNode(d) \in Int
    BY <1>1, <1>6, <1>9 DEF ShareNode, LastNode, EndpointRecord, Nodes
  <2>2. PartialNode = node_idx /\ PartialOffset = gpu_offset /\ d.from + d.size <= gpu_offset
    BY <1>1, <1>3, <1>4, <2>1 DEF Behind
  <2> QED
    BY <1>4, <2>2 DEF Apart
<1>10. OnOwnNodes'
  <2> SUFFICES ASSUME SidesFit(recipe)
               PROVE  \E start \in Nat :
                        /\ start + Or(recipe.nodes[mode], 0) <= NodesAvailable
                        /\ mode = "prefill" => start = 0
                        /\ Packed(recipe, mode, start, index', node_idx', gpu_offset')
    BY <1>2 DEF OnOwnNodes, NodesAvailable
  <2>1. mode # "agg" /\ GpusPer(recipe, mode) > 0
    BY <1>1, <1>2, <1>3 DEF SidesFit, Modes
  <2>2. PICK start \in Nat : /\ start + Or(recipe.nodes[mode], 0) <= NodesAvailable
                             /\ mode = "prefill" => start = 0
                             /\ Packed(recipe, mode, start, index, node_idx, gpu_offset)
    BY <1>1, <1>2, <1>3, <2>1 DEF OnOwnNodes
  <2>3. Packed(recipe, mode, start, index + 1, IF filled THEN PartialNode + 1 ELSE PartialNode,
               IF filled THEN 0 ELSE PartialOffset + GpusNow)
    BY <1>1, <1>3, <2>1, <2>2, PackedPartial
       DEF filled, GpusNow, PartialNode, PartialOffset, Wraps, Spread
  <2> QED
    BY <1>2, <2>2, <2>3
<1>11. Kinds' /\ Frontier' /\ Exclusive'
  BY <1>2, <1>5, <1>7, <1>8, <1>9, AppendKeeps
<1> QED
  BY <1>10, <1>11

\* Placement goes on with the next mode: on a node of its own where one can be had.
LEMMA StartDecodeKeeps ==
  ASSUME TypeOK, Carved, Kinds, Frontier, OnOwnNodes, Exclusive, StartDecode
  PROVE  Kinds' /\ Frontier' /\ OnOwnNodes' /\ Exclusive'
<1>1. /\ phase = "allocate" /\ mode = "prefill" /\ mode' = "decode"
      /\ index = recipe.workers["prefill"] /\ index' = 0
      /\ UNCHANGED <<recipe, phase, nodelist, reserved, pool, endpoints>>
      /\ recipe.het => node_idx' = 0 /\ gpu_offset' = 0
      /\ ~recipe.het => \/ node_idx' = node_idx + 1 /\ gpu_offset' = 0
                        \/ UNCHANGED <<node_idx, gpu_offset>>
  BY DEF StartDecode
<1>2. /\ recipe \in Recipe /\ node_idx \in Nat /\ gpu_offset \in Nat /\ nodelist \in Nat
      /\ \A m \in Modes : pool[m].first \in Nat /\ pool[m].last \in Nat
      /\ \A i \in DOMAIN endpoints : endpoints[i] \in EndpointRecord
      /\ FromFront \in Nat /\ {"prefill", "decode"} \subseteq Modes
      /\ \A m \in Modes : recipe.workers[m] \in Nat
      /\ recipe.gpus_per_node \in Nat \ {0}
  <2>1. /\ recipe \in Recipe /\ node_idx \in Nat /\ gpu_offset \in Nat /\ nodelist \in Nat
        /\ \A m \in Modes : pool[m].first \in Nat /\ pool[m].last \in Nat
        /\ \A i \in DOMAIN endpoints : endpoints[i] \in EndpointRecord
    BY DEF TypeOK
  <2>2. /\ \A m \in Modes : recipe.workers[m] \in Nat
        /\ recipe.gpus_per_node \in Nat \ {0}
    BY <2>1 DEF Recipe
  <2> QED
    BY <2>1, <2>2, FrontAndTail DEF Modes
<1>3. Kinds'
  BY <1>1 DEF Kinds, Kind, Before, LastNode
<1>4. Exclusive'
  BY <1>1 DEF Exclusive, ExclusiveGpus
<1>5. Frontier'
  <2> SUFFICES ASSUME NEW i \in DOMAIN endpoints
               PROVE  Behind(endpoints[i], pool["decode"].first + node_idx', gpu_offset')
    BY <1>1 DEF Frontier, Behind, LastNode
  <2>0. PICK e : e = endpoints[i]
    OBVIOUS
  <2>1. /\ Behind(e, pool["prefill"].first + node_idx, gpu_offset) /\ Kind(e)
        /\ LastNode(e) \in Int
    BY <1>1, <1>2, <2>0 DEF Frontier, Kinds, LastNode, EndpointRecord, Nodes
  <2>2. CASE recipe.het
    <3>1. e.mode = "prefill" /\ LastNode(e) <= pool["prefill"].last
      BY <1>1, <2>1, <2>2 DEF Kind, Before
    <3>2. pool["prefill"].last < pool["decode"].first
      <4>1. /\ pool["prefill"].last = FromFront + recipe.nodes["prefill"]
            /\ pool["decode"].first = FromFront + recipe.nodes["prefill"] + 1
            /\ recipe.nodes["prefill"] \in Nat
        BY <1>1, <1>2, <2>2, HetDivision DEF Carved
      <4> QED
        BY <1>2, <4>1
    <3>3. LastNode(e) < pool["decode"].first + node_idx'
      BY <1>1, <1>2, <2>1, <2>2, <3>1, <3>2
    <3> QED
      BY <2>0, <3>3 DEF Behind
  <2>3. CASE ~recipe.het
    <3>1. pool["decode"].first = pool["prefill"].first
      BY <1>1, <1>2, <2>3 DEF Carved
    <3>2. CASE node_idx' = node_idx + 1
      <4>1. LastNode(e) < pool["decode"].first + node_idx'
        BY <1>2, <2>1, <3>1, <3>2 DEF Behind
      <4> QED
        BY <2>0, <4>1 DEF Behind
    <3>3. CASE UNCHANGED <<node_idx, gpu_offset>>
      BY <2>0, <2>1, <3>1, <3>3
    <3> QED
      BY <1>1, <2>3, <3>2, <3>3
  <2> QED
    BY <2>2, <2>3
<1>6. OnOwnNodes'
  <2> DEFINE np == Or(recipe.nodes["prefill"], 0)
             nd == Or(recipe.nodes["decode"], 0)
             available == pool["decode"].last - pool["decode"].first + 1
  <2> SUFFICES ASSUME SidesFit(recipe), recipe.workers["decode"] > 0
               PROVE  \E start \in Nat :
                        /\ start + nd <= available
                        /\ Packed(recipe, "decode", start, 0, node_idx', gpu_offset')
    BY <1>1 DEF OnOwnNodes, NodesAvailable
  <2>1. /\ np \in Nat /\ nd \in Nat
        /\ recipe.het => available = nd
        /\ ~recipe.het => available >= np + nd
        /\ GpusPer(recipe, "prefill") > 0 /\ GpusPer(recipe, "decode") > 0
        /\ GpusPer(recipe, "decode") \in Nat
        /\ NodesTaken(recipe, "prefill") <= np
        /\ NodesTaken(recipe, "decode") <= nd
    BY <1>1, <1>2, OwnNodes, GpusPerNat DEF SidesFit
  <2>2. CASE recipe.het
    <3>1. Packed(recipe, "decode", 0, 0, 0, 0)
      BY <1>2, <2>1, PackedFresh
    <3> QED
      BY <1>1, <2>1, <2>2, <3>1
  <2>3. CASE ~recipe.het
    <3>1. Packed(recipe, "prefill", 0, recipe.workers["prefill"], node_idx, gpu_offset)
      BY <1>1 DEF OnOwnNodes
    <3>2. /\ NodesTaken(recipe, "prefill") \in Nat
          /\ node_idx + (IF gpu_offset > 0 THEN 1 ELSE 0) <= NodesTaken(recipe, "prefill")
      BY <1>2, <2>1, <3>1, PackedUsed
    <3>3. nd >= 1
      <4>1. Packed(recipe, "decode", 0, 0, 0, 0)
        BY <1>2, <2>1, PackedFresh
      <4>2. NodesTaken(recipe, "decode") > 0
        BY <1>2, <2>1, TakesNodes
      <4>3. NodesTaken(recipe, "decode") \in Nat
        BY <1>2, <2>1, TakesNodes
      <4> QED
        BY <2>1, <4>2, <4>3
    <3>4. NodesAvailable = available
      BY <1>1, <1>2, <2>3 DEF Carved, NodesAvailable
    <3>5. CASE gpu_offset > 0
      <4>1. node_idx + 1 <= np /\ node_idx + 1 < available
        BY <1>2, <2>1, <2>3, <3>2, <3>3, <3>5
      <4>2. StepsToOwnNode
        BY <3>4, <3>5, <4>1 DEF StepsToOwnNode, SidesFit
      <4>3. node_idx' = node_idx + 1 /\ gpu_offset' = 0
        BY <2>3, <4>2 DEF StartDecode
      <4>4. Packed(recipe, "decode", node_idx + 1, 0, node_idx + 1, 0)
        BY <1>2, <2>1, PackedFresh
      <4>5. node_idx + 1 \in Nat /\ (node_idx + 1) + nd <= available
        BY <1>2, <2>1, <2>3, <4>1
      <4> QED
        BY <4>3, <4>4, <4>5
    <3>6. CASE gpu_offset = 0
      <4>1. ~StepsToOwnNode
        BY <3>6 DEF StepsToOwnNode
      <4>2. node_idx' = node_idx /\ gpu_offset' = 0
        BY <2>3, <3>6, <4>1 DEF StartDecode
      <4>3. Packed(recipe, "decode", node_idx, 0, node_idx, 0)
        BY <1>2, <2>1, PackedFresh
      <4>4. node_idx + nd <= available
        BY <1>2, <2>1, <2>3, <3>2, <3>6
      <4> QED
        BY <1>2, <4>2, <4>3, <4>4
    <3> QED
      BY <1>2, <3>5, <3>6
  <2> QED
    BY <2>2, <2>3
<1> QED
  BY <1>3, <1>4, <1>5, <1>6

LEMMA StartAggKeeps ==
  ASSUME TypeOK, Carved, Kinds, Frontier, OnOwnNodes, Exclusive, StartAgg
  PROVE  Kinds' /\ Frontier' /\ OnOwnNodes' /\ Exclusive'
<1>1. /\ phase = "allocate" /\ mode = "decode" /\ mode' = "agg"
      /\ UNCHANGED <<recipe, phase, nodelist, reserved, pool, endpoints, node_idx, gpu_offset>>
  BY DEF StartAgg
<1>2. Kinds'
  BY <1>1 DEF Kinds, Kind, Before, LastNode
<1>3. Exclusive'
  BY <1>1 DEF Exclusive, ExclusiveGpus
<1>4. ~recipe.het => pool["agg"].first = pool["decode"].first
  BY <1>1 DEF Carved, Modes
<1>5. Frontier'
  BY <1>1, <1>4 DEF Frontier, Behind, LastNode
<1>6. OnOwnNodes'
  BY <1>1 DEF OnOwnNodes
<1> QED
  BY <1>2, <1>3, <1>5, <1>6

LEMMA PlacedStep ==
  ASSUME TypeOK, Granted, PlacedInv, [Next]_vars
  PROVE  PlacedInv'
<1>0. Carved /\ Unplaced /\ Kinds /\ Frontier /\ OnOwnNodes /\ Exclusive
  BY DEF PlacedInv
<1>1. Carved'
  BY <1>0, CarvedStep
<1>2. CASE PlaceFullNode \/ PlacePartialNode \/ StartDecode \/ StartAgg
  <2>1. Kinds' /\ Frontier' /\ OnOwnNodes' /\ Exclusive'
    BY <1>0, <1>2, PlaceFullKeeps, PlacePartialKeeps, StartDecodeKeeps, StartAggKeeps
  <2>2. phase' = "allocate"
    BY <1>2 DEF PlaceFullNode, PlacePartialNode, StartDecode, StartAgg, MoreWorkers
  <2> QED
    BY <1>1, <2>1, <2>2 DEF PlacedInv, Unplaced
<1>3. CASE Carve
  <2>1. /\ phase = "carve" /\ phase' = "allocate"
        /\ UNCHANGED <<recipe, nodelist, mode, index, node_idx, gpu_offset, endpoints>>
    BY <1>3 DEF Carve, placing
  <2>2. endpoints = <<>> /\ mode = "prefill" /\ index = 0 /\ node_idx = 0 /\ gpu_offset = 0
    BY <1>0, <2>1 DEF Unplaced
  <2>3. Kinds' /\ Frontier' /\ Exclusive' /\ Unplaced'
    BY <2>1, <2>2 DEF Kinds, Frontier, Exclusive, ExclusiveGpus, Unplaced
  <2>4. OnOwnNodes'
    <3> SUFFICES ASSUME SidesFit(recipe)
                 PROVE  /\ 0 + Or(recipe.nodes["prefill"], 0) <= NodesAvailable'
                        /\ Packed(recipe, "prefill", 0, 0, 0, 0)
      BY <2>1, <2>2 DEF OnOwnNodes
    <3>1. TypeOK'
      BY <1>3, CarveKeeps
    <3>2. Or(recipe.nodes["prefill"], 0) <= pool'["prefill"].last - pool'["prefill"].first + 1
      <4>1. (TypeOK /\ Carved /\ phase = "allocate" /\ SidesFit(recipe))' =>
               (Or(recipe.nodes["prefill"], 0)
                  <= pool["prefill"].last - pool["prefill"].first + 1)'
        BY OwnPrefillNodes, PTL
      <4> QED
        BY <1>1, <2>1, <3>1, <4>1
    <3>3. recipe \in Recipe /\ "prefill" \in Modes /\ GpusPer(recipe, "prefill") > 0
      BY DEF TypeOK, Modes, SidesFit
    <3>4. Packed(recipe, "prefill", 0, 0, 0, 0)
      BY <3>3, PackedFresh
    <3>5. Or(recipe.nodes["prefill"], 0) \in Nat
      BY <3>3, recipe.nodes["prefill"] \in Nat \union {None} DEF Recipe, Or
    <3> QED
      BY <2>1, <2>2, <3>2, <3>4, <3>5 DEF NodesAvailable
  <2> QED
    BY <1>1, <2>3, <2>4 DEF PlacedInv
<1>4. CASE UNCHANGED <<recipe, pool, mode, index, node_idx, gpu_offset, endpoints>>
           /\ (phase' \in {"submit", "carve"} => phase \in {"submit", "carve"})
           /\ (phase' = "allocate" => phase = "allocate")
  <2>1. Unplaced' /\ Kinds' /\ Exclusive'
    BY <1>0, <1>4 DEF Unplaced, Kinds, Kind, Exclusive, ExclusiveGpus, LastNode
  <2>2. Frontier' /\ OnOwnNodes'
    BY <1>0, <1>4 DEF Frontier, Behind, OnOwnNodes, NodesAvailable, LastNode
  <2> QED
    BY <1>1, <2>1, <2>2 DEF PlacedInv
<1>5. ~(PlaceFullNode \/ PlacePartialNode \/ StartDecode \/ StartAgg \/ Carve) =>
        /\ UNCHANGED <<recipe, pool, mode, index, node_idx, gpu_offset, endpoints>>
        /\ phase' \in {"submit", "carve"} => phase \in {"submit", "carve"}
        /\ phase' = "allocate" => phase = "allocate"
  BY DEF Next, vars, placing, Submit, SubmitRejected, CarveRejected, OutOfNodes, AllPlaced,
         Convert, ConvertRejected, AllConverted
<1> QED
  BY <1>2, <1>3, <1>4, <1>5

\* Nodes and GPUs are handed out once (runtime.py, from_slurm; topology.py,
\* allocate_endpoints).
THEOREM PlacementIsSound == Spec => []PlacementSound
<1>1. Init => PortsInv /\ PlacedInv
  BY PortsInitial, PlacedInitial
<1>2. PortsInv /\ PlacedInv /\ [Next]_vars => PortsInv' /\ PlacedInv'
  <2>1. PortsInv => TypeOK /\ Granted
    BY DEF PortsInv
  <2> QED
    BY <2>1, PortsStep, PlacedStep
<1>3. PortsInv /\ PlacedInv => PlacementSound
  <2> SUFFICES ASSUME PortsInv, PlacedInv PROVE PlacementSound
    OBVIOUS
  <2>1. TypeOK /\ Carved /\ OnOwnNodes /\ Exclusive
    BY DEF PortsInv, PlacedInv
  <2>2. WorkersGetTheirNodes
    BY <2>1, NodesDivided
  <2>3. PackedGpusExclusive
    BY <2>1, NotRefused DEF Exclusive, PackedGpusExclusive
  <2> QED
    BY <2>1, <2>2, <2>3 DEF PlacementSound
<1> QED
  BY <1>1, <1>2, <1>3, PTL DEF Spec

-----------------------------------------------------------------------------
(***************************************************************************)
(* WorkerLaunch                                                            *)
(***************************************************************************)

-----------------------------------------------------------------------------
(* The processes of an endpoint                                            *)

\* Process k of endpoint i, as endpoints_to_processes makes it.
IsProcess(p, i, k) ==
    LET e == endpoints[i]
        split == Layout(e) = "per_gpu"
    IN  /\ p.endpoint = i
        /\ p.node = e.first + (IF split THEN k \div e.size ELSE k)
        /\ p.from = IF split THEN e.from + (k % e.size) ELSE e.from
        /\ p.size = IF split THEN 1 ELSE e.size
        /\ p.rank = k * LocalRanks(e) /\ p.ranks = LocalRanks(e)
        /\ p.http # None <=> k = 0 \/ Layout(e) = "per_node"
        /\ p.rpc # None <=> OwnsRanks(e)

\* How many processes of endpoint i conversion has made.
Reached(i) == IF i < cursor.endpoint THEN NumProcesses(endpoints[i])
              ELSE IF i = cursor.endpoint THEN cursor.process ELSE 0

\* Conversion makes the processes of each endpoint once, in order, with one RPC port.
Made ==
    /\ phase \in {"submit", "carve", "allocate"} => processes = {} /\ cursor = AtEndpoint(1)
    /\ phase = "done" => cursor.endpoint > Len(endpoints)
    /\ \A i \in DOMAIN endpoints :
          /\ i < cursor.endpoint \/ Reached(i) > 0 => ~Rejected(endpoints[i])
          /\ \A k \in 0..(Reached(i) - 1) : \E p \in processes : IsProcess(p, i, k)
    /\ \A p \in processes : \E i \in DOMAIN endpoints :
          \E k \in 0..(Reached(i) - 1) : IsProcess(p, i, k)
    /\ \A p, q \in processes : p.endpoint = q.endpoint =>
          p.rpc = q.rpc /\ (p.rank = q.rank => p = q)
    /\ \A p \in processes :
          p.endpoint = cursor.endpoint /\ OwnsRanks(Endpoint) => p.rpc = cursor.rpc

\* Which endpoints share a node: the earlier one is smaller than a node, and so is the
\* later one, unless whole-node workers may follow onto nodes that partial ones left open.
Sharers ==
    /\ \A i \in DOMAIN endpoints :
          endpoints[i].count > 1 =>
              GpusPer(recipe, endpoints[i].mode) >= recipe.gpus_per_node
    /\ \A i, j \in DOMAIN endpoints :
          i < j /\ ShareNode(endpoints[i], endpoints[j]) =>
              /\ GpusPer(recipe, endpoints[i].mode) < recipe.gpus_per_node
              /\ ~Mixed(recipe) \/ SidesFit(recipe) =>
                    GpusPer(recipe, endpoints[j].mode) < recipe.gpus_per_node

\* The workers of a mode are numbered.
Numbered ==
    /\ \A i \in DOMAIN endpoints :
          /\ endpoints[i].index < recipe.workers[endpoints[i].mode]
          /\ phase = "allocate" /\ endpoints[i].mode = mode => endpoints[i].index < index
    /\ \A i, j \in DOMAIN endpoints :
          i # j /\ endpoints[i].mode = endpoints[j].mode =>
              endpoints[i].index # endpoints[j].index

\* The commands are those of the processes that were launched; once all were, all.
Commands ==
    /\ launch \in {"no", "starting", "started", "raised"}
    /\ launch = "no" => commands = {}
    /\ launch # "no" => phase = "done"
    /\ \A c \in commands : \E p \in Launched : c = Command(p) /\ ~Raises(p)
    /\ launch = "started" => \A p \in Launched : Started(p)

ProcessInv == PortsInv /\ PlacedInv /\ Made /\ Sharers /\ Numbered
LaunchInv == ProcessInv /\ Commands

-----------------------------------------------------------------------------
(* Conversion                                                              *)

\* What a process is depends on the recipe and the endpoints alone.
LEMMA SameLayout ==
  ASSUME UNCHANGED <<recipe, endpoints>>
  PROVE  \A e : /\ Layout(e)' = Layout(e) /\ NumProcesses(e)' = NumProcesses(e)
               /\ LocalRanks(e)' = LocalRanks(e) /\ OwnsRanks(e)' = OwnsRanks(e)
               /\ Rejected(e)' = Rejected(e)
<1>1. \A e : Layout(e)' = Layout(e)
  BY DEF Layout, SplitsRanks, IsDp, PerGpu, has_dp_mode
<1>2. \A e : Rejected(e)' = Rejected(e)
  BY DEF Rejected, SplitsRanks, IsDp, PerGpu
<1> QED
  BY <1>1, <1>2 DEF NumProcesses, LocalRanks, OwnsRanks

LEMMA SameProcess ==
  ASSUME UNCHANGED <<recipe, endpoints>>
  PROVE  \A p, i, k : IsProcess(p, i, k)' <=> IsProcess(p, i, k)
  BY SameLayout DEF IsProcess

\* A conversion makes the next process of its endpoint.
LEMMA MakesNext ==
  ASSUME TypeOK, Granted, InOrder, cursor.endpoint <= Len(endpoints), ~Rejected(Endpoint)
  PROVE  IsProcess(NewProcess, cursor.endpoint, cursor.process)
<1>0. PICK p : p = NewProcess
  OBVIOUS
<1>1. Endpoint = endpoints[cursor.endpoint]
  BY DEF Endpoint
<1>2. /\ p.endpoint = cursor.endpoint /\ p.node = NodeNow
      /\ p.from = IF Layout(Endpoint) = "per_gpu"
                    THEN Endpoint.from + (cursor.process % Endpoint.size) ELSE Endpoint.from
      /\ p.size = IF Layout(Endpoint) = "per_gpu" THEN 1 ELSE Endpoint.size
      /\ p.rank = cursor.process * LocalRanks(Endpoint) /\ p.ranks = LocalRanks(Endpoint)
      /\ p.http = IF TakesHttp THEN next.http[NodeNow] ELSE None
      /\ p.rpc = IF OwnsRanks(Endpoint) THEN SharedRpc ELSE None
  BY <1>0 DEF NewProcess
<1>3. next.http[NodeNow] # None /\ next.rpc[NodeNow] # None
  <2>1. NodeNow \in Nodes
    BY AtProcess
  <2>2. next.http[NodeNow] \in Nat /\ next.rpc[NodeNow] \in Nat
    BY <2>1 DEF TypeOK, PortCounters
  <2> QED
    BY <2>2, NoneAssumption
<1>4. OwnsRanks(Endpoint) => SharedRpc # None
  BY <1>3, NoneAssumption DEF SharedRpc, Leader, InOrder
<1>5. p.http # None <=> cursor.process = 0 \/ Layout(Endpoint) = "per_node"
  BY <1>2, <1>3 DEF TakesHttp, Leader
<1>6. p.rpc # None <=> OwnsRanks(Endpoint)
  BY <1>2, <1>4
<1>7. IsProcess(p, cursor.endpoint, cursor.process)
  BY <1>1, <1>2, <1>5, <1>6 DEF IsProcess, NodeNow
<1> QED
  BY <1>0, <1>7

\* Two processes of an endpoint with different numbers have different ranks.
LEMMA RankTells ==
  ASSUME NEW k \in Nat, NEW l \in Nat, NEW n \in Nat \ {0}, k * n = l * n
  PROVE  k = l
  BY SMT

\* How far each endpoint is, after a conversion.
LEMMA ReachedMoves ==
  ASSUME TypeOK, Granted, InOrder, Convert
  PROVE  /\ \A i \in DOMAIN endpoints :
               /\ Reached(i) \in Nat
               /\ Reached(i)' = IF i = cursor.endpoint THEN Reached(i) + 1 ELSE Reached(i)
         /\ Reached(cursor.endpoint) = cursor.process
         /\ cursor.endpoint \in DOMAIN endpoints
<1>1. /\ cursor.endpoint <= Len(endpoints) /\ ~Rejected(Endpoint)
      /\ UNCHANGED <<recipe, endpoints>>
  BY DEF Convert, placing
<1>2. /\ cursor.endpoint \in Nat \ {0} /\ cursor.process \in Nat
      /\ Len(endpoints) \in Nat /\ DOMAIN endpoints = 1..Len(endpoints)
      /\ recipe \in Recipe
      /\ \A i \in DOMAIN endpoints : endpoints[i] \in EndpointRecord
  BY DEF TypeOK
<1>3. cursor.endpoint \in DOMAIN endpoints
  BY <1>1, <1>2
<1>4. Reached(cursor.endpoint) = cursor.process
  BY <1>2 DEF Reached
<1>5. NumProcesses(Endpoint) \in Nat /\ cursor.process + 1 <= NumProcesses(Endpoint)
  BY <1>1, AtProcess, RanksFit, <1>2
<1>6. \A i \in DOMAIN endpoints : NumProcesses(endpoints[i]) \in Nat
  <2> TAKE i \in DOMAIN endpoints
  <2>1. endpoints[i].count \in Nat /\ endpoints[i].size \in Nat
    BY <1>2 DEF EndpointRecord
  <2> QED
    BY <2>1, TimesNat DEF NumProcesses
<1>7. cursor' = IF cursor.process + 1 < NumProcesses(Endpoint)
                  THEN [endpoint |-> cursor.endpoint, process |-> cursor.process + 1,
                        bootstrap |-> SharedBootstrap, nixl |-> SharedNixl, rpc |-> SharedRpc]
                  ELSE AtEndpoint(cursor.endpoint + 1)
  BY DEF Convert
<1>8. \/ cursor'.endpoint = cursor.endpoint /\ cursor'.process = cursor.process + 1
      \/ /\ cursor'.endpoint = cursor.endpoint + 1 /\ cursor'.process = 0
         /\ cursor.process + 1 = NumProcesses(Endpoint)
  <2>1. CASE cursor.process + 1 < NumProcesses(Endpoint)
    BY <1>7, <2>1
  <2>2. CASE ~(cursor.process + 1 < NumProcesses(Endpoint))
    BY <1>2, <1>5, <1>7, <2>2 DEF AtEndpoint
  <2> QED
    BY <2>1, <2>2
<1>9. ASSUME NEW i \in DOMAIN endpoints
      PROVE  /\ Reached(i) \in Nat
             /\ Reached(i)' = IF i = cursor.endpoint THEN Reached(i) + 1 ELSE Reached(i)
  <2>1. Reached(i) \in Nat
    BY <1>2, <1>6 DEF Reached
  <2>2. Reached(i)' = IF i < cursor'.endpoint THEN NumProcesses(endpoints[i])
                      ELSE IF i = cursor'.endpoint THEN cursor'.process ELSE 0
    BY <1>1, SameLayout DEF Reached
  <2>3. i \in Nat
    BY <1>2
  <2> QED
    BY <1>2, <1>8, <2>1, <2>2, <2>3 DEF Reached, Endpoint
<1> QED
  BY <1>3, <1>4, <1>9

LEMMA ConvertMakes ==
  ASSUME PortsInv, Made, Convert
  PROVE  Made'
<1>0. PICK new : new = NewProcess
  OBVIOUS
<1>1. /\ TypeOK /\ Granted /\ InOrder
      /\ cursor.endpoint <= Len(endpoints) /\ ~Rejected(Endpoint)
      /\ UNCHANGED <<phase, recipe, endpoints>> /\ phase = "convert"
      /\ processes' = processes \union {new}
  BY <1>0 DEF PortsInv, Convert, placing
<1>a. PICK at, k : at = cursor.endpoint /\ k = cursor.process
  OBVIOUS
<1>2. /\ at \in DOMAIN endpoints /\ k \in Nat /\ Reached(at) = k
      /\ Endpoint = endpoints[at]
      /\ \A i \in DOMAIN endpoints :
            /\ Reached(i) \in Nat
            /\ Reached(i)' = IF i = at THEN Reached(i) + 1 ELSE Reached(i)
  BY <1>1, <1>a, ReachedMoves DEF TypeOK, Endpoint
<1>3. IsProcess(new, at, k)
  BY <1>0, <1>1, <1>a, MakesNext
<1>4. \A p, i, n : IsProcess(p, i, n)' <=> IsProcess(p, i, n)
  BY <1>1, SameProcess
<1>5. \A i \in DOMAIN endpoints : \A n \in 0..(Reached(i) - 1) : n \in 0..(Reached(i)' - 1)
  BY <1>2
<1>6. k \in 0..(Reached(at)' - 1)
  BY <1>2
<1>7. /\ LocalRanks(Endpoint) \in Nat \ {0}
  BY <1>1, AtProcess, RanksFit DEF TypeOK
<1>8. new.endpoint = at /\ new.rank = k * LocalRanks(Endpoint)
      /\ (OwnsRanks(Endpoint) => new.rpc = SharedRpc)
      /\ (~OwnsRanks(Endpoint) => new.rpc = None)
  BY <1>0, <1>a DEF NewProcess
<1>9. ASSUME NEW p \in processes, p.endpoint = at
      PROVE  /\ k # 0 /\ p.rank # new.rank /\ p.rpc = new.rpc
             /\ OwnsRanks(Endpoint) => p.rpc = cursor.rpc
  <2>1. PICK i \in DOMAIN endpoints : \E n \in 0..(Reached(i) - 1) : IsProcess(p, i, n)
    BY DEF Made
  <2>2. PICK n \in 0..(Reached(i) - 1) : IsProcess(p, i, n)
    BY <2>1
  <2>3. i = at
    BY <1>9, <2>2 DEF IsProcess
  <2>4. n \in Nat /\ n < k
    BY <1>2, <2>2, <2>3
  <2>5. p.rank = n * LocalRanks(Endpoint) /\ (p.rpc # None <=> OwnsRanks(Endpoint))
    BY <1>2, <2>2, <2>3 DEF IsProcess
  <2>6. p.rank # new.rank
    <3>1. n * LocalRanks(Endpoint) # k * LocalRanks(Endpoint)
      BY <1>2, <1>7, <2>4, RankTells
    <3> QED
      BY <1>8, <2>5, <3>1
  <2>7. OwnsRanks(Endpoint) => p.rpc = cursor.rpc
    BY <1>9, <1>a DEF Made
  <2> QED
    BY <1>2, <1>8, <1>a, <2>4, <2>5, <2>6, <2>7 DEF SharedRpc, Leader
<1>10. \A i \in DOMAIN endpoints :
          /\ i < cursor'.endpoint \/ Reached(i)' > 0 => ~Rejected(endpoints[i])'
          /\ \A n \in 0..(Reached(i)' - 1) : \E p \in processes' : IsProcess(p, i, n)
  <2> TAKE i \in DOMAIN endpoints
  <2>1. Rejected(endpoints[i])' = Rejected(endpoints[i])
    BY <1>1, SameLayout
  <2>2. CASE i = at
    <3>1. Reached(at)' = k + 1 /\ k \in Nat
      BY <1>2
    <3>2. \A n \in 0..(k - 1) : \E p \in processes : IsProcess(p, at, n)
      BY <1>2 DEF Made
    <3>3. \A n \in 0..(Reached(at)' - 1) : n \in 0..(k - 1) \/ n = k
      BY <3>1
    <3>4. \A n \in 0..(Reached(at)' - 1) : \E p \in processes' : IsProcess(p, at, n)
      BY <1>1, <1>3, <3>2, <3>3
    <3> QED
      BY <1>1, <1>2, <2>1, <2>2, <3>4
  <2>3. CASE i # at
    <3>1. Reached(i)' = Reached(i)
      BY <1>2, <2>3
    <3>2. i < cursor'.endpoint => i < cursor.endpoint
      <4>1. cursor'.endpoint \in {at, at + 1} /\ i \in Nat /\ at \in Nat
        BY <1>1, <1>2, <1>a DEF Convert, AtEndpoint, TypeOK
      <4> QED
        BY <1>a, <2>3, <4>1
    <3> QED
      BY <1>1, <2>1, <3>1, <3>2 DEF Made
  <2> QED
    BY <2>2, <2>3
<1>11. \A p \in processes' : \E i \in DOMAIN endpoints :
          \E n \in 0..(Reached(i)' - 1) : IsProcess(p, i, n)
  <2> TAKE p \in processes'
  <2>1. CASE p = new
    BY <1>2, <1>3, <1>6, <2>1
  <2>2. CASE p \in processes
    BY <1>5, <2>2 DEF Made
  <2> QED
    BY <1>1, <2>1, <2>2
<1>12. \A p, q \in processes' : p.endpoint = q.endpoint =>
          p.rpc = q.rpc /\ (p.rank = q.rank => p = q)
  <2> TAKE p \in processes', q \in processes'
  <2> HAVE p.endpoint = q.endpoint
  <2>1. CASE p \in processes /\ q \in processes
    BY <2>1 DEF Made
  <2>2. CASE p = new /\ q \in processes
    BY <1>8, <1>9, <2>2
  <2>3. CASE q = new /\ p \in processes
    BY <1>8, <1>9, <2>3
  <2>4. CASE p = new /\ q = new
    BY <2>4
  <2> QED
    BY <1>1, <2>1, <2>2, <2>3, <2>4
<1>13. ASSUME NEW p \in processes', p.endpoint = cursor'.endpoint, OwnsRanks(Endpoint)'
       PROVE  p.rpc = cursor'.rpc
  <2>1. PICK i \in DOMAIN endpoints : \E n \in 0..(Reached(i)' - 1) : IsProcess(p, i, n)
    BY <1>11
  <2>2. i = cursor'.endpoint /\ Reached(i)' > 0 /\ i \in Nat
    <3>1. PICK n \in 0..(Reached(i)' - 1) : IsProcess(p, i, n)
      BY <2>1
    <3>2. i = cursor'.endpoint
      BY <1>13, <3>1 DEF IsProcess
    <3>3. Reached(i)' \in Nat
      BY <1>2
    <3> QED
      BY <1>1, <3>1, <3>2, <3>3 DEF TypeOK
  <2>3. CASE k + 1 < NumProcesses(Endpoint)
    <3>1. cursor'.endpoint = at /\ cursor'.rpc = SharedRpc
      BY <1>a, <2>3 DEF Convert
    <3>2. Endpoint' = Endpoint /\ OwnsRanks(Endpoint)
      <4>1. Endpoint' = Endpoint
        BY <1>1, <1>a, <3>1 DEF Endpoint
      <4>2. OwnsRanks(Endpoint)' = OwnsRanks(Endpoint)
        BY <1>1, <4>1 DEF OwnsRanks, Layout, SplitsRanks, IsDp, PerGpu, has_dp_mode
      <4> QED
        BY <1>13, <4>1, <4>2
    <3>3. CASE p = new
      BY <1>8, <3>1, <3>2, <3>3
    <3>4. CASE p \in processes
      BY <1>9, <1>13, <3>1, <3>2, <3>4, <1>8
    <3> QED
      BY <1>1, <3>3, <3>4
  <2>4. CASE ~(k + 1 < NumProcesses(Endpoint))
    <3>1. cursor'.endpoint = at + 1 /\ cursor'.process = 0
      BY <1>a, <2>4 DEF Convert, AtEndpoint
    <3>2. Reached(i)' = 0
      BY <2>2, <3>1 DEF Reached
    <3> QED
      BY <2>2, <3>2
  <2> QED
    BY <2>3, <2>4
<1> QED
  BY <1>1, <1>4, <1>10, <1>11, <1>12, <1>13 DEF Made

LEMMA MadeInitial == Init => Made
  BY DEF Init, Made, Reached, AtEndpoint

LEMMA MadeStep ==
  ASSUME PortsInv, Made, [Next]_vars
  PROVE  Made'
<1>1. CASE Convert
  BY <1>1, ConvertMakes
<1>2. CASE ~Convert
  <2>1. UNCHANGED <<cursor, processes>>
    BY <1>2 DEF Next, vars, converting, Submit, SubmitRejected, Carve, CarveRejected,
                PlaceFullNode, PlacePartialNode, OutOfNodes, StartDecode, StartAgg, AllPlaced,
                ConvertRejected, AllConverted
  <2>2. CASE UNCHANGED <<recipe, endpoints>>
    <3>1. /\ phase' \in {"submit", "carve", "allocate"} =>
               phase \in {"submit", "carve", "allocate"}
          /\ phase' = "done" => phase = "done" \/ cursor.endpoint > Len(endpoints)
      BY <1>2 DEF Next, vars, Submit, SubmitRejected, Carve, CarveRejected, MoreWorkers,
                  PlaceFullNode, PlacePartialNode, OutOfNodes, StartDecode, StartAgg, AllPlaced,
                  ConvertRejected, AllConverted
    <3>2. \A i : Reached(i)' = Reached(i) /\ Rejected(endpoints[i])' = Rejected(endpoints[i])
      BY <2>1, <2>2, SameLayout DEF Reached
    <3>3. \A p, i, k : IsProcess(p, i, k)' <=> IsProcess(p, i, k)
      BY <2>2, SameProcess
    <3>4. OwnsRanks(Endpoint)' = OwnsRanks(Endpoint)
      BY <2>1, <2>2 DEF OwnsRanks, Layout, SplitsRanks, IsDp, PerGpu, has_dp_mode, Endpoint
    <3> QED
      BY <2>1, <2>2, <3>1, <3>2, <3>3, <3>4 DEF Made
  <2>3. CASE ~UNCHANGED <<recipe, endpoints>>
    <3>1. phase = "allocate" /\ phase' = "allocate"
      BY <1>2, <2>3 DEF Next, vars, Submit, SubmitRejected, Carve, CarveRejected, MoreWorkers,
                  PlaceFullNode, PlacePartialNode, OutOfNodes, StartDecode, StartAgg, AllPlaced,
                  ConvertRejected, AllConverted, placing
    <3>2. processes' = {} /\ cursor' = AtEndpoint(1)
      BY <2>1, <3>1 DEF Made
    <3>3. endpoints' \in Seq(EndpointRecord)
      <4>1. TypeOK'
        BY PortsStep DEF PortsInv
      <4> QED
        BY <4>1 DEF TypeOK
    <3>4. \A i \in DOMAIN endpoints' : Reached(i)' = 0
      BY <3>2, <3>3 DEF Reached, AtEndpoint
    <3>5. cursor'.endpoint = 1 /\ \A i \in DOMAIN endpoints' : i \in Nat \ {0}
      BY <3>2, <3>3 DEF AtEndpoint
    <3>6. \A i \in DOMAIN endpoints' : ~(i < cursor'.endpoint) /\ 0..(Reached(i)' - 1) = {}
      BY <3>4, <3>5
    <3> QED
      BY <3>1, <3>2, <3>4, <3>6 DEF Made
  <2> QED
    BY <2>2, <2>3
<1> QED
  BY <1>1, <1>2

-----------------------------------------------------------------------------
(* Who shares a node                                                       *)

LEMMA AppendShares ==
  ASSUME TypeOK, Sharers, NEW e, endpoints' = Append(endpoints, e), recipe' = recipe,
         e.count > 1 => GpusPer(recipe, e.mode) >= recipe.gpus_per_node,
         \A i \in DOMAIN endpoints :
            ShareNode(endpoints[i], e) =>
               /\ GpusPer(recipe, endpoints[i].mode) < recipe.gpus_per_node
               /\ ~Mixed(recipe) \/ SidesFit(recipe) =>
                     GpusPer(recipe, e.mode) < recipe.gpus_per_node
  PROVE  Sharers'
<1>1. /\ DOMAIN endpoints' = 1..(Len(endpoints) + 1) /\ Len(endpoints) \in Nat
      /\ DOMAIN endpoints = 1..Len(endpoints)
      /\ \A i \in DOMAIN endpoints : endpoints'[i] = endpoints[i]
      /\ endpoints'[Len(endpoints) + 1] = e
  BY DEF TypeOK
<1>2. \A i \in DOMAIN endpoints' : i \in DOMAIN endpoints \/ i = Len(endpoints) + 1
  BY <1>1
<1>3. \A i, j \in DOMAIN endpoints' : i < j => i \in DOMAIN endpoints
  BY <1>1
<1>4. ASSUME NEW i \in DOMAIN endpoints', NEW j \in DOMAIN endpoints', i < j,
             ShareNode(endpoints'[i], endpoints'[j])
      PROVE  /\ GpusPer(recipe, endpoints'[i].mode) < recipe.gpus_per_node
             /\ ~Mixed(recipe) \/ SidesFit(recipe) =>
                   GpusPer(recipe, endpoints'[j].mode) < recipe.gpus_per_node
  <2>1. i \in DOMAIN endpoints /\ endpoints'[i] = endpoints[i]
    BY <1>1, <1>3, <1>4
  <2>2. CASE j \in DOMAIN endpoints
    BY <1>1, <1>4, <2>1, <2>2 DEF Sharers
  <2>3. CASE j = Len(endpoints) + 1
    BY <1>1, <1>4, <2>1, <2>3
  <2> QED
    BY <1>2, <2>2, <2>3
<1>5. ASSUME NEW i \in DOMAIN endpoints', endpoints'[i].count > 1
      PROVE  GpusPer(recipe, endpoints'[i].mode) >= recipe.gpus_per_node
  BY <1>1, <1>2, <1>5 DEF Sharers
<1>6. \A d, g : ShareNode(d, g)' <=> ShareNode(d, g)
  BY DEF ShareNode, LastNode
<1> QED
  BY <1>4, <1>5, <1>6 DEF Sharers, ShareNode, LastNode

LEMMA AppendNumbers ==
  ASSUME TypeOK, Numbered, NEW e, endpoints' = Append(endpoints, e),
         e.mode = mode, e.index = index, index' = index + 1, phase = "allocate",
         index < recipe.workers[mode], UNCHANGED <<recipe, phase, mode>>
  PROVE  Numbered'
<1>1. /\ DOMAIN endpoints' = 1..(Len(endpoints) + 1) /\ Len(endpoints) \in Nat
      /\ DOMAIN endpoints = 1..Len(endpoints)
      /\ \A i \in DOMAIN endpoints : endpoints'[i] = endpoints[i]
      /\ endpoints'[Len(endpoints) + 1] = e /\ index \in Nat
  BY DEF TypeOK
<1>2. \A i \in DOMAIN endpoints' : i \in DOMAIN endpoints \/ i = Len(endpoints) + 1
  BY <1>1
<1>3. \A i \in DOMAIN endpoints : /\ endpoints[i].index \in Nat
                                  /\ endpoints[i].mode = mode => endpoints[i].index < index
  <2>1. \A i \in DOMAIN endpoints : endpoints[i] \in EndpointRecord
    BY DEF TypeOK
  <2> QED
    BY <2>1 DEF EndpointRecord, Numbered
<1>4. ASSUME NEW i \in DOMAIN endpoints'
      PROVE  /\ endpoints'[i].index < recipe.workers[endpoints'[i].mode]
             /\ endpoints'[i].mode = mode => endpoints'[i].index < index + 1
  <2>1. CASE i \in DOMAIN endpoints
    BY <1>1, <1>3, <2>1 DEF Numbered
  <2>2. CASE i = Len(endpoints) + 1
    BY <1>1, <2>2
  <2> QED
    BY <1>2, <2>1, <2>2
<1>5. ASSUME NEW i \in DOMAIN endpoints', NEW j \in DOMAIN endpoints', i # j,
             endpoints'[i].mode = endpoints'[j].mode
      PROVE  endpoints'[i].index # endpoints'[j].index
  <2>1. CASE i \in DOMAIN endpoints /\ j \in DOMAIN endpoints
    BY <1>1, <1>5, <2>1 DEF Numbered
  <2>2. CASE i \in DOMAIN endpoints /\ j = Len(endpoints) + 1
    BY <1>1, <1>3, <1>5, <2>2
  <2>3. CASE j \in DOMAIN endpoints /\ i = Len(endpoints) + 1
    BY <1>1, <1>3, <1>5, <2>3
  <2> QED
    BY <1>2, <1>5, <2>1, <2>2, <2>3
<1> QED
  BY <1>4, <1>5 DEF Numbered

LEMMA PlaceFullShares ==
  ASSUME PortsInv, PlacedInv, Sharers, Numbered, PlaceFullNode
  PROVE  Sharers' /\ Numbered'
<1>0. PICK e : e = [mode |-> mode, index |-> index, first |-> pool[mode].first + node_idx,
                    count |-> NodesPerWorker, from |-> 0, size |-> recipe.gpus_per_node]
  OBVIOUS
<1>1. /\ TypeOK /\ Kinds /\ Frontier /\ OnOwnNodes
      /\ \A i \in DOMAIN endpoints : endpoints[i] \in EndpointRecord
      /\ pool[mode].first + node_idx \in Int
  BY DEF PortsInv, PlacedInv, TypeOK
<1>2. /\ phase = "allocate" /\ index < recipe.workers[mode] /\ ~(recipe.het /\ mode = "agg")
      /\ GpusPer(recipe, mode) >= recipe.gpus_per_node
      /\ endpoints' = Append(endpoints, e) /\ index' = index + 1
      /\ UNCHANGED <<recipe, phase, mode>>
      /\ e.mode = mode /\ e.index = index /\ e.first = pool[mode].first + node_idx
  BY <1>0 DEF PlaceFullNode, MoreWorkers, Placed, FullNode, GpusNow
<1>3. ASSUME NEW i \in DOMAIN endpoints, ShareNode(endpoints[i], e)
      PROVE  /\ GpusPer(recipe, endpoints[i].mode) < recipe.gpus_per_node
             /\ ~(~Mixed(recipe) \/ SidesFit(recipe))
  <2>1. LastNode(endpoints[i]) >= pool[mode].first + node_idx
    BY <1>2, <1>3 DEF ShareNode
  <2>2. LastNode(endpoints[i]) \in Int
    BY <1>1 DEF LastNode, EndpointRecord, Nodes
  <2>3. Behind(endpoints[i], pool[mode].first + node_idx, gpu_offset)
    BY <1>1, <1>2 DEF Frontier
  <2>4. GpusPer(recipe, endpoints[i].mode) < recipe.gpus_per_node
    BY <1>1, <2>1, <2>2, <2>3 DEF Behind
  <2> QED
    BY <1>1, <2>1, <2>4, WholeNodesApart
<1>4. Sharers'
  BY <1>1, <1>2, <1>3, AppendShares
<1> QED
  BY <1>1, <1>2, <1>4, AppendNumbers

LEMMA PlacePartialShares ==
  ASSUME PortsInv, PlacedInv, Sharers, Numbered, PlacePartialNode
  PROVE  Sharers' /\ Numbered'
<1>0. PICK e : e = [mode |-> mode, index |-> index, first |-> pool[mode].first + PartialNode,
                    count |-> 1, from |-> PartialOffset, size |-> GpusNow]
  OBVIOUS
<1>1. /\ TypeOK /\ Frontier
      /\ \A i \in DOMAIN endpoints : endpoints[i] \in EndpointRecord
      /\ pool[mode].first \in Int /\ node_idx \in Int
  BY DEF PortsInv, PlacedInv, TypeOK
<1>2. /\ phase = "allocate" /\ index < recipe.workers[mode] /\ ~(recipe.het /\ mode = "agg")
      /\ ~(GpusPer(recipe, mode) >= recipe.gpus_per_node)
      /\ endpoints' = Append(endpoints, e) /\ index' = index + 1
      /\ UNCHANGED <<recipe, phase, mode>>
      /\ e.mode = mode /\ e.index = index /\ e.first = pool[mode].first + PartialNode
      /\ e.count = 1
  BY <1>0 DEF PlacePartialNode, MoreWorkers, Placed, FullNode, GpusNow
<1>3. GpusPer(recipe, mode) < recipe.gpus_per_node
  <2>1. GpusPer(recipe, mode) \in Nat /\ recipe.gpus_per_node \in Nat
    BY <1>1, GpusPerNat, RecipeNumbers DEF TypeOK
  <2> QED
    BY <1>2, <2>1
<1>4. ASSUME NEW i \in DOMAIN endpoints, ShareNode(endpoints[i], e)
      PROVE  GpusPer(recipe, endpoints[i].mode) < recipe.gpus_per_node
  <2>1. LastNode(endpoints[i]) >= pool[mode].first + PartialNode
    BY <1>2, <1>4 DEF ShareNode
  <2>2. LastNode(endpoints[i]) \in Int
    BY <1>1 DEF LastNode, EndpointRecord, Nodes
  <2>3. Behind(endpoints[i], pool[mode].first + node_idx, gpu_offset)
    BY <1>1, <1>2 DEF Frontier
  <2>4. PartialNode \in {node_idx, node_idx + 1}
    BY DEF PartialNode
  <2> QED
    BY <1>1, <2>1, <2>2, <2>3, <2>4 DEF Behind
<1>5. Sharers'
  BY <1>1, <1>2, <1>3, <1>4, AppendShares
<1> QED
  BY <1>1, <1>2, <1>5, AppendNumbers

LEMMA SharersStep ==
  ASSUME PortsInv, PlacedInv, Sharers, Numbered, [Next]_vars
  PROVE  Sharers' /\ Numbered'
<1>1. CASE PlaceFullNode \/ PlacePartialNode
  BY <1>1, PlaceFullShares, PlacePartialShares
<1>2. CASE ~(PlaceFullNode \/ PlacePartialNode)
  <2>1. UNCHANGED <<recipe, endpoints>>
    BY <1>2 DEF Next, vars, placing, Submit, SubmitRejected, Carve, CarveRejected,
                OutOfNodes, StartDecode, StartAgg, AllPlaced, Convert, ConvertRejected,
                AllConverted
  <2>2. Sharers'
    BY <2>1 DEF Sharers, ShareNode, LastNode
  <2>3. ASSUME phase' = "allocate", NEW i \in DOMAIN endpoints, endpoints[i].mode = mode'
        PROVE  endpoints[i].index < index'
    <3>1. CASE phase = "allocate" /\ UNCHANGED <<mode, index>>
      BY <2>3, <3>1 DEF Numbered
    <3>2. CASE StartDecode \/ StartAgg
      <4>1. Kind(endpoints[i])
        BY DEF PlacedInv, Kinds
      <4> QED
        BY <2>3, <3>2, <4>1 DEF StartDecode, StartAgg, Kind, Before
    <3>3. CASE phase = "carve"
      BY <3>3, <2>3 DEF PlacedInv, Unplaced
    <3> QED
      BY <1>2, <2>3, <3>1, <3>2, <3>3
         DEF Next, vars, placing, Submit, SubmitRejected, Carve, CarveRejected, OutOfNodes,
             AllPlaced, Convert, ConvertRejected, AllConverted
  <2> QED
    BY <2>1, <2>2, <2>3 DEF Numbered
<1> QED
  BY <1>1, <1>2

LEMMA ProcessStep == ProcessInv /\ [Next]_vars => ProcessInv'
<1> SUFFICES ASSUME ProcessInv, [Next]_vars PROVE ProcessInv'
  OBVIOUS
<1>1. PortsInv /\ PlacedInv /\ Made /\ Sharers /\ Numbered /\ TypeOK /\ Granted
  BY DEF ProcessInv, PortsInv
<1>2. PortsInv' /\ PlacedInv'
  BY <1>1, PortsStep, PlacedStep
<1>3. Made' /\ Sharers' /\ Numbered'
  BY <1>1, MadeStep, SharersStep
<1> QED
  BY <1>2, <1>3 DEF ProcessInv

-----------------------------------------------------------------------------
(* The commands                                                            *)

\* The library's induction over finite sets, in the form of a minimal element.
LEMMA LeastOf ==
  ASSUME NEW T, T \subseteq Nat, T # {}
  PROVE  \E x \in T : \A y \in T : x <= y
<1>1. PICK top \in T : top \in Nat
  OBVIOUS
<1> DEFINE S == 0..top
           C == {0..t : t \in T \cap S}
<1>2. C \subseteq FiniteSubsetsOf(S) /\ C # {}
  <2>1. \A t \in T \cap S : IsFiniteSet(0..t) /\ 0..t \subseteq S
    BY <1>1, FS_Interval
  <2>2. top \in T \cap S
    BY <1>1
  <2> QED
    BY <2>1, <2>2 DEF FiniteSubsetsOf
<1>3. IsWellFoundedOn(StrictSubsetOrdering(S), FiniteSubsetsOf(S))
  BY FS_StrictSubsetOrderingWellFounded
<1> HIDE DEF C
<1>4. \E X \in C : \A Y \in C : ~(<<Y, X>> \in StrictSubsetOrdering(S))
  BY <1>2, <1>3, WFMin
<1>5. PICK X \in C : \A Y \in C : ~(<<Y, X>> \in StrictSubsetOrdering(S))
  BY <1>4
<1>6. PICK x \in T \cap S : X = 0..x
  BY DEF C
<1>7. \A y \in T : x <= y
  <2> SUFFICES ASSUME NEW y \in T, y < x PROVE FALSE
    BY <1>1, <1>6
  <2>1. x \in Nat /\ y \in Nat /\ y \in T \cap S
    BY <1>1, <1>6
  <2>2. 0..y \in C
    BY <2>1 DEF C
  <2>3. 0..y \subseteq S /\ 0..x \subseteq S /\ 0..y \subseteq 0..x /\ x \notin 0..y /\ x \in 0..x
    BY <1>1, <1>6, <2>1
  <2>4. <<0..y, X>> \in StrictSubsetOrdering(S)
    BY <1>6, <2>3 DEF StrictSubsetOrdering
  <2> QED
    BY <1>5, <2>2, <2>4
<1> QED
  BY <1>6, <1>7

\* The worker stage has a next process as long as one is not started.
LEMMA NextUpIsLaunched ==
  ASSUME AllBelow, \E p \in Launched : ~Started(p)
  PROVE  NextUp \in Launched /\ ~Started(NextUp)
<1> DEFINE T == {p.sys : p \in {q \in Launched : ~Started(q)}}
<1>1. T \subseteq Nat /\ T # {}
  BY DEF AllBelow, Below, Launched
<1>2. PICK x \in T : \A y \in T : x <= y
  BY <1>1, LeastOf
<1>3. PICK p \in Launched : ~Started(p) /\ p.sys = x
  OBVIOUS
<1>4. \A q \in Launched : Started(q) \/ p.sys <= q.sys
  BY <1>2, <1>3
<1> QED
  BY <1>3, <1>4 DEF NextUp

\* A command depends on the recipe and the endpoints alone.
LEMMA SameCommand ==
  ASSUME UNCHANGED <<recipe, endpoints>>
  PROVE  \A p : Command(p)' = Command(p) /\ Raises(p)' = Raises(p)
<1>1. \A p : /\ MultiNode(p)' = MultiNode(p) /\ LeaderNode(p)' = LeaderNode(p)
            /\ NodeRank(p)' = NodeRank(p) /\ Mode(p)' = Mode(p)
  BY DEF MultiNode, LeaderNode, NodeRank, Mode
<1>2. \A p : NodeFlags(p)' = NodeFlags(p)
  BY <1>1 DEF NodeFlags, NoFlags
<1>3. \A p, l : LocalRankFlags(p, l)' = LocalRankFlags(p, l)
  BY <1>1 DEF LocalRankFlags, NoFlags, RpcPort
<1>4. \A p : DynamoCommand(p)' = DynamoCommand(p)
  <2> TAKE p
  <2>1. [NoFlags(p) EXCEPT !.leader = LeaderNode(p), !.dp_rank = p.rank, !.rpc = RpcPort(p)]'
           = [NoFlags(p) EXCEPT !.leader = LeaderNode(p), !.dp_rank = p.rank, !.rpc = RpcPort(p)]
    BY <1>1 DEF NoFlags, RpcPort
  <2>2. Headless(NodeFlags(p))' = Headless(NodeFlags(p))
    BY <1>2 DEF Headless
  <2>3. [Headless(NodeFlags(p)) EXCEPT !.rpc = RpcPort(p)]'
           = [Headless(NodeFlags(p)) EXCEPT !.rpc = RpcPort(p)]
    BY <2>2 DEF RpcPort
  <2>4. /\ DynamoReplica(p)' = DynamoReplica(p) /\ IsDp(recipe, Mode(p))' = IsDp(recipe, Mode(p))
        /\ NoFlags(p)' = NoFlags(p)
    BY <1>1 DEF DynamoReplica, IsDp, NoFlags
  <2>5. LocalRankFlags(p, p.size \div DynamoReplica(p))'
           = LocalRankFlags(p, p.size \div DynamoReplica(p))
    <3>1. PICK l : l = p.size \div DynamoReplica(p)
      OBVIOUS
    <3>2. (p.size \div DynamoReplica(p))' = l
      BY <2>4, <3>1
    <3>3. LocalRankFlags(p, p.size \div DynamoReplica(p))' = LocalRankFlags(p, l)'
      BY <3>2 DEF LocalRankFlags, NoFlags, RpcPort
    <3> QED
      BY <1>3, <3>1, <3>3
  <2> QED
    BY <1>1, <2>1, <2>2, <2>3, <2>4, <2>5 DEF DynamoCommand
<1>5. \A p : ServeCommand(p)' = ServeCommand(p)
  <2>1. \A p : IsRouterLocalDp(p)' = IsRouterLocalDp(p)
    BY <1>1 DEF IsRouterLocalDp, IsDp
  <2>2. \A p : ServeFlags(p)' = ServeFlags(p)
    BY <1>1, <1>2, <1>3, <2>1 DEF ServeFlags, NoFlags, RpcPort, Headless, IsDp, LocalDpSize
  <2>3. \A p : ServePort(p)' = ServePort(p)
    BY <1>1, <2>1 DEF ServePort
  <2> QED
    BY <2>2, <2>3 DEF ServeCommand
<1>6. \A p : VllmSidecarCommand(p)' = VllmSidecarCommand(p)
  BY <1>1, <1>2, <1>3 DEF VllmSidecarCommand, NoFlags, GrpcPort, IsLeader, IsDp, LocalDpSize
<1>7. \A p : SglangCommand(p)' = SglangCommand(p)
  BY <1>1, <1>2 DEF SglangCommand, NoFlags
<1>8. \A p : SglangSidecarCommand(p)' = SglangSidecarCommand(p)
  BY <1>1, <1>7 DEF SglangSidecarCommand, GrpcPort
<1>9. \A p : TrtllmCommand(p)' = TrtllmCommand(p)
  BY <1>1 DEF TrtllmCommand, NoFlags
<1>10. \A p : TrtllmSidecarCommand(p)' = TrtllmSidecarCommand(p)
  BY <1>9 DEF TrtllmSidecarCommand, GrpcPort
<1>11. \A p : Command(p)' = Command(p)
  BY <1>4, <1>5, <1>6, <1>7, <1>8, <1>9, <1>10 DEF Command, MockerCommand, NoFlags
<1>12. \A p : Raises(p)' = Raises(p)
  BY <1>1 DEF Raises, VllmRaises, TrtllmRaises, IsDp
<1> QED
  BY <1>11, <1>12

LEMMA CommandsStep ==
  ASSUME AllBelow, Commands, [LaunchNext]_allVars
  PROVE  Commands'
<1>1. CASE Prepare \/ UNCHANGED allVars
  <2>1. UNCHANGED launching
    BY <1>1 DEF Prepare, allVars
  <2>2. CASE launch = "no"
    BY <2>1, <2>2 DEF Commands, launching
  <2>3. CASE launch # "no"
    <3>1. phase = "done"
      BY <2>3 DEF Commands
    <3>2. ~Next
      BY <3>1 DEF Next, Submit, SubmitRejected, Carve, CarveRejected, MoreWorkers, LacksNodes,
                  PlaceFullNode, PlacePartialNode, OutOfNodes, StartDecode, StartAgg, AllPlaced,
                  Convert, ConvertRejected, AllConverted
    <3>3. UNCHANGED <<recipe, endpoints, processes, phase, launch, commands>>
      BY <1>1, <3>2 DEF Prepare, allVars, vars, launching
    <3>4. Launched' = Launched
      BY <3>3 DEF Launched, IsLeader
    <3> QED
      BY <3>3, <3>4, SameCommand DEF Commands, Started
  <2> QED
    BY <2>2, <2>3
<1>2. CASE BeginStage
  BY <1>2 DEF BeginStage, Commands, vars
<1>3. CASE Start \/ StartRaises \/ AllStarted
  <2>1. /\ launch = "starting" /\ launch' \in {"starting", "raised", "started"}
        /\ UNCHANGED <<recipe, endpoints, processes, phase>> /\ phase = "done"
    BY <1>3 DEF Start, StartRaises, AllStarted, vars, Commands
  <2>2. Launched' = Launched
    BY <2>1 DEF Launched, IsLeader
  <2>3. \A p : Command(p)' = Command(p) /\ Raises(p)' = Raises(p)
    BY <2>1, SameCommand
  <2>4. \A c \in commands' : \E p \in Launched : c = Command(p) /\ ~Raises(p)
    <3>1. CASE Start
      <4>1. NextUp \in Launched /\ ~Raises(NextUp)
            /\ commands' = commands \union {Command(NextUp)}
        BY <3>1, NextUpIsLaunched DEF Start
      <4> QED
        BY <4>1 DEF Commands
    <3>2. CASE StartRaises \/ AllStarted
      BY <3>2 DEF StartRaises, AllStarted, Commands
    <3> QED
      BY <1>3, <3>1, <3>2
  <2>5. launch' = "started" => \A p \in Launched : Started(p)'
    BY <1>3, <2>1 DEF Start, StartRaises, AllStarted, Started
  <2> QED
    BY <2>1, <2>2, <2>3, <2>4, <2>5 DEF Commands
<1> QED
  BY <1>1, <1>2, <1>3 DEF LaunchNext

LEMMA LaunchInvariance == LaunchSpec => []LaunchInv
<1>1. LaunchInit => LaunchInv
  <2> SUFFICES ASSUME LaunchInit PROVE LaunchInv
    OBVIOUS
  <2>1. Init /\ launch = "no" /\ commands = {}
    BY DEF LaunchInit
  <2>2. Sharers /\ Numbered
    BY <2>1 DEF Init, Sharers, Numbered
  <2>3. Commands
    BY <2>1 DEF Commands
  <2> QED
    BY <2>1, <2>2, <2>3, PortsInitial, PlacedInitial, MadeInitial DEF LaunchInv, ProcessInv
<1>2. LaunchInv /\ [LaunchNext]_allVars => LaunchInv'
  <2> SUFFICES ASSUME LaunchInv, [LaunchNext]_allVars PROVE LaunchInv'
    OBVIOUS
  <2>1. ProcessInv /\ Commands /\ AllBelow
    BY DEF LaunchInv, ProcessInv, PortsInv
  <2>2. [Next]_vars
    BY DEF LaunchNext, Prepare, BeginStage, Start, StartRaises, AllStarted, allVars
  <2> QED
    BY <2>1, <2>2, ProcessStep, CommandsStep DEF LaunchInv
<1> QED
  BY <1>1, <1>2, PTL DEF LaunchSpec

-----------------------------------------------------------------------------
(* What is known of a process when its command is built                    *)

Ready == recipe \in Recipe /\ recipe \in Recipes /\ Accepted(recipe)

\* Process k of an endpoint that was not rejected.
Engine(p, i, k) ==
    /\ i \in DOMAIN endpoints /\ endpoints[i] \in EndpointRecord /\ ~Rejected(endpoints[i])
    /\ k \in Nat /\ k < NumProcesses(endpoints[i]) /\ IsProcess(p, i, k)

\* After conversion every process is one of its endpoint, and every endpoint has its own.
LEMMA Converted ==
  ASSUME ProcessInv, phase = "done"
  PROVE  /\ Ready
         /\ \A p \in processes : \E i, k : Engine(p, i, k)
         /\ \A i \in DOMAIN endpoints :
               /\ endpoints[i] \in EndpointRecord /\ ~Rejected(endpoints[i])
               /\ NumProcesses(endpoints[i]) \in Nat \ {0}
               /\ \A k \in 0..(NumProcesses(endpoints[i]) - 1) :
                     \E p \in processes : Engine(p, i, k)
<1>1. TypeOK /\ Granted /\ Made /\ Carved
  BY DEF ProcessInv, PortsInv, PlacedInv
<1>2. Ready
  BY <1>1 DEF TypeOK, Granted, Carved, Ready
<1>3. \A i \in DOMAIN endpoints :
         /\ i < cursor.endpoint /\ endpoints[i] \in EndpointRecord
         /\ Reached(i) = NumProcesses(endpoints[i])
  <2>1. /\ cursor.endpoint > Len(endpoints) /\ cursor.endpoint \in Nat /\ Len(endpoints) \in Nat
        /\ DOMAIN endpoints = 1..Len(endpoints)
        /\ \A i \in DOMAIN endpoints : endpoints[i] \in EndpointRecord
    BY <1>1 DEF Made, TypeOK
  <2> QED
    BY <2>1 DEF Reached
<1>4. \A i \in DOMAIN endpoints :
         ~Rejected(endpoints[i]) /\ NumProcesses(endpoints[i]) \in Nat \ {0}
  BY <1>1, <1>2, <1>3, RanksFit DEF Made, Ready
<1>5. \A i \in DOMAIN endpoints : \A k \in 0..(NumProcesses(endpoints[i]) - 1) :
         \E p \in processes : Engine(p, i, k)
  <2> TAKE i \in DOMAIN endpoints
  <2> TAKE k \in 0..(NumProcesses(endpoints[i]) - 1)
  <2>1. PICK p \in processes : IsProcess(p, i, k)
    BY <1>1, <1>3 DEF Made
  <2>2. k \in Nat /\ k < NumProcesses(endpoints[i])
    BY <1>4
  <2> QED
    BY <1>3, <1>4, <2>1, <2>2 DEF Engine
<1>6. \A p \in processes : \E i, k : Engine(p, i, k)
  <2> TAKE p \in processes
  <2>1. PICK i \in DOMAIN endpoints : \E k \in 0..(Reached(i) - 1) : IsProcess(p, i, k)
    BY <1>1 DEF Made
  <2>2. PICK k \in 0..(NumProcesses(endpoints[i]) - 1) : IsProcess(p, i, k)
    BY <1>3, <2>1
  <2>3. k \in Nat /\ k < NumProcesses(endpoints[i])
    BY <1>4
  <2> QED
    BY <1>3, <1>4, <2>2, <2>3 DEF Engine
<1> QED
  BY <1>2, <1>3, <1>4, <1>5, <1>6

LEMMA RestOfSmaller == ASSUME NEW a \in Nat \ {0}, NEW b \in Nat, a < b PROVE a % b # 0
  BY SMT

LEMMA DivAtMost == ASSUME NEW a \in Nat, NEW b \in Nat \ {0} PROVE a \div b \in Nat /\ a \div b <= a
<1>1. PICK q : q = a \div b
  OBVIOUS
<1>2. q \in Nat /\ q * b <= a
  BY <1>1, SMT
<1>3. q <= q * b
  BY <1>2, SMT
<1> QED
  BY <1>1, <1>2, <1>3, TimesNat

\* The numbers of an endpoint and of its processes, layout by layout.
LEMMA EngineNumbers ==
  ASSUME Ready, NEW p, NEW i, NEW k, Engine(p, i, k)
  PROVE  LET e == endpoints[i]
             L == LocalRanks(e)
             replica == recipe.model_parallel[e.mode]
         IN  /\ e.count \in Nat \ {0} /\ e.size \in Nat /\ e.first \in Nat /\ e.mode \in Modes
             /\ replica \in Nat \ {0} /\ L \in Nat \ {0}
             /\ p.rank = k * L /\ p.ranks = L /\ p.rank \in Nat /\ (p.rank = 0 <=> k = 0)
             /\ Layout(e) \in {"whole", "own", "per_gpu", "per_node"}
             /\ Layout(e) # "per_gpu" =>
                  p.node = e.first + k /\ k < e.count /\ p.size = e.size /\ p.from = e.from
             /\ Layout(e) = "per_gpu" => replica = 1 /\ L = 1 /\ p.size = 1 /\ PerGpu
             /\ Layout(e) = "per_node" => e.size = L * replica /\ replica <= e.size /\ ~PerGpu
             /\ OwnsRanks(e) => SplitsRanks(e) /\ recipe.dp[e.mode] = NumProcesses(e) * L
             /\ SplitsRanks(e) /\ ~OwnsRanks(e) =>
                  ~PerGpu /\ replica > e.size /\ e.count > 1 /\ e.size > 0
<1> DEFINE e == endpoints[i]
           L == LocalRanks(e)
           replica == recipe.model_parallel[e.mode]
           dp == recipe.dp[e.mode]
<1>1. /\ e \in EndpointRecord /\ ~Rejected(e) /\ recipe \in Recipe /\ k \in Nat
      /\ k < NumProcesses(e) /\ IsProcess(p, i, k)
  BY DEF Engine, Ready
<1>2. /\ e.count \in Nat \ {0} /\ e.size \in Nat /\ e.first \in Nat /\ e.mode \in Modes
  BY <1>1 DEF EndpointRecord, Nodes
<1>3. replica \in Nat \ {0} /\ dp \in Nat \ {0}
  BY <1>1, <1>2 DEF Recipe
<1>4. /\ L \in Nat \ {0}
      /\ Layout(e) \in {"whole", "own", "per_gpu"} => L = 1
      /\ Layout(e) \in {"per_gpu", "per_node"} => dp = NumProcesses(e) * L
  BY <1>1, RanksFit
<1>5. Layout(e) \in {"whole", "own", "per_gpu", "per_node"}
  BY DEF Layout
<1>6. p.rank = k * L /\ p.ranks = L /\ p.rank \in Nat /\ (p.rank = 0 <=> k = 0)
  BY <1>1, <1>4, TimesNat DEF IsProcess
<1>7. Layout(e) # "per_gpu" =>
         p.node = e.first + k /\ k < e.count /\ p.size = e.size /\ p.from = e.from
  BY <1>1 DEF IsProcess, NumProcesses
<1>8. Layout(e) = "per_gpu" => replica = 1 /\ L = 1 /\ p.size = 1 /\ PerGpu /\ SplitsRanks(e)
  BY <1>1, <1>4 DEF Layout, Rejected, IsProcess
<1>9. Layout(e) = "per_node" =>
         e.size = L * replica /\ replica <= e.size /\ ~PerGpu /\ SplitsRanks(e)
  <2> SUFFICES ASSUME Layout(e) = "per_node"
               PROVE  e.size = L * replica /\ replica <= e.size /\ ~PerGpu /\ SplitsRanks(e)
    OBVIOUS
  <2>1. ~PerGpu /\ SplitsRanks(e) /\ replica <= e.size /\ e.size % replica = 0
    BY <1>1, <1>2, <1>3 DEF Layout, Rejected
  <2>2. L = e.size \div replica
    BY DEF LocalRanks
  <2> QED
    BY <1>2, <1>3, <2>1, <2>2, DivExact
<1>10. SplitsRanks(e) /\ ~OwnsRanks(e) =>
         ~PerGpu /\ replica > e.size /\ e.count > 1 /\ e.size > 0
  <2> SUFFICES ASSUME SplitsRanks(e), ~OwnsRanks(e)
               PROVE  ~PerGpu /\ replica > e.size /\ e.count > 1 /\ e.size > 0
    OBVIOUS
  <2>1. ~PerGpu /\ replica > e.size
    BY <1>2, <1>3 DEF OwnsRanks, Layout
  <2>2. dp * replica = e.count * e.size /\ ~(e.count < 2)
    BY <1>1, <2>1 DEF Rejected
  <2>3. e.size # 0
    <3>1. e.size = 0 => e.count * e.size = 0
      BY <1>2
    <3>2. dp * replica # 0
      BY <1>3, SMT
    <3> QED
      BY <2>2, <3>1, <3>2
  <2> QED
    BY <1>2, <2>1, <2>2, <2>3
<1>11. OwnsRanks(e) => SplitsRanks(e) /\ dp = NumProcesses(e) * L
  BY <1>4, <1>8, <1>9 DEF OwnsRanks
<1> QED
  BY <1>2, <1>3, <1>4, <1>5, <1>6, <1>7, <1>8, <1>9, <1>10, <1>11

-----------------------------------------------------------------------------
(* What a command tells                                                    *)

\* Whose command it is, and at which addresses it serves and meets.
Addressed(c, p, i) ==
    LET e == endpoints[i]
    IN  /\ c.endpoint = i /\ c.node = p.node /\ c.from = p.from /\ c.size = p.size
        /\ \/ c.serves \in {None, p.http}
           \/ c.serves = FrontendPort /\ e.mode = "agg" /\ recipe.frontend \in {"vllm", "trtllm_serve"}
        /\ c.nnodes # None => e.count > 1
        /\ c.leader # None => c.leader = e.first
        /\ c.leader # None /\ e.count = 1 => OwnsRanks(e) /\ c.rpc = p.rpc

\* The three ways in which the engines of an endpoint find each other.
SpansNodes(e) == recipe.backend # "trtllm" /\ ~OwnsRanks(e) /\ e.count > 1
SharesRanks(e) == OwnsRanks(e) /\ (recipe.frontend = "dynamo" \/ e.count > 1)
StandsAlone(e) == ~SpansNodes(e) /\ ~SharesRanks(e)

\* The command of process k says its part of it.
Fits(c, p, i, k) ==
    LET e == endpoints[i]
    IN  /\ c.grpc # None <=> recipe.sidecar /\ k = 0
        /\ SpansNodes(e) =>
             /\ c.nnodes = e.count /\ c.leader = e.first /\ c.node_rank = k
             /\ c.serves # None <=> k = 0
        /\ SharesRanks(e) =>
             /\ c.nnodes = None /\ c.leader = e.first /\ c.rpc = p.rpc
             /\ Ranks(c) = p.rank..(p.rank + p.ranks - 1)
             /\ p.ranks * recipe.model_parallel[e.mode] = c.size
             /\ c.headless \/ c.hybrid \/ p.rank = 0 \/ c.dp_rank # None
        /\ StandsAlone(e) =>
             /\ c.nnodes = None /\ c.rpc = None /\ c.leader = None /\ c.serves # None
             /\ c.tasks = e.count * e.size \/ e.count = 1

\* What the commands read of a process.
LEMMA ProcessReads ==
  ASSUME Ready, NEW p, NEW i, NEW k, Engine(p, i, k)
  PROVE  LET e == endpoints[i]
         IN  /\ MultiNode(p) <=> e.count > 1
             /\ LeaderNode(p) = e.first /\ Mode(p) = e.mode
             /\ IsLeader(p) <=> k = 0
             /\ k \in Nat /\ e.count \in Nat \ {0} /\ e.first \in Nat
             /\ Layout(e) # "per_gpu" => NodeRank(p) = k /\ k < e.count
             /\ k = 0 => p.http # None
             /\ ~OwnsRanks(e) => (p.http # None <=> k = 0)
             /\ p.rpc # None <=> OwnsRanks(e)
             /\ RpcPort(p) = IF OwnsRanks(e) THEN p.rpc ELSE 0
<1>1. /\ p.endpoint = i /\ k \in Nat
      /\ p.http # None <=> k = 0 \/ Layout(endpoints[i]) = "per_node"
      /\ p.rpc # None <=> OwnsRanks(endpoints[i])
  BY DEF Engine, IsProcess
<1>2. /\ endpoints[i].count \in Nat \ {0} /\ endpoints[i].first \in Nat
      /\ Layout(endpoints[i]) # "per_gpu" =>
           p.node = endpoints[i].first + k /\ k < endpoints[i].count
      /\ p.rank = 0 <=> k = 0
  BY EngineNumbers
<1> QED
  BY <1>1, <1>2 DEF MultiNode, LeaderNode, Mode, IsLeader, NodeRank, RpcPort, Or, OwnsRanks

LEMMA NodeFields ==
  ASSUME NEW p, NEW c,
         \/ c = Headless(NodeFlags(p))
         \/ c = [Headless(NodeFlags(p)) EXCEPT !.rpc = RpcPort(p)]
  PROVE  /\ c.endpoint = p.endpoint /\ c.node = p.node /\ c.from = p.from /\ c.size = p.size
         /\ c.leader = LeaderNode(p) /\ c.nnodes = endpoints[p.endpoint].count
         /\ c.node_rank = NodeRank(p) /\ c.grpc = None
         /\ c.serves = IF NodeRank(p) > 0 THEN None ELSE p.http
         /\ \A port : LET d == [c EXCEPT !.serves = port]
                      IN  /\ d.endpoint = c.endpoint /\ d.node = c.node /\ d.from = c.from
                          /\ d.size = c.size /\ d.leader = c.leader /\ d.nnodes = c.nnodes
                          /\ d.node_rank = c.node_rank /\ d.grpc = c.grpc /\ d.serves = port
<1>1. NodeFlags(p).node_rank = NodeRank(p)
  BY DEF NodeFlags, NoFlags
<1>2. CASE NodeRank(p) > 0
  <2>1. Headless(NodeFlags(p)) = [NodeFlags(p) EXCEPT !.headless = TRUE, !.serves = None]
    BY <1>1, <1>2 DEF Headless
  <2>2. CASE c = [NodeFlags(p) EXCEPT !.headless = TRUE, !.serves = None]
    BY <1>2, <2>2 DEF NodeFlags, NoFlags
  <2>3. CASE c = [[NodeFlags(p) EXCEPT !.headless = TRUE, !.serves = None] EXCEPT !.rpc = RpcPort(p)]
    BY <1>2, <2>3 DEF NodeFlags, NoFlags
  <2> QED
    BY <2>1, <2>2, <2>3
<1>3. CASE ~(NodeRank(p) > 0)
  <2>1. Headless(NodeFlags(p)) = NodeFlags(p)
    BY <1>1, <1>3 DEF Headless
  <2>2. CASE c = NodeFlags(p)
    BY <1>3, <2>2 DEF NodeFlags, NoFlags
  <2>3. CASE c = [NodeFlags(p) EXCEPT !.rpc = RpcPort(p)]
    BY <1>3, <2>3 DEF NodeFlags, NoFlags
  <2> QED
    BY <2>1, <2>2, <2>3
<1> QED
  BY <1>2, <1>3

\* The flags of an engine over several nodes, with the RPC port or without.
LEMMA NodeFlagsFit ==
  ASSUME Ready, NEW p, NEW i, NEW k, Engine(p, i, k), endpoints[i].count > 1,
         recipe.backend # "trtllm", ~recipe.sidecar, NEW c,
         \/ c = Headless(NodeFlags(p))
         \/ c = [Headless(NodeFlags(p)) EXCEPT !.rpc = RpcPort(p)],
         ~OwnsRanks(endpoints[i])
  PROVE  Addressed(c, p, i) /\ Fits(c, p, i, k)
<1> DEFINE e == endpoints[i]
<1>1. /\ LeaderNode(p) = e.first /\ k \in Nat /\ e.count \in Nat \ {0}
      /\ NodeRank(p) = k /\ (p.http # None <=> k = 0) /\ e.first \in Nat
  BY ProcessReads DEF OwnsRanks
<1>2. /\ c.endpoint = p.endpoint /\ c.node = p.node /\ c.from = p.from /\ c.size = p.size
      /\ c.leader = e.first /\ c.nnodes = e.count /\ c.node_rank = k /\ c.grpc = None
      /\ c.serves = IF k > 0 THEN None ELSE p.http
  <2>1. endpoints[p.endpoint] = e
    BY DEF Engine, IsProcess
  <2> QED
    BY <1>1, <2>1, NodeFields
<1>3. p.endpoint = i
  BY DEF Engine, IsProcess
<1>4. c.serves # None <=> k = 0
  BY <1>1, <1>2
<1>5. Addressed(c, p, i)
  BY <1>1, <1>2, <1>3 DEF Addressed
<1>6. SpansNodes(e)
  BY DEF SpansNodes
<1>7. ~SharesRanks(e) /\ ~StandsAlone(e)
  BY <1>6 DEF SharesRanks, StandsAlone
<1> QED
  BY <1>2, <1>4, <1>5, <1>7 DEF Fits

LEMMA LocalFields ==
  ASSUME NEW p, NEW l, NEW c,
         \/ c = LocalRankFlags(p, l)
         \/ \E port : c = [LocalRankFlags(p, l) EXCEPT !.serves = port]
  PROVE  /\ c.leader = LeaderNode(p) /\ c.rpc = RpcPort(p) /\ c.nnodes = None /\ c.grpc = None
         /\ c.size = p.size /\ c.hybrid /\ c.dp_rank = None /\ c.start = p.rank
         /\ c.local = l
<1>1. CASE c = LocalRankFlags(p, l)
  BY <1>1 DEF LocalRankFlags, NoFlags
<1>2. CASE \E port : c = [LocalRankFlags(p, l) EXCEPT !.serves = port]
  <2>1. PICK port : c = [LocalRankFlags(p, l) EXCEPT !.serves = port]
    BY <1>2
  <2>2. /\ c.leader = LeaderNode(p) /\ c.rpc = RpcPort(p) /\ c.nnodes = None /\ c.grpc = None
        /\ c.size = p.size
    BY <2>1 DEF LocalRankFlags, NoFlags
  <2>3. c.hybrid /\ c.dp_rank = None /\ c.start = p.rank /\ c.local = l
    BY <2>1 DEF LocalRankFlags, NoFlags
  <2> QED
    BY <2>2, <2>3
<1> QED
  BY <1>1, <1>2

\* The flags of an engine that holds a part of the ranks.
LEMMA LocalFlagsFit ==
  ASSUME Ready, NEW p, NEW i, NEW k, Engine(p, i, k), ~recipe.sidecar,
         SharesRanks(endpoints[i]),
         p.ranks * recipe.model_parallel[endpoints[i].mode] = p.size,
         NEW c,
         \/ c = LocalRankFlags(p, LocalRanks(endpoints[i]))
         \/ \E port : c = [LocalRankFlags(p, LocalRanks(endpoints[i])) EXCEPT !.serves = port]
  PROVE  Fits(c, p, i, k)
<1> DEFINE e == endpoints[i]
<1>1. OwnsRanks(e) /\ LeaderNode(p) = e.first /\ RpcPort(p) = p.rpc
  BY ProcessReads DEF SharesRanks
<1>2. p.rank \in Nat /\ p.ranks = LocalRanks(e)
  BY EngineNumbers
<1>3. /\ c.leader = e.first /\ c.rpc = p.rpc /\ c.nnodes = None /\ c.grpc = None
      /\ c.size = p.size /\ c.hybrid /\ c.dp_rank = None /\ c.start = p.rank
      /\ c.local = p.ranks
  <2>1. PICK l : l = LocalRanks(e)
    OBVIOUS
  <2>2. \/ c = LocalRankFlags(p, l)
        \/ \E port : c = [LocalRankFlags(p, l) EXCEPT !.serves = port]
    BY <2>1
  <2>3. /\ c.leader = LeaderNode(p) /\ c.rpc = RpcPort(p) /\ c.nnodes = None /\ c.grpc = None
        /\ c.size = p.size /\ c.hybrid /\ c.dp_rank = None /\ c.start = p.rank
        /\ c.local = l
    BY ONLY <2>2, LocalFields
  <2> QED
    BY <1>1, <1>2, <2>1, <2>3
<1>4. p.rank # None
  BY <1>2, NoneAssumption
<1>5. Ranks(c) = p.rank..(p.rank + p.ranks - 1)
  BY <1>3, <1>4 DEF Ranks, Or
<1> QED
  BY <1>1, <1>3, <1>5 DEF Fits, SpansNodes, StandsAlone

LEMMA DynamoFits ==
  ASSUME Ready, NEW p, NEW i, NEW k, Engine(p, i, k), recipe.backend = "vllm",
         ~recipe.sidecar, recipe.frontend = "dynamo"
  PROVE  /\ Addressed(DynamoCommand(p), p, i)
         /\ CountsReplicas(recipe) => Fits(DynamoCommand(p), p, i, k)
<1> DEFINE c == DynamoCommand(p)
           e == endpoints[i]
           mp == recipe.model_parallel[e.mode]
<1>1. /\ MultiNode(p) <=> e.count > 1
      /\ LeaderNode(p) = e.first /\ Mode(p) = e.mode
      /\ k \in Nat /\ e.count \in Nat \ {0} /\ e.first \in Nat
      /\ Layout(e) # "per_gpu" => NodeRank(p) = k /\ k < e.count
      /\ k = 0 => p.http # None
      /\ ~OwnsRanks(e) => (p.http # None <=> k = 0)
      /\ p.rpc # None <=> OwnsRanks(e)
      /\ RpcPort(p) = IF OwnsRanks(e) THEN p.rpc ELSE 0
  BY ProcessReads
<1>2. /\ e.size \in Nat /\ e.mode \in Modes /\ mp \in Nat \ {0} /\ LocalRanks(e) \in Nat \ {0}
      /\ p.rank \in Nat /\ p.ranks = LocalRanks(e)
      /\ Layout(e) # "per_gpu" => p.size = e.size
      /\ Layout(e) = "per_gpu" => mp = 1 /\ LocalRanks(e) = 1 /\ p.size = 1 /\ PerGpu
      /\ Layout(e) = "per_node" => e.size = LocalRanks(e) * mp /\ mp <= e.size /\ ~PerGpu
      /\ OwnsRanks(e) => SplitsRanks(e)
      /\ SplitsRanks(e) /\ ~OwnsRanks(e) => ~PerGpu /\ mp > e.size /\ e.count > 1
  BY EngineNumbers
<1>3. /\ SplitsRanks(e) <=> IsDp(recipe, e.mode)
      /\ PerGpu <=> recipe.dp_launch_mode = "per_gpu"
      /\ OwnsRanks(e) <=> Layout(e) \in {"per_gpu", "per_node"}
  BY DEF SplitsRanks, PerGpu, OwnsRanks
<1>4. CountsReplicas(recipe) /\ IsDp(recipe, e.mode) => DynamoReplica(p) = mp
  BY <1>1, <1>2 DEF DynamoReplica, CountsReplicas
<1>5. DynamoReplica(p) > p.size => mp > p.size
  <2>1. recipe.pcp[e.mode] \in Nat \ {0}
    BY <1>2 DEF Ready, Recipe
  <2>2. DynamoReplica(p) \in Nat /\ DynamoReplica(p) <= mp
    BY <1>1, <1>2, <2>1, DivAtMost DEF DynamoReplica
  <2>3. p.size \in Nat
    BY <1>1, <1>2
  <2> QED
    BY <1>2, <2>2, <2>3
<1>6. CASE ~IsDp(recipe, e.mode) /\ e.count = 1
  <2>1. c = NoFlags(p)
    BY <1>1, <1>6 DEF DynamoCommand
  <2>2. Addressed(c, p, i)
    BY <1>1, <2>1 DEF NoFlags, Addressed, Engine, IsProcess
  <2>3. k = 0 /\ ~OwnsRanks(e)
    BY <1>1, <1>2, <1>3, <1>6
  <2> QED
    BY <1>1, <1>6, <2>1, <2>2, <2>3 DEF NoFlags, Fits, SpansNodes, SharesRanks
<1>7. CASE ~IsDp(recipe, e.mode) /\ e.count > 1
  <2>1. c = Headless(NodeFlags(p)) /\ ~OwnsRanks(e)
    BY <1>1, <1>2, <1>3, <1>7 DEF DynamoCommand
  <2> QED
    BY <1>7, <2>1, NodeFlagsFit
<1>8. CASE IsDp(recipe, e.mode) /\ recipe.dp_launch_mode = "per_gpu"
  <2>1. /\ c = [NoFlags(p) EXCEPT !.leader = LeaderNode(p), !.dp_rank = p.rank,
                                  !.rpc = RpcPort(p)]
        /\ Layout(e) = "per_gpu" /\ OwnsRanks(e)
    BY <1>1, <1>3, <1>8 DEF DynamoCommand, Layout
  <2>2. Addressed(c, p, i)
    BY <1>1, <2>1 DEF NoFlags, Addressed, Engine, IsProcess
  <2>3. Ranks(c) = p.rank..(p.rank + p.ranks - 1) /\ c.dp_rank # None
    <3>1. p.rank # None /\ c.dp_rank = p.rank
      BY <1>2, <2>1, NoneAssumption DEF NoFlags
    <3>2. Ranks(c) = {p.rank}
      BY <3>1 DEF Ranks
    <3>3. p.rank + p.ranks - 1 = p.rank
      BY <1>2, <2>1
    <3> QED
      BY <1>2, <3>1, <3>2, <3>3
  <2>4. p.ranks * mp = c.size
    BY <1>2, <2>1 DEF NoFlags
  <2>5. c.nnodes = None /\ c.leader = e.first /\ c.rpc = p.rpc /\ c.grpc = None
    BY <1>1, <2>1 DEF NoFlags
  <2> QED
    BY <2>1, <2>2, <2>3, <2>4, <2>5 DEF Fits, SpansNodes, SharesRanks, StandsAlone
<1>9. CASE IsDp(recipe, e.mode) /\ recipe.dp_launch_mode # "per_gpu" /\ DynamoReplica(p) > p.size
  <2>1. mp > e.size
    BY <1>2, <1>3, <1>5, <1>9
  <2>2. ~OwnsRanks(e) /\ e.count > 1
    BY <1>2, <1>3, <1>9, <2>1
  <2>3. c = [Headless(NodeFlags(p)) EXCEPT !.rpc = RpcPort(p)]
    BY <1>1, <1>9 DEF DynamoCommand
  <2> QED
    BY <2>2, <2>3, NodeFlagsFit
<1>10. CASE IsDp(recipe, e.mode) /\ recipe.dp_launch_mode # "per_gpu" /\ ~(DynamoReplica(p) > p.size)
  <2>1. c = LocalRankFlags(p, p.size \div DynamoReplica(p))
    BY <1>1, <1>10 DEF DynamoCommand
  <2>2. OwnsRanks(e) \/ e.count > 1
    BY <1>2, <1>3, <1>10
  <2>3. Addressed(c, p, i)
    BY <1>1, <2>1, <2>2 DEF LocalRankFlags, NoFlags, Addressed, Engine, IsProcess
  <2>4. ASSUME CountsReplicas(recipe) PROVE Fits(c, p, i, k)
    <3>1. Layout(e) = "per_node" /\ p.size = e.size
      <4>1. DynamoReplica(p) = mp /\ ~(mp > p.size) /\ ~PerGpu
        BY <1>3, <1>4, <1>10, <2>4
      <4>2. Layout(e) # "per_gpu"
        BY <1>2, <4>1
      <4>3. ~(mp > e.size)
        BY <1>2, <4>1, <4>2
      <4> QED
        BY <1>2, <1>3, <1>10, <4>1, <4>2, <4>3 DEF Layout
    <3>2. p.size \div DynamoReplica(p) = LocalRanks(e)
      BY <1>4, <1>10, <2>4, <3>1 DEF LocalRanks
    <3>3. OwnsRanks(e) /\ p.ranks * mp = p.size
      BY <1>2, <1>3, <3>1
    <3>4. c = LocalRankFlags(p, LocalRanks(e))
      BY <2>1, <3>2
    <3>5. SharesRanks(e)
      BY <3>3 DEF SharesRanks
    <3> QED
      BY <3>3, <3>4, <3>5, LocalFlagsFit
  <2> QED
    BY <2>3, <2>4
<1> QED
  BY <1>1, <1>6, <1>7, <1>8, <1>9, <1>10

LEMMA ServeFits ==
  ASSUME Ready, NEW p, NEW i, NEW k, Engine(p, i, k), recipe.backend = "vllm",
         ~recipe.sidecar, recipe.frontend # "dynamo", ~VllmRaises(p)
  PROVE  Addressed(ServeCommand(p), p, i) /\ Fits(ServeCommand(p), p, i, k)
<1> DEFINE c == ServeCommand(p)
           e == endpoints[i]
           mp == recipe.model_parallel[e.mode]
<1>1. /\ MultiNode(p) <=> e.count > 1
      /\ LeaderNode(p) = e.first /\ Mode(p) = e.mode
      /\ k \in Nat /\ e.count \in Nat \ {0} /\ e.first \in Nat
      /\ Layout(e) # "per_gpu" => NodeRank(p) = k /\ k < e.count
      /\ k = 0 => p.http # None
      /\ ~OwnsRanks(e) => (p.http # None <=> k = 0)
      /\ p.rpc # None <=> OwnsRanks(e)
      /\ RpcPort(p) = IF OwnsRanks(e) THEN p.rpc ELSE 0
  BY ProcessReads
<1>0. p.endpoint = i /\ endpoints[p.endpoint] = e
  BY DEF Engine, IsProcess
<1>2. /\ e.size \in Nat /\ e.mode \in Modes /\ mp \in Nat \ {0} /\ LocalRanks(e) \in Nat \ {0}
      /\ p.rank \in Nat /\ p.ranks = LocalRanks(e)
      /\ Layout(e) # "per_gpu" => p.size = e.size
      /\ Layout(e) = "per_gpu" => PerGpu
      /\ Layout(e) = "per_node" => e.size = LocalRanks(e) * mp /\ mp <= e.size /\ ~PerGpu
      /\ OwnsRanks(e) => SplitsRanks(e)
      /\ SplitsRanks(e) /\ ~OwnsRanks(e) => ~PerGpu /\ mp > e.size /\ e.count > 1
  BY EngineNumbers
<1>3. /\ SplitsRanks(e) <=> IsDp(recipe, e.mode) /\ recipe.frontend # "vllm"
      /\ OwnsRanks(e) <=> Layout(e) \in {"per_gpu", "per_node"}
  BY DEF SplitsRanks, OwnsRanks
<1>4. recipe.frontend \in {"vllm", "vllm-router"}
  BY DEF Ready, Recipe, Frontends, Accepted, AcceptsDirect, AcceptsRouter
<1>5. recipe.frontend = "vllm" => e.mode = "agg"
  BY <1>1 DEF VllmRaises
<1>6. Layout(e) # "per_gpu"
  <2> SUFFICES ASSUME Layout(e) = "per_gpu" PROVE FALSE
    OBVIOUS
  <2>1. PerGpu /\ IsDp(recipe, e.mode) /\ recipe.frontend = "vllm-router"
    BY <1>2, <1>3, <1>4
  <2> QED
    BY <1>2, <2>1 DEF Ready, Accepted, AcceptsRouter, PerGpu
<1>7. None # FrontendPort
  BY NoneAssumption DEF FrontendPort
<1>8. IsRouterLocalDp(p) <=> OwnsRanks(e) /\ e.count > 1
  <2>1. OwnsRanks(e) <=> SplitsRanks(e) /\ mp <= e.size
    BY <1>2, <1>3, <1>6
  <2> QED
    BY <1>1, <1>2, <1>3, <1>4, <1>6, <2>1 DEF IsRouterLocalDp
<1>9. CASE IsRouterLocalDp(p)
  <2>1. OwnsRanks(e) /\ e.count > 1 /\ Layout(e) = "per_node" /\ recipe.frontend = "vllm-router"
    BY <1>3, <1>6, <1>8, <1>9 DEF IsRouterLocalDp
  <2>2. LocalDpSize(p) = LocalRanks(e) /\ p.ranks * mp = p.size
    BY <1>1, <1>2, <2>1 DEF LocalDpSize, LocalRanks
  <2>3. c = [LocalRankFlags(p, LocalRanks(e)) EXCEPT !.serves = p.http]
    BY <1>9, <2>1, <2>2 DEF ServeCommand, ServeFlags, ServePort
  <2>4. Addressed(c, p, i)
    BY <1>0, <1>1, <2>1, <2>3 DEF LocalRankFlags, NoFlags, Addressed
  <2>5. SharesRanks(e)
    BY <2>1 DEF SharesRanks
  <2> QED
    BY <2>2, <2>3, <2>4, <2>5, LocalFlagsFit
<1>10. CASE ~IsRouterLocalDp(p) /\ e.count = 1
  <2>1. k = 0 /\ NodeRank(p) = 0
    BY <1>1, <1>6, <1>10
  <2>2. PICK port : port = IF recipe.frontend = "vllm" THEN FrontendPort ELSE p.http
    OBVIOUS
  <2>3. c = [NoFlags(p) EXCEPT !.serves = port]
    BY <1>1, <1>10, <2>1, <2>2 DEF ServeCommand, ServeFlags, ServePort
  <2>4. port # None
    BY <1>1, <1>7, <2>1, <2>2
  <2>5. Addressed(c, p, i)
    BY <1>0, <1>1, <1>5, <2>2, <2>3 DEF NoFlags, Addressed
  <2>6. ~SpansNodes(e) /\ ~SharesRanks(e)
    BY <1>1, <1>10 DEF SpansNodes, SharesRanks
  <2> QED
    BY <1>10, <2>3, <2>4, <2>5, <2>6 DEF NoFlags, Fits
<1>11. CASE ~IsRouterLocalDp(p) /\ e.count > 1
  <2>1. ~OwnsRanks(e)
    BY <1>8, <1>11
  <2>2. PICK h : h = ServeFlags(p)
    OBVIOUS
  <2>3. PICK port : port = IF k # 0 THEN None ELSE IF recipe.frontend = "vllm" THEN FrontendPort
                           ELSE p.http
    OBVIOUS
  <2>4. \/ h = Headless(NodeFlags(p))
        \/ h = [Headless(NodeFlags(p)) EXCEPT !.rpc = RpcPort(p)]
    BY <1>1, <1>11, <2>2 DEF ServeFlags
  <2>5. c = [h EXCEPT !.serves = port]
    BY <1>1, <1>6, <1>11, <2>2, <2>3 DEF ServeCommand, ServePort
  <2>6. /\ c.endpoint = p.endpoint /\ c.node = p.node /\ c.from = p.from /\ c.size = p.size
        /\ c.leader = e.first /\ c.nnodes = e.count /\ c.node_rank = k /\ c.grpc = None
        /\ c.serves = port
    BY <1>0, <1>1, <1>6, <2>4, <2>5, NodeFields
  <2>7. port # None <=> k = 0
    BY <1>1, <1>7, <2>3
  <2>8. Addressed(c, p, i)
    BY <1>0, <1>1, <1>5, <1>11, <2>3, <2>6 DEF Addressed
  <2>9. ~SharesRanks(e) /\ ~StandsAlone(e)
    BY <1>11, <2>1 DEF SharesRanks, StandsAlone, SpansNodes
  <2> QED
    BY <2>6, <2>7, <2>8, <2>9 DEF Fits
<1> QED
  BY <1>1, <1>9, <1>10, <1>11

LEMMA VllmSidecarFits ==
  ASSUME Ready, NEW p, NEW i, NEW k, Engine(p, i, k), recipe.backend = "vllm",
         recipe.sidecar, ~VllmRaises(p), p.sys # None
  PROVE  Addressed(VllmSidecarCommand(p), p, i) /\ Fits(VllmSidecarCommand(p), p, i, k)
<1> DEFINE c == VllmSidecarCommand(p)
           e == endpoints[i]
           mp == recipe.model_parallel[e.mode]
<1>1. /\ MultiNode(p) <=> e.count > 1
      /\ LeaderNode(p) = e.first /\ Mode(p) = e.mode /\ (IsLeader(p) <=> k = 0)
      /\ k \in Nat /\ e.count \in Nat \ {0}
      /\ Layout(e) # "per_gpu" => NodeRank(p) = k /\ k < e.count
      /\ k = 0 => p.http # None
      /\ p.rpc # None <=> OwnsRanks(e)
      /\ RpcPort(p) = IF OwnsRanks(e) THEN p.rpc ELSE 0
  BY ProcessReads
<1>0. p.endpoint = i
  BY DEF Engine, IsProcess
<1>2. /\ e.size \in Nat /\ mp \in Nat \ {0} /\ LocalRanks(e) \in Nat \ {0}
      /\ p.rank \in Nat /\ p.ranks = LocalRanks(e) /\ (p.rank = 0 <=> k = 0)
      /\ Layout(e) # "per_gpu" => p.size = e.size
      /\ Layout(e) = "per_gpu" => PerGpu
      /\ Layout(e) = "per_node" => e.size = LocalRanks(e) * mp
      /\ OwnsRanks(e) => SplitsRanks(e)
      /\ SplitsRanks(e) /\ ~OwnsRanks(e) => mp > e.size /\ e.size > 0
  BY EngineNumbers
<1>3. /\ recipe.frontend = "dynamo" /\ ~PerGpu
      /\ SplitsRanks(e) <=> IsDp(recipe, e.mode)
      /\ OwnsRanks(e) <=> Layout(e) \in {"per_gpu", "per_node"}
  BY DEF Ready, Accepted, AcceptsSidecar, PerGpu, SplitsRanks, OwnsRanks
<1>4. Layout(e) # "per_gpu"
  BY <1>2, <1>3
<1>5. CASE ~IsDp(recipe, e.mode)
  <2>1. e.count = 1 /\ k = 0 /\ ~OwnsRanks(e)
    BY <1>1, <1>2, <1>3, <1>4, <1>5 DEF VllmRaises
  <2>2. c = [NoFlags(p) EXCEPT !.grpc = p.sys]
    BY <1>1, <1>5 DEF VllmSidecarCommand, GrpcPort
  <2>3. Addressed(c, p, i)
    BY <1>0, <1>1, <2>2 DEF NoFlags, Addressed
  <2>4. ~SpansNodes(e) /\ ~SharesRanks(e)
    BY <2>1 DEF SpansNodes, SharesRanks
  <2> QED
    BY <1>1, <2>1, <2>2, <2>3, <2>4 DEF NoFlags, Fits
<1>6. CASE IsDp(recipe, e.mode)
  <2>1. OwnsRanks(e)
    <3> SUFFICES ASSUME ~OwnsRanks(e) PROVE FALSE
      OBVIOUS
    <3>1. e.size \in Nat \ {0} /\ e.size < mp
      BY <1>2, <1>3, <1>6
    <3>2. e.size % mp # 0
      BY <1>2, <3>1, RestOfSmaller
    <3> QED
      BY <1>1, <1>2, <1>4, <1>6, <3>2 DEF VllmRaises
  <2>2. Layout(e) = "per_node" /\ SharesRanks(e)
    BY <1>3, <1>4, <2>1 DEF SharesRanks
  <2>3. LocalDpSize(p) = p.ranks /\ p.ranks * mp = p.size
    BY <1>1, <1>2, <2>2 DEF LocalDpSize, LocalRanks
  <2>4. /\ c.endpoint = p.endpoint /\ c.node = p.node /\ c.from = p.from /\ c.size = p.size
        /\ c.leader = LeaderNode(p) /\ c.nnodes = None /\ c.dp_rank = None
        /\ c.rpc = RpcPort(p) /\ c.local = LocalDpSize(p)
        /\ c.start = (IF IsLeader(p) THEN None ELSE p.rank)
        /\ c.headless = ~IsLeader(p)
        /\ c.serves = (IF IsLeader(p) THEN p.http ELSE None)
        /\ c.grpc = (IF IsLeader(p) THEN p.sys ELSE None)
    BY <1>1, <1>6 DEF VllmSidecarCommand, LocalRankFlags, NoFlags, GrpcPort
  <2>5. Addressed(c, p, i)
    BY <1>0, <1>1, <2>1, <2>4 DEF Addressed
  <2>6. Ranks(c) = p.rank..(p.rank + p.ranks - 1)
    <3>1. Or(c.start, 0) = p.rank
      BY <1>1, <1>2, <2>4, NoneAssumption DEF Or
    <3> QED
      BY <2>3, <2>4, <3>1 DEF Ranks
  <2>7. c.grpc # None <=> k = 0
    BY <1>1, <2>4
  <2>8. c.headless \/ p.rank = 0
    BY <1>1, <1>2, <2>4
  <2> QED
    BY <1>1, <2>1, <2>2, <2>3, <2>4, <2>5, <2>6, <2>7, <2>8 DEF Fits, SpansNodes, StandsAlone
<1> QED
  BY <1>5, <1>6

\* No other backend splits its ranks.
LEMMA PlainProcess ==
  ASSUME Ready, NEW p, NEW i, NEW k, Engine(p, i, k), recipe.backend # "vllm"
  PROVE  ~OwnsRanks(endpoints[i]) /\ Layout(endpoints[i]) # "per_gpu"
<1>1. OwnsRanks(endpoints[i]) => SplitsRanks(endpoints[i])
  BY EngineNumbers
<1> QED
  BY <1>1 DEF SplitsRanks, IsDp, OwnsRanks

LEMMA SglangFits ==
  ASSUME Ready, NEW p, NEW i, NEW k, Engine(p, i, k), recipe.backend = "sglang",
         p.sys # None, NEW c,
         c = IF recipe.sidecar THEN SglangSidecarCommand(p) ELSE SglangCommand(p)
  PROVE  Addressed(c, p, i) /\ Fits(c, p, i, k)
<1> DEFINE e == endpoints[i]
<1>1. /\ MultiNode(p) <=> e.count > 1
      /\ LeaderNode(p) = e.first /\ k \in Nat /\ e.count \in Nat \ {0}
      /\ NodeRank(p) = k /\ k < e.count
      /\ p.http # None <=> k = 0
      /\ ~OwnsRanks(e)
  BY ProcessReads, PlainProcess
<1>0. p.endpoint = i
  BY DEF Engine, IsProcess
<1>2. PICK b : b = SglangCommand(p)
  OBVIOUS
<1>3. c = IF recipe.sidecar THEN [b EXCEPT !.grpc = IF k = 0 THEN p.sys ELSE None] ELSE b
  BY <1>1, <1>2 DEF SglangSidecarCommand, GrpcPort
<1>4. CASE e.count > 1
  <2>1. b = NodeFlags(p)
    BY <1>1, <1>2, <1>4 DEF SglangCommand
  <2>2. /\ c.endpoint = p.endpoint /\ c.node = p.node /\ c.from = p.from /\ c.size = p.size
        /\ c.leader = LeaderNode(p) /\ c.nnodes = endpoints[p.endpoint].count
        /\ c.node_rank = NodeRank(p) /\ c.serves = p.http
        /\ c.grpc = IF recipe.sidecar /\ k = 0 THEN p.sys ELSE None
    <3>1. CASE recipe.sidecar
      <4>1. PICK port : port = IF k = 0 THEN p.sys ELSE None
        OBVIOUS
      <4>2. c = [NodeFlags(p) EXCEPT !.grpc = port]
        BY <1>3, <2>1, <3>1, <4>1
      <4>3. /\ c.endpoint = p.endpoint /\ c.node = p.node /\ c.from = p.from /\ c.size = p.size
            /\ c.leader = LeaderNode(p) /\ c.nnodes = endpoints[p.endpoint].count
            /\ c.node_rank = NodeRank(p) /\ c.serves = p.http /\ c.grpc = port
        BY ONLY <4>2 DEF NodeFlags, NoFlags
      <4> QED
        BY <3>1, <4>1, <4>3
    <3>2. CASE ~recipe.sidecar
      <4>1. c = NodeFlags(p)
        BY <1>3, <2>1, <3>2
      <4>2. /\ c.endpoint = p.endpoint /\ c.node = p.node /\ c.from = p.from /\ c.size = p.size
            /\ c.leader = LeaderNode(p) /\ c.nnodes = endpoints[p.endpoint].count
            /\ c.node_rank = NodeRank(p) /\ c.serves = p.http /\ c.grpc = None
        BY ONLY <4>1 DEF NodeFlags, NoFlags
      <4> QED
        BY <3>2, <4>2
    <3> QED
      BY <3>1, <3>2
  <2>3. Addressed(c, p, i)
    BY <1>0, <1>1, <1>4, <2>2 DEF Addressed
  <2>4. ~SharesRanks(e) /\ ~StandsAlone(e)
    BY <1>1, <1>4 DEF SharesRanks, StandsAlone, SpansNodes
  <2> QED
    BY <1>0, <1>1, <2>2, <2>3, <2>4 DEF Fits
<1>5. CASE e.count = 1
  <2>1. b = NoFlags(p) /\ k = 0
    BY <1>1, <1>2, <1>5 DEF SglangCommand
  <2>2. /\ c.endpoint = p.endpoint /\ c.node = p.node /\ c.from = p.from /\ c.size = p.size
        /\ c.leader = None /\ c.nnodes = None /\ c.rpc = None /\ c.serves = p.http
        /\ c.grpc = IF recipe.sidecar /\ k = 0 THEN p.sys ELSE None
    <3>1. CASE recipe.sidecar
      BY <1>3, <2>1, <3>1 DEF NoFlags
    <3>2. CASE ~recipe.sidecar
      BY <1>3, <2>1, <3>2 DEF NoFlags
    <3> QED
      BY <3>1, <3>2
  <2>3. Addressed(c, p, i)
    BY <1>0, <1>1, <2>2 DEF Addressed
  <2>4. ~SpansNodes(e) /\ ~SharesRanks(e)
    BY <1>1, <1>5 DEF SharesRanks, SpansNodes
  <2> QED
    BY <1>1, <1>5, <2>1, <2>2, <2>3, <2>4 DEF Fits
<1> QED
  BY <1>1, <1>4, <1>5

LEMMA TrtllmFits ==
  ASSUME Ready, NEW p, NEW i, NEW k, Engine(p, i, k), recipe.backend = "trtllm",
         k = 0, p.sys # None, NEW c,
         c = IF recipe.sidecar THEN TrtllmSidecarCommand(p) ELSE TrtllmCommand(p)
  PROVE  Addressed(c, p, i) /\ Fits(c, p, i, k)
<1> DEFINE e == endpoints[i]
<1>1. /\ Mode(p) = e.mode /\ p.http # None /\ ~OwnsRanks(e) /\ p.size = e.size
  BY ProcessReads, PlainProcess, EngineNumbers
<1>0. p.endpoint = i
  BY DEF Engine, IsProcess
<1>2. PICK port : port = IF recipe.frontend = "trtllm_serve" /\ e.mode = "agg" THEN FrontendPort
                         ELSE p.http
  OBVIOUS
<1>3. port # None
  BY <1>1, <1>2, NoneAssumption DEF FrontendPort
<1>4. TrtllmCommand(p) = [NoFlags(p) EXCEPT !.tasks = e.count * e.size, !.serves = port]
  BY <1>0, <1>1, <1>2 DEF TrtllmCommand
<1>5. /\ c.endpoint = p.endpoint /\ c.node = p.node /\ c.from = p.from /\ c.size = p.size
      /\ c.leader = None /\ c.nnodes = None /\ c.rpc = None /\ c.serves = port
      /\ c.tasks = e.count * e.size
      /\ c.grpc = IF recipe.sidecar THEN p.sys ELSE None
  <2>1. CASE recipe.sidecar
    <3>1. c = [[NoFlags(p) EXCEPT !.tasks = e.count * e.size, !.serves = port]
                  EXCEPT !.grpc = p.sys]
      BY <1>4, <2>1 DEF TrtllmSidecarCommand, GrpcPort
    <3>2. /\ c.endpoint = p.endpoint /\ c.node = p.node /\ c.from = p.from /\ c.size = p.size
          /\ c.leader = None /\ c.nnodes = None /\ c.rpc = None /\ c.serves = port
          /\ c.tasks = e.count * e.size /\ c.grpc = p.sys
      BY ONLY <3>1 DEF NoFlags
    <3> QED
      BY <2>1, <3>2
  <2>2. CASE ~recipe.sidecar
    BY <1>4, <2>2 DEF NoFlags
  <2> QED
    BY <2>1, <2>2
<1>6. Addressed(c, p, i)
  BY <1>0, <1>1, <1>2, <1>5 DEF Addressed
<1>7. ~SpansNodes(e) /\ ~SharesRanks(e)
  BY <1>1 DEF SharesRanks, SpansNodes
<1> QED
  BY <1>3, <1>5, <1>6, <1>7 DEF Fits

\* Every command that is started tells its own address, and its part of the endpoint.
LEMMA CommandFits ==
  ASSUME Ready, NEW p, NEW i, NEW k, Engine(p, i, k), ~Raises(p), p.sys # None,
         recipe.backend = "trtllm" => IsLeader(p)
  PROVE  /\ Addressed(Command(p), p, i)
         /\ recipe.backend # "mocker" /\ CountsReplicas(recipe) => Fits(Command(p), p, i, k)
         /\ recipe.backend = "mocker" => Command(p).grpc = None /\ ~recipe.sidecar
<1>1. recipe.backend \in {"vllm", "sglang", "trtllm", "mocker"}
  BY DEF Ready, Recipe, Backends
<1>2. IsLeader(p) <=> k = 0
  BY ProcessReads
<1>3. CASE recipe.backend = "vllm"
  <2>1. ~VllmRaises(p)
    BY <1>3 DEF Raises
  <2>2. CASE recipe.sidecar
    <3>1. Command(p) = VllmSidecarCommand(p)
      BY <1>3, <2>2 DEF Command
    <3> QED
      BY <1>3, <2>1, <2>2, <3>1, VllmSidecarFits
  <2>3. CASE ~recipe.sidecar /\ recipe.frontend = "dynamo"
    <3>1. Command(p) = DynamoCommand(p)
      BY <1>3, <2>3 DEF Command
    <3> QED
      BY <1>3, <2>3, <3>1, DynamoFits
  <2>4. CASE ~recipe.sidecar /\ recipe.frontend # "dynamo"
    <3>1. Command(p) = ServeCommand(p)
      BY <1>3, <2>4 DEF Command
    <3> QED
      BY <1>3, <2>1, <2>4, <3>1, ServeFits
  <2> QED
    BY <2>2, <2>3, <2>4
<1>4. CASE recipe.backend = "sglang"
  <2>1. Command(p) = IF recipe.sidecar THEN SglangSidecarCommand(p) ELSE SglangCommand(p)
    BY <1>4 DEF Command
  <2> QED
    BY <1>4, <2>1, SglangFits
<1>5. CASE recipe.backend = "trtllm"
  <2>1. Command(p) = IF recipe.sidecar THEN TrtllmSidecarCommand(p) ELSE TrtllmCommand(p)
    BY <1>5 DEF Command
  <2> QED
    BY <1>2, <1>5, <2>1, TrtllmFits
<1>6. CASE recipe.backend = "mocker"
  <2>1. Command(p) = NoFlags(p)
    BY <1>6 DEF Command, MockerCommand
  <2>2. ~recipe.sidecar
    BY <1>6 DEF Ready, Accepted, AcceptsSidecar
  <2>3. p.endpoint = i
    BY DEF Engine, IsProcess
  <2> QED
    BY <1>6, <2>1, <2>2, <2>3 DEF NoFlags, Addressed
<1> QED
  BY <1>1, <1>3, <1>4, <1>5, <1>6

-----------------------------------------------------------------------------
(* Apart                                                                   *)

\* Behind every command is a process.
LEMMA CommandOf ==
  ASSUME LaunchInv, NEW c \in commands
  PROVE  /\ Ready /\ phase = "done"
         /\ \E p, i, k :
               /\ p \in processes /\ Engine(p, i, k) /\ c = Command(p) /\ ~Raises(p)
               /\ Addressed(c, p, i)
               /\ recipe.backend # "mocker" /\ CountsReplicas(recipe) => Fits(c, p, i, k)
               /\ recipe.backend = "mocker" => c.grpc = None /\ ~recipe.sidecar
               /\ recipe.backend = "trtllm" => k = 0
<1>1. ProcessInv /\ Commands /\ AllBelow
  BY DEF LaunchInv, ProcessInv, PortsInv
<1>2. phase = "done"
  BY <1>1 DEF Commands
<1>3. PICK p \in Launched : c = Command(p) /\ ~Raises(p)
  BY <1>1 DEF Commands
<1>4. p \in processes /\ (recipe.backend = "trtllm" => IsLeader(p))
  BY <1>3 DEF Launched
<1>5. Ready /\ \E i, k : Engine(p, i, k)
  BY <1>1, <1>2, <1>4, Converted
<1>6. PICK i, k : Engine(p, i, k)
  BY <1>5
<1>7. p.sys # None
  BY <1>1, <1>4, NoneAssumption DEF AllBelow, Below
<1>8. IsLeader(p) <=> k = 0
  BY <1>5, <1>6, ProcessReads
<1> QED
  BY <1>2, <1>3, <1>4, <1>5, <1>6, <1>7, <1>8, CommandFits

\* Two endpoints whose first node is the same.
LEMMA SameFirst ==
  ASSUME Sharers, NEW i \in DOMAIN endpoints, NEW j \in DOMAIN endpoints, i # j,
         i \in Nat, j \in Nat, recipe \in Recipe,
         endpoints[i] \in EndpointRecord, endpoints[j] \in EndpointRecord,
         endpoints[i].first = endpoints[j].first
  PROVE  /\ endpoints[i].count = 1 \/ endpoints[j].count = 1
         /\ ~Mixed(recipe) \/ SidesFit(recipe) =>
               endpoints[i].count = 1 /\ endpoints[j].count = 1
<1>1. /\ endpoints[i].count \in Nat \ {0} /\ endpoints[j].count \in Nat \ {0}
      /\ endpoints[i].first \in Nat /\ endpoints[j].first \in Nat
      /\ endpoints[i].mode \in Modes /\ endpoints[j].mode \in Modes
  BY DEF EndpointRecord, Nodes
<1>2. /\ GpusPer(recipe, endpoints[i].mode) \in Nat /\ GpusPer(recipe, endpoints[j].mode) \in Nat
      /\ recipe.gpus_per_node \in Nat
  BY <1>1, GpusPerNat DEF Recipe
<1>3. ShareNode(endpoints[i], endpoints[j]) /\ ShareNode(endpoints[j], endpoints[i])
  BY <1>1 DEF ShareNode, LastNode
<1>4. CASE i < j
  BY <1>1, <1>2, <1>3, <1>4 DEF Sharers
<1>5. CASE j < i
  BY <1>1, <1>2, <1>3, <1>5 DEF Sharers
<1> QED
  BY <1>4, <1>5

\* The ranks of an endpoint meet at the RPC port that its first process opens.
LEMMA MeetingPort ==
  ASSUME ProcessInv, phase = "done", NEW p \in processes, NEW i, NEW k, Engine(p, i, k),
         OwnsRanks(endpoints[i])
  PROVE  \E first \in processes :
            /\ first.endpoint = i /\ first.node = endpoints[i].first
            /\ OwnsRpc(first) /\ first.rpc = p.rpc
<1>1. i \in DOMAIN endpoints /\ p.endpoint = i
  BY DEF Engine, IsProcess
<1>2. Ready /\ endpoints[i] \in EndpointRecord /\ ~Rejected(endpoints[i])
      /\ NumProcesses(endpoints[i]) \in Nat \ {0}
  BY <1>1, Converted
<1>3. 0 \in 0..(NumProcesses(endpoints[i]) - 1)
  BY <1>2
<1>4. PICK first \in processes : Engine(first, i, 0)
  BY <1>1, <1>3, Converted
<1>5. first.endpoint = i /\ first.rpc # None /\ first.rank = 0
  <2>1. first.rank = 0
    BY <1>2, <1>4, EngineNumbers
  <2>2. first.endpoint = i /\ first.rpc # None
    BY <1>4 DEF Engine, IsProcess
  <2> QED
    BY <2>1, <2>2
<1>6. first.node = endpoints[i].first
  <2>1. /\ first.node = endpoints[i].first
             + (IF Layout(endpoints[i]) = "per_gpu" THEN 0 \div endpoints[i].size ELSE 0)
    BY <1>4 DEF Engine, IsProcess
  <2>2. endpoints[i].first \in Nat
    BY <1>2 DEF EndpointRecord, Nodes
  <2>3. Layout(endpoints[i]) = "per_gpu" => 0 \div endpoints[i].size = 0
    <3>1. Layout(endpoints[i]) = "per_gpu" => endpoints[i].size \in Nat \ {0}
      BY <1>2, RanksFit DEF Ready
    <3> QED
      BY <3>1
  <2> QED
    BY <2>1, <2>2, <2>3
<1>7. first.rpc = p.rpc
  BY <1>1, <1>5 DEF ProcessInv, Made
<1> QED
  BY <1>5, <1>6, <1>7 DEF OwnsRpc

\* No two commands of different endpoints serve at one address of a node.
LEMMA ServedApart ==
  ASSUME LaunchInv, OneKind(recipe), NEW c \in commands, NEW d \in commands,
         c.endpoint # d.endpoint, c.node = d.node, c.serves # None
  PROVE  c.serves # d.serves
<1> SUFFICES ASSUME c.serves = d.serves PROVE FALSE
  OBVIOUS
<1>1. Ready /\ TypeOK /\ AllBelow /\ PortsExclusive /\ Numbered
  BY CommandOf DEF LaunchInv, ProcessInv, PortsInv
<1>2. PICK p, i, k : p \in processes /\ Engine(p, i, k) /\ Addressed(c, p, i)
  BY CommandOf
<1>3. PICK q, j, l : q \in processes /\ Engine(q, j, l) /\ Addressed(d, q, j)
  BY CommandOf
<1>4. /\ i \in DOMAIN endpoints /\ j \in DOMAIN endpoints /\ p.endpoint = i /\ q.endpoint = j
      /\ c.endpoint = i /\ d.endpoint = j /\ c.node = p.node /\ d.node = q.node
  BY <1>2, <1>3 DEF Engine, IsProcess, Addressed
<1>5. /\ (p.http # None => p.http \in Nat) /\ (q.http # None => q.http \in Nat)
  BY <1>1, <1>2, <1>3 DEF AllBelow, Below
<1>6. CASE c.serves = FrontendPort
  <2>1. c.serves \notin Nat /\ d.serves \notin Nat
    BY <1>6 DEF FrontendPort
  <2>2. /\ endpoints[i].mode = "agg" /\ endpoints[j].mode = "agg"
        /\ recipe.frontend \in {"vllm", "trtllm_serve"}
    BY <1>2, <1>3, <1>5, <2>1 DEF Addressed
  <2>3. recipe.workers["agg"] <= 1
    <3>1. recipe.workers["agg"] = 1 \/ is_disaggregated(recipe)
      BY <1>1, <2>2 DEF Ready, Accepted, AcceptsDirect
    <3> QED
      BY <3>1 DEF OneKind
  <2>4. /\ endpoints[i].index \in Nat /\ endpoints[j].index \in Nat
        /\ endpoints[i].index < recipe.workers["agg"] /\ endpoints[j].index < recipe.workers["agg"]
        /\ recipe.workers["agg"] \in Nat
    <3>1. endpoints[i] \in EndpointRecord /\ endpoints[j] \in EndpointRecord
      BY <1>2, <1>3 DEF Engine
    <3>2. recipe.workers["agg"] \in Nat
      BY <1>1 DEF Ready, Recipe, Modes
    <3> QED
      BY <1>1, <1>4, <2>2, <3>1, <3>2 DEF EndpointRecord, Numbered
  <2>5. endpoints[i].index = endpoints[j].index
    BY <2>3, <2>4
  <2> QED
    BY <1>1, <1>4, <2>2, <2>5 DEF Numbered
<1>7. CASE c.serves # FrontendPort
  <2>1. c.serves = p.http /\ d.serves = q.http /\ p.http # None
    BY <1>2, <1>3, <1>7 DEF Addressed
  <2>2. p # q /\ p.node = q.node
    BY <1>4
  <2> QED
    BY <1>1, <1>2, <1>3, <2>1, <2>2 DEF PortsExclusive
<1> QED
  BY <1>6, <1>7

\* Nor do the engines of two endpoints meet at one address.
LEMMA MetApart ==
  ASSUME LaunchInv, NEW c \in commands, NEW d \in commands,
         c.endpoint # d.endpoint, c.leader # None, c.leader = d.leader
  PROVE  /\ c.nnodes = None \/ d.nnodes = None
         /\ ~Mixed(recipe) \/ SidesFit(recipe) =>
              c.nnodes = None /\ d.nnodes = None /\ c.rpc # d.rpc
<1>1. ProcessInv /\ phase = "done" /\ Ready /\ TypeOK /\ PortsExclusive /\ Sharers
  BY CommandOf DEF LaunchInv, ProcessInv, PortsInv
<1>2. PICK p, i, k : p \in processes /\ Engine(p, i, k) /\ Addressed(c, p, i)
  BY CommandOf
<1>3. PICK q, j, l : q \in processes /\ Engine(q, j, l) /\ Addressed(d, q, j)
  BY CommandOf
<1>4. /\ i \in DOMAIN endpoints /\ j \in DOMAIN endpoints /\ i # j
      /\ endpoints[i] \in EndpointRecord /\ endpoints[j] \in EndpointRecord
      /\ p.endpoint = i /\ q.endpoint = j
  BY <1>2, <1>3 DEF Engine, IsProcess, Addressed
<1>5. i \in Nat /\ j \in Nat
  BY <1>1, <1>4 DEF TypeOK
<1>6. endpoints[i].first = endpoints[j].first
  BY <1>2, <1>3 DEF Addressed
<1>7. /\ endpoints[i].count = 1 \/ endpoints[j].count = 1
      /\ ~Mixed(recipe) \/ SidesFit(recipe) =>
            endpoints[i].count = 1 /\ endpoints[j].count = 1
  BY <1>1, <1>4, <1>5, <1>6, SameFirst DEF Ready
<1>8. c.nnodes = None \/ d.nnodes = None
  BY <1>2, <1>3, <1>7 DEF Addressed
<1>9. ASSUME ~Mixed(recipe) \/ SidesFit(recipe)
      PROVE  c.nnodes = None /\ d.nnodes = None /\ c.rpc # d.rpc
  <2>1. c.nnodes = None /\ d.nnodes = None
    BY <1>2, <1>3, <1>7, <1>9 DEF Addressed
  <2>2. /\ OwnsRanks(endpoints[i]) /\ c.rpc = p.rpc
        /\ OwnsRanks(endpoints[j]) /\ d.rpc = q.rpc
    BY <1>2, <1>3, <1>7, <1>9 DEF Addressed
  <2>3. PICK first \in processes :
           /\ first.endpoint = i /\ first.node = endpoints[i].first
           /\ OwnsRpc(first) /\ first.rpc = p.rpc
    BY <1>1, <1>2, <2>2, MeetingPort
  <2>4. PICK other \in processes :
           /\ other.endpoint = j /\ other.node = endpoints[j].first
           /\ OwnsRpc(other) /\ other.rpc = q.rpc
    BY <1>1, <1>3, <2>2, MeetingPort
  <2>5. first.rpc # other.rpc
    BY <1>1, <1>4, <1>6, <2>3, <2>4 DEF PortsExclusive
  <2> QED
    BY <2>1, <2>2, <2>3, <2>4, <2>5
<1> QED
  BY <1>8, <1>9

\* Two processes never bind one port (topology.py, NodePortAllocator), and the commands
\* that name the ports (backends/*.py) never send two endpoints to the same address.
THEOREM AddressesAreApart == LaunchSpec => []AddressesApart
<1>1. LaunchInv => AddressesApart
  <2> SUFFICES ASSUME LaunchInv PROVE AddressesApart
    OBVIOUS
  <2>1. PortsExclusive
    BY DEF LaunchInv, ProcessInv, PortsInv
  <2>2. EndpointsApart
    BY ServedApart, MetApart DEF EndpointsApart
  <2> QED
    BY <2>1, <2>2 DEF AddressesApart
<1> QED
  BY <1>1, LaunchInvariance, PTL

-----------------------------------------------------------------------------
(* Ranks and GPUs                                                          *)

LEMMA CountBelow ==
  ASSUME NEW n \in Nat \ {0}
  PROVE  IsFiniteSet(0..(n - 1)) /\ Cardinality(0..(n - 1)) = n
<1>1. 0 \in Int /\ n - 1 \in Int /\ 0 <= n - 1 /\ (n - 1) - 0 + 1 = n
  OBVIOUS
<1>2. IsFiniteSet(0..(n - 1)) /\ Cardinality(0..(n - 1)) = (n - 1) - 0 + 1
  BY ONLY <1>1, IntervalSize
<1> QED
  BY <1>1, <1>2

LEMMA SlicesApart ==
  ASSUME NEW a \in Nat, NEW m \in Nat, NEW b \in Nat, NEW n \in Nat, Apart(a, m, b, n)
  PROVE  (a..(a + m - 1)) \cap (b..(b + n - 1)) = {}
<1>1. CASE a + m <= b
  BY <1>1
<1>2. CASE b + n <= a
  BY <1>2
<1> QED
  BY <1>1, <1>2 DEF Apart

LEMMA SliceOf ==
  ASSUME NEW x \in Nat, NEW l \in Nat \ {0}, NEW n \in Nat, x < n * l
  PROVE  \E k \in 0..(n - 1) : x \in (k * l)..(k * l + l - 1)
<1>1. PICK k : k = x \div l
  OBVIOUS
<1>2. k \in Nat /\ k < n
  BY <1>1, DivNat, DivBelow
<1>3. k * l <= x /\ x <= k * l + l - 1
  BY <1>1, SMT
<1>4. k * l \in Nat
  BY <1>2, TimesNat
<1> QED
  BY <1>2, <1>3, <1>4

LEMMA DivModOf ==
  ASSUME NEW a \in Nat, NEW s \in Nat \ {0}, NEW b \in 0..(s - 1)
  PROVE  (a * s + b) \div s = a /\ (a * s + b) % s = b
  BY SMT

LEMMA SameSum == ASSUME NEW a \in Nat, NEW b \in Nat, NEW c \in Nat, a + b = a + c PROVE b = c
  BY SMT

LEMMA DivModTell ==
  ASSUME NEW k \in Nat, NEW l \in Nat, NEW s \in Nat \ {0}, k \div s = l \div s, k % s = l % s
  PROVE  k = l
<1>1. ASSUME NEW x \in Nat PROVE x = s * (x \div s) + (x % s)
  BY ONLY s \in Nat \ {0}, x \in Nat, SMT
<1>2. k = s * (k \div s) + (k % s)
  BY <1>1
<1>3. l = s * (l \div s) + (l % s)
  BY <1>1
<1> QED
  BY <1>2, <1>3

\* A process is known by its node and its first GPU.
LEMMA SamePlace ==
  ASSUME Ready, NEW p, NEW q, NEW i, NEW k, NEW l, Engine(p, i, k), Engine(q, i, l),
         p.node = q.node, p.from = q.from
  PROVE  k = l
<1> DEFINE e == endpoints[i]
<1>1. k \in Nat /\ l \in Nat /\ e.first \in Nat /\ e.from \in Nat
  BY DEF Engine, EndpointRecord, Nodes
<1>2. CASE Layout(e) # "per_gpu"
  <2>1. p.node = e.first + k /\ q.node = e.first + l
    BY <1>2 DEF Engine, IsProcess
  <2>2. e.first + k = e.first + l
    BY <2>1
  <2> QED
    BY <1>1, <2>2, SameSum
<1>3. CASE Layout(e) = "per_gpu"
  <2>1. /\ p.node = e.first + (k \div e.size) /\ q.node = e.first + (l \div e.size)
        /\ p.from = e.from + (k % e.size) /\ q.from = e.from + (l % e.size)
    BY <1>3 DEF Engine, IsProcess
  <2>2. e.size \in Nat \ {0}
    BY <1>3, RanksFit DEF Engine, Ready
  <2>3. /\ k \div e.size \in Nat /\ l \div e.size \in Nat
        /\ k % e.size \in Nat /\ l % e.size \in Nat
    BY <1>1, <2>2
  <2>4. /\ e.first + (k \div e.size) = e.first + (l \div e.size)
        /\ e.from + (k % e.size) = e.from + (l % e.size)
    BY <2>1
  <2>5. k \div e.size = l \div e.size /\ k % e.size = l % e.size
    BY <1>1, <2>3, <2>4, SameSum
  <2> QED
    BY <1>1, <2>2, <2>5, DivModTell
<1> QED
  BY <1>2, <1>3

\* The processes of an endpoint are told apart by their numbers.
LEMMA SameNumber ==
  ASSUME ProcessInv, Ready, NEW p \in processes, NEW q \in processes,
         NEW i, NEW k, Engine(p, i, k), Engine(q, i, k)
  PROVE  p = q
<1>1. p.rank = q.rank
  <2>1. p.rank = k * LocalRanks(endpoints[i]) /\ q.rank = k * LocalRanks(endpoints[i])
    BY DEF Engine, IsProcess
  <2> QED
    BY <2>1
<1>2. p.endpoint = q.endpoint
  BY DEF Engine, IsProcess
<1> QED
  BY <1>1, <1>2 DEF ProcessInv, Made

\* Two processes of an endpoint hold different ranks, and different GPUs of a node.
LEMMA RanksApart ==
  ASSUME Ready, NEW p, NEW q, NEW i, NEW k, NEW l, Engine(p, i, k), Engine(q, i, l), k # l
  PROVE  /\ Apart(p.rank, p.ranks, q.rank, q.ranks)
         /\ p.node = q.node => Apart(p.from, p.size, q.from, q.size)
<1> DEFINE e == endpoints[i]
           L == LocalRanks(e)
<1>1. k \in Nat /\ l \in Nat /\ L \in Nat \ {0} /\ e.first \in Nat
  BY EngineNumbers DEF Engine
<1>2. p.rank = k * L /\ p.ranks = L /\ q.rank = l * L /\ q.ranks = L
  BY EngineNumbers
<1>3. Apart(p.rank, p.ranks, q.rank, q.ranks)
  <2>1. k * L \in Nat /\ l * L \in Nat
    BY <1>1, TimesNat
  <2>2. CASE k + 1 <= l
    <3>1. k * L + L <= l * L
      BY <1>1, <2>2, NextSlice
    <3> QED
      BY <1>2, <3>1 DEF Apart
  <2>3. CASE l + 1 <= k
    <3>1. l * L + L <= k * L
      BY <1>1, <2>3, NextSlice
    <3> QED
      BY <1>2, <3>1 DEF Apart
  <2> QED
    BY <1>1, <2>2, <2>3
<1>4. ASSUME p.node = q.node PROVE Apart(p.from, p.size, q.from, q.size)
  <2>1. p.from # q.from
    BY <1>4, SamePlace
  <2>2. Layout(e) = "per_gpu"
    <3> SUFFICES ASSUME Layout(e) # "per_gpu" PROVE FALSE
      OBVIOUS
    <3>1. p.from = e.from /\ q.from = e.from
      BY DEF Engine, IsProcess
    <3> QED
      BY <2>1, <3>1
  <2>3. e.size \in Nat \ {0} /\ e.from \in Nat
    BY <2>2, RanksFit DEF Engine, Ready, EndpointRecord
  <2>4. /\ p.from = e.from + (k % e.size) /\ q.from = e.from + (l % e.size)
        /\ p.size = 1 /\ q.size = 1
    BY <2>2 DEF Engine, IsProcess
  <2>5. k % e.size \in Nat /\ l % e.size \in Nat
    BY <1>1, <2>3
  <2> QED
    BY <2>1, <2>3, <2>4, <2>5 DEF Apart
<1> QED
  BY <1>3, <1>4

\* The ranks of an endpoint that owns ranks are those of its processes.
LEMMA RanksCovered ==
  ASSUME ProcessInv, phase = "done", NEW i \in DOMAIN endpoints, OwnsRanks(endpoints[i]),
         NEW mine, mine = {p \in processes : p.endpoint = i}
  PROVE  UNION {p.rank..(p.rank + p.ranks - 1) : p \in mine}
            = 0..(recipe.dp[endpoints[i].mode] - 1)
<1> DEFINE e == endpoints[i]
           L == LocalRanks(e)
           n == NumProcesses(e)
           dp == recipe.dp[e.mode]
           U == UNION {p.rank..(p.rank + p.ranks - 1) : p \in mine}
<1>1. Ready /\ e \in EndpointRecord /\ ~Rejected(e) /\ n \in Nat \ {0}
  BY Converted
<1>2. L \in Nat \ {0} /\ dp = n * L
  BY <1>1, RanksFit DEF Ready, OwnsRanks
<1>3. ASSUME NEW p \in mine
      PROVE  \E k \in 0..(n - 1) : p.rank = k * L /\ p.ranks = L
  <2>1. PICK j, k : Engine(p, j, k)
    BY Converted
  <2>2. j = i
    BY <1>3, <2>1 DEF Engine, IsProcess
  <2>3. p.rank = k * L /\ p.ranks = L /\ k \in Nat /\ k < n
    BY <2>1, <2>2 DEF Engine, IsProcess
  <2> QED
    BY <1>1, <2>3
<1>4. ASSUME NEW k \in 0..(n - 1)
      PROVE  \E p \in mine : p.rank = k * L /\ p.ranks = L
  <2>1. PICK p \in processes : Engine(p, i, k)
    BY <1>4, Converted
  <2> QED
    BY <2>1 DEF Engine, IsProcess
<1> HIDE DEF n, L, dp
<1>5. ASSUME NEW x \in U PROVE x \in 0..(dp - 1)
  <2>1. PICK p \in mine : x \in p.rank..(p.rank + p.ranks - 1)
    OBVIOUS
  <2>2. PICK k \in 0..(n - 1) : p.rank = k * L /\ p.ranks = L
    BY <1>3
  <2>3. k \in Nat /\ k + 1 <= n /\ k * L \in Nat /\ n * L \in Nat
    BY <1>1, <1>2, <2>2, TimesNat
  <2>4. k * L + L <= n * L
    BY <1>1, <1>2, <2>3, NextSlice
  <2>5. x \in (k * L)..(k * L + L - 1)
    BY <2>1, <2>2
  <2> QED
    BY <1>2, <2>3, <2>4, <2>5
<1>6. ASSUME NEW x \in 0..(dp - 1) PROVE x \in U
  <2>1. x \in Nat /\ x < n * L
    <3>1. n * L \in Nat
      BY <1>1, <1>2, TimesNat
    <3> QED
      BY <1>2, <1>6, <3>1
  <2>2. PICK k \in 0..(n - 1) : x \in (k * L)..(k * L + L - 1)
    BY <1>1, <1>2, <2>1, SliceOf
  <2>3. PICK p \in mine : p.rank = k * L /\ p.ranks = L
    BY <1>4
  <2> QED
    BY <2>2, <2>3
<1> QED
  BY <1>5, <1>6 DEF dp

\* The GPUs of an endpoint are those of its processes.
LEMMA GpusCovered ==
  ASSUME ProcessInv, phase = "done", NEW i \in DOMAIN endpoints,
         NEW mine, mine = {p \in processes : p.endpoint = i}
  PROVE  GpusOf(mine) = EndpointGpus(endpoints[i])
<1> DEFINE e == endpoints[i]
<1>1. Ready /\ e \in EndpointRecord /\ ~Rejected(e) /\ NumProcesses(e) \in Nat \ {0}
  BY Converted
<1>2. /\ e.count \in Nat \ {0} /\ e.first \in Nat /\ e.from \in Nat /\ e.size \in Nat
      /\ Layout(e) = "per_gpu" => e.size \in Nat \ {0}
      /\ LastNode(e) = e.first + e.count - 1
  BY <1>1, RanksFit DEF Ready, EndpointRecord, Nodes, LastNode
<1>3. ASSUME NEW x \in e.first..LastNode(e), NEW g \in e.from..(e.from + e.size - 1)
      PROVE  \E p \in mine : x = p.node /\ g \in p.from..(p.from + p.size - 1)
  <2>1. CASE Layout(e) # "per_gpu"
    <3>1. x - e.first \in 0..(NumProcesses(e) - 1)
      BY <1>2, <2>1 DEF NumProcesses
    <3>2. PICK p \in processes : Engine(p, i, x - e.first)
      BY <3>1, Converted
    <3>3. p.endpoint = i /\ p.node = e.first + (x - e.first) /\ p.from = e.from /\ p.size = e.size
      BY <2>1, <3>2 DEF Engine, IsProcess
    <3> QED
      BY <1>2, <3>3
  <2>2. CASE Layout(e) = "per_gpu"
    <3>1. PICK a, b : a = x - e.first /\ b = g - e.from
      OBVIOUS
    <3>2. a \in Nat /\ a < e.count /\ b \in 0..(e.size - 1) /\ e.size \in Nat \ {0}
      BY <1>2, <2>2, <3>1
    <3>3. PICK k : k = a * e.size + b
      OBVIOUS
    <3>4. k \in Nat /\ k < e.count * e.size
      <4>1. a * e.size \in Nat /\ e.count * e.size \in Nat
        BY <1>2, <3>2, TimesNat
      <4>2. a * e.size + e.size <= e.count * e.size
        BY <1>2, <3>2, NextSlice
      <4> QED
        BY <3>2, <3>3, <4>1, <4>2
    <3>5. k \div e.size = a /\ k % e.size = b
      BY <3>2, <3>3, DivModOf
    <3>6. k \in 0..(NumProcesses(e) - 1)
      BY <1>1, <2>2, <3>4 DEF NumProcesses
    <3>7. PICK p \in processes : Engine(p, i, k)
      BY <3>6, Converted
    <3>8. /\ p.endpoint = i /\ p.node = e.first + (k \div e.size)
          /\ p.from = e.from + (k % e.size) /\ p.size = 1
      BY <2>2, <3>7 DEF Engine, IsProcess
    <3>9. p.node = x /\ p.from = g
      BY <1>2, <3>1, <3>5, <3>8
    <3> QED
      BY <1>2, <3>8, <3>9
  <2> QED
    BY <2>1, <2>2
<1>4. ASSUME NEW p \in mine, NEW g \in p.from..(p.from + p.size - 1)
      PROVE  p.node \in e.first..LastNode(e) /\ g \in e.from..(e.from + e.size - 1)
  <2>1. PICK j, k : Engine(p, j, k)
    BY Converted
  <2>2. j = i
    BY <2>1 DEF Engine, IsProcess
  <2>3. k \in Nat /\ k < NumProcesses(e) /\ IsProcess(p, i, k)
    BY <2>1, <2>2 DEF Engine
  <2>4. CASE Layout(e) # "per_gpu"
    <3>1. p.node = e.first + k /\ p.from = e.from /\ p.size = e.size /\ k < e.count
      BY <2>3, <2>4 DEF IsProcess, NumProcesses
    <3> QED
      BY <1>2, <2>3, <3>1
  <2>5. CASE Layout(e) = "per_gpu"
    <3>1. /\ p.node = e.first + (k \div e.size) /\ p.from = e.from + (k % e.size)
          /\ p.size = 1 /\ k < e.count * e.size
      BY <2>3, <2>5 DEF IsProcess, NumProcesses
    <3>2. k \div e.size \in Nat /\ k \div e.size < e.count
      BY <1>2, <2>3, <2>5, <3>1, DivNat, DivBelow
    <3>3. k % e.size \in 0..(e.size - 1)
      BY <1>2, <2>3, <2>5
    <3> QED
      BY <1>2, <3>1, <3>2, <3>3
  <2> QED
    BY <2>4, <2>5
<1>5. ASSUME NEW y \in GpusOf(mine) PROVE y \in EndpointGpus(e)
  <2>1. PICK p \in mine : y \in {<<p.node, g>> : g \in p.from..(p.from + p.size - 1)}
    BY DEF GpusOf
  <2>2. PICK g \in p.from..(p.from + p.size - 1) : y = <<p.node, g>>
    BY <2>1
  <2> QED
    BY <1>4, <2>2 DEF EndpointGpus
<1>6. ASSUME NEW y \in EndpointGpus(e) PROVE y \in GpusOf(mine)
  <2>1. PICK x \in e.first..LastNode(e), g \in e.from..(e.from + e.size - 1) : y = <<x, g>>
    BY DEF EndpointGpus
  <2>2. PICK p \in mine : x = p.node /\ g \in p.from..(p.from + p.size - 1)
    BY <1>3
  <2>3. y \in {<<p.node, f>> : f \in p.from..(p.from + p.size - 1)}
    BY <2>1, <2>2
  <2> QED
    BY <2>3 DEF GpusOf
<1> QED
  BY <1>5, <1>6

LEMMA AllCovered == ProcessInv => RanksAndGpusCovered
<1> SUFFICES ASSUME ProcessInv, phase = "done", NEW i \in DOMAIN endpoints
             PROVE  LET mine == {p \in processes : p.endpoint = i}
                    IN  /\ \A p, q \in mine : p # q =>
                             /\ Apart(p.rank, p.ranks, q.rank, q.ranks)
                             /\ p.node = q.node => Apart(p.from, p.size, q.from, q.size)
                        /\ Layout(endpoints[i]) \in {"per_gpu", "per_node"} =>
                             UNION {p.rank..(p.rank + p.ranks - 1) : p \in mine}
                                = 0..(recipe.dp[endpoints[i].mode] - 1)
                        /\ GpusOf(mine) = EndpointGpus(endpoints[i])
  BY DEF RanksAndGpusCovered
<1>1. PICK mine : mine = {p \in processes : p.endpoint = i}
  OBVIOUS
<1>2. ASSUME NEW p \in mine, NEW q \in mine, p # q
      PROVE  /\ Apart(p.rank, p.ranks, q.rank, q.ranks)
             /\ p.node = q.node => Apart(p.from, p.size, q.from, q.size)
  <2>1. p \in processes /\ q \in processes /\ p.endpoint = i /\ q.endpoint = i
    BY <1>1, <1>2
  <2>2. PICK j, k : Engine(p, j, k)
    BY <2>1, Converted
  <2>3. PICK h, l : Engine(q, h, l)
    BY <2>1, Converted
  <2>4. j = i /\ h = i
    BY <2>1, <2>2, <2>3 DEF Engine, IsProcess
  <2>5. Ready
    BY Converted
  <2>6. k # l
    BY <1>2, <2>1, <2>2, <2>3, <2>4, <2>5, SameNumber
  <2> QED
    BY <2>2, <2>3, <2>4, <2>5, <2>6, RanksApart
<1>3. OwnsRanks(endpoints[i]) =>
         UNION {p.rank..(p.rank + p.ranks - 1) : p \in mine}
            = 0..(recipe.dp[endpoints[i].mode] - 1)
  BY <1>1, RanksCovered
<1>4. GpusOf(mine) = EndpointGpus(endpoints[i])
  BY <1>1, GpusCovered
<1> QED
  BY <1>1, <1>2, <1>3, <1>4 DEF OwnsRanks

-----------------------------------------------------------------------------
(* Endpoint by endpoint                                                    *)

\* Process k of endpoint i was started with command c.
StartedAs(c, p, i, k) ==
    /\ c \in commands /\ p \in processes /\ Engine(p, i, k) /\ c = Command(p)
    /\ c.endpoint = i /\ c.node = p.node /\ c.from = p.from /\ c.size = p.size
    /\ recipe.backend # "mocker" => Fits(c, p, i, k)
    /\ recipe.backend = "mocker" => c.grpc = None /\ ~recipe.sidecar
    /\ recipe.backend = "trtllm" => k = 0

LEMMA CommandsOf ==
  ASSUME LaunchInv, CountsReplicas(recipe), NEW i, NEW c \in {d \in commands : d.endpoint = i}
  PROVE  \E p, k : StartedAs(c, p, i, k)
<1>1. PICK p, j, k :
         /\ p \in processes /\ Engine(p, j, k) /\ c = Command(p)
         /\ Addressed(c, p, j)
         /\ recipe.backend # "mocker" /\ CountsReplicas(recipe) => Fits(c, p, j, k)
         /\ recipe.backend = "mocker" => c.grpc = None /\ ~recipe.sidecar
         /\ recipe.backend = "trtllm" => k = 0
  BY CommandOf
<1>2. j = i
  BY <1>1 DEF Addressed
<1> QED
  BY <1>1, <1>2 DEF StartedAs, Addressed

\* Once all were started, every process has a command (TRT-LLM's: every first one).
LEMMA ProcessesOf ==
  ASSUME LaunchInv, launch = "started", CountsReplicas(recipe), NEW i \in DOMAIN endpoints,
         NEW k \in 0..(NumProcesses(endpoints[i]) - 1), recipe.backend = "trtllm" => k = 0
  PROVE  \E c, p : StartedAs(c, p, i, k)
<1>1. ProcessInv /\ Commands /\ phase = "done"
  BY DEF LaunchInv, Commands
<1>2. Ready
  BY <1>1, Converted
<1>3. PICK p \in processes : Engine(p, i, k)
  BY <1>1, Converted
<1>4. p \in Launched
  <2>1. IsLeader(p) <=> k = 0
    BY <1>2, <1>3, ProcessReads
  <2> QED
    BY <2>1 DEF Launched
<1>5. PICK c \in commands : c.endpoint = p.endpoint /\ c.node = p.node /\ c.from = p.from
  BY <1>1, <1>4 DEF Commands, Started
<1>6. p.endpoint = i
  BY <1>3 DEF Engine, IsProcess
<1>7. PICK q, l : StartedAs(c, q, i, l)
  BY <1>5, <1>6, CommandsOf
<1>8. Engine(q, i, l) /\ q.node = p.node /\ q.from = p.from
  BY <1>5, <1>7 DEF StartedAs
<1>9. l = k
  BY <1>2, <1>3, <1>8, SamePlace
<1> QED
  BY <1>7, <1>9

\* A command has one process, and a process one number.
LEMMA SameStart ==
  ASSUME LaunchInv, NEW c, NEW d, NEW p, NEW q, NEW i, NEW k,
         StartedAs(c, p, i, k), StartedAs(d, q, i, k)
  PROVE  c = d /\ p = q
<1>1. ProcessInv /\ Ready
  BY CommandOf DEF LaunchInv, StartedAs
<1>2. p = q
  BY <1>1, SameNumber DEF StartedAs
<1> QED
  BY <1>2 DEF StartedAs

\* One engine of an endpoint has the sidecar, if any is to have one.
LEMMA OneSidecar ==
  ASSUME LaunchInv, launch = "started", CountsReplicas(recipe), NEW i \in DOMAIN endpoints,
         NEW C, C = {c \in commands : c.endpoint = i}
  PROVE  Cardinality({c \in C : c.grpc # None}) = IF recipe.sidecar THEN 1 ELSE 0
<1>1. ASSUME NEW c \in C, c.grpc # None
      PROVE  recipe.sidecar /\ \E p : StartedAs(c, p, i, 0)
  <2>1. PICK p, k : StartedAs(c, p, i, k)
    BY CommandsOf
  <2>2. recipe.sidecar /\ k = 0
    BY <1>1, <2>1 DEF StartedAs, Fits
  <2> QED
    BY <2>1, <2>2
<1>2. CASE ~recipe.sidecar
  <2>1. {c \in C : c.grpc # None} = {}
    BY <1>1, <1>2
  <2> QED
    BY <1>2, <2>1, FS_EmptySet
<1>3. CASE recipe.sidecar
  <2>1. 0 \in 0..(NumProcesses(endpoints[i]) - 1)
    <3>1. ProcessInv /\ phase = "done"
      BY DEF LaunchInv, Commands
    <3>2. NumProcesses(endpoints[i]) \in Nat \ {0}
      BY <3>1, Converted
    <3> QED
      BY <3>2
  <2>2. PICK c, p : StartedAs(c, p, i, 0)
    BY <2>1, ProcessesOf
  <2>3. c \in C /\ c.grpc # None
    BY <1>3, <2>2 DEF StartedAs, Fits
  <2>4. {d \in C : d.grpc # None} = {c}
    BY <1>1, <2>2, <2>3, SameStart
  <2> QED
    BY <1>3, <2>4, FS_Singleton
<1> QED
  BY <1>2, <1>3

\* The engines of an endpoint over several nodes have a node each.
LEMMA NodesSpanned ==
  ASSUME LaunchInv, launch = "started", CountsReplicas(recipe), recipe.backend # "mocker",
         NEW i \in DOMAIN endpoints, SpansNodes(endpoints[i]),
         NEW C, C = {c \in commands : c.endpoint = i}
  PROVE  (\E c \in C : c.nnodes # None) /\ SpansTheNodes(C, endpoints[i])
<1> DEFINE e == endpoints[i]
           n == e.count
<1>1. ProcessInv /\ phase = "done"
  BY DEF LaunchInv, Commands
<1>2. Ready /\ e \in EndpointRecord /\ ~Rejected(e)
  BY <1>1, Converted
<1>3. n \in Nat \ {0} /\ NumProcesses(e) = n /\ e.first \in Nat
  <2>1. Layout(e) # "per_gpu"
    BY DEF SpansNodes, OwnsRanks
  <2> QED
    BY <1>2, <2>1 DEF EndpointRecord, NumProcesses, Nodes
<1>4. n # None
  BY <1>3, NoneAssumption
<1>5. ASSUME NEW c \in C
      PROVE  \E k \in 0..(n - 1) : \E p : /\ StartedAs(c, p, i, k) /\ c.node_rank = k
                                          /\ c.nnodes = n /\ c.leader = e.first
                                          /\ c.serves # None <=> k = 0
                                          /\ k = 0 => c.node = e.first
  <2>1. PICK p, k : StartedAs(c, p, i, k)
    BY CommandsOf
  <2>2. k \in 0..(n - 1) /\ IsProcess(p, i, k)
    BY <1>3, <2>1 DEF StartedAs, Engine
  <2>3. /\ c.node_rank = k /\ c.nnodes = n /\ c.leader = e.first /\ c.node = p.node
        /\ c.serves # None <=> k = 0
    BY <2>1 DEF StartedAs, Fits
  <2>4. k = 0 => p.node = e.first
    <3>1. Layout(e) # "per_gpu"
      BY DEF SpansNodes, OwnsRanks
    <3>2. p.node = e.first + k
      BY <2>2, <3>1 DEF IsProcess
    <3> QED
      BY <1>3, <3>2
  <2> QED
    BY <2>1, <2>2, <2>3, <2>4
<1>6. ASSUME NEW k \in 0..(n - 1)
      PROVE  \E c \in C : c.node_rank = k
  <2>1. PICK c, p : StartedAs(c, p, i, k)
    BY <1>3, <1>6, ProcessesOf DEF SpansNodes
  <2> QED
    BY <2>1 DEF StartedAs, Fits
<1>7. ASSUME NEW c \in C, NEW d \in C, c.node_rank = d.node_rank
      PROVE  c = d
  <2>1. PICK k \in 0..(n - 1) : \E p : StartedAs(c, p, i, k) /\ c.node_rank = k
    BY <1>5
  <2>2. PICK l \in 0..(n - 1) : \E q : StartedAs(d, q, i, l) /\ d.node_rank = l
    BY <1>5
  <2>3. PICK p : StartedAs(c, p, i, k)
    BY <2>1
  <2>4. PICK q : StartedAs(d, q, i, k)
    BY <1>7, <2>1, <2>2
  <2> QED
    BY <2>3, <2>4, SameStart
<1>8. {c.node_rank : c \in C} = 0..(n - 1)
  BY <1>5, <1>6
<1>9. Cardinality(C) = n
  <2> DEFINE f == [k \in 0..(n - 1) |-> CHOOSE c \in C : c.node_rank = k]
  <2>1. ASSUME NEW k \in 0..(n - 1) PROVE f[k] \in C /\ f[k].node_rank = k
    BY <1>6
  <2>2. f \in Bijection(0..(n - 1), C)
    <3>1. f \in [0..(n - 1) -> C]
      BY <2>1
    <3>2. \A k, l \in 0..(n - 1) : f[k] = f[l] => k = l
      BY <2>1
    <3>3. \A c \in C : \E k \in 0..(n - 1) : f[k] = c
      <4> TAKE c \in C
      <4>1. c.node_rank \in 0..(n - 1)
        BY <1>5
      <4> QED
        BY <1>7, <2>1, <4>1
    <3> HIDE DEF f
    <3> QED
      BY <3>1, <3>2, <3>3, Fun_IsBij
  <2>3. IsFiniteSet(0..(n - 1)) /\ Cardinality(0..(n - 1)) = n
    BY <1>3, CountBelow
  <2>4. ExistsBijection(0..(n - 1), C)
    BY <2>2 DEF ExistsBijection
  <2> QED
    BY <2>3, <2>4, FS_Bijection
<1>10. \E c \in C : c.nnodes # None
  <2>1. 0 \in 0..(n - 1)
    BY <1>3
  <2> QED
    BY <1>4, <1>5, <1>6, <2>1
<1> QED
  BY <1>5, <1>8, <1>9, <1>10 DEF SpansTheNodes

\* The engines of a data-parallel endpoint share out its ranks.
LEMMA RanksShared ==
  ASSUME LaunchInv, launch = "started", CountsReplicas(recipe), recipe.backend # "mocker",
         NEW i \in DOMAIN endpoints, SharesRanks(endpoints[i]),
         NEW C, C = {c \in commands : c.endpoint = i}
  PROVE  /\ \A c \in C : c.nnodes = None
         /\ (\E c \in C : c.rpc # None) /\ SharesTheRanks(C, endpoints[i])
<1> DEFINE e == endpoints[i]
           dp == recipe.dp[e.mode]
           mp == recipe.model_parallel[e.mode]
<1>1. ProcessInv /\ phase = "done" /\ Made
  BY DEF LaunchInv, ProcessInv, Commands
<1>2. Ready /\ e \in EndpointRecord /\ ~Rejected(e) /\ NumProcesses(e) \in Nat \ {0}
      /\ OwnsRanks(e)
  BY <1>1, Converted DEF SharesRanks
<1>3. ASSUME NEW c, NEW p, NEW k, StartedAs(c, p, i, k)
      PROVE  /\ c.nnodes = None /\ c.leader = e.first /\ c.rpc = p.rpc /\ c.rpc # None
             /\ Ranks(c) = p.rank..(p.rank + p.ranks - 1)
             /\ p.ranks * mp = c.size
             /\ c.headless \/ c.hybrid \/ p.rank = 0 \/ c.dp_rank # None
             /\ p.rank \in Nat /\ p.ranks \in Nat \ {0}
  <2>1. Engine(p, i, k)
    BY <1>3 DEF StartedAs
  <2>2. p.rpc # None
    BY <1>2, <2>1 DEF Engine, IsProcess
  <2>3. p.rank \in Nat /\ p.ranks \in Nat \ {0}
    BY <1>2, <2>1, EngineNumbers
  <2> QED
    BY <1>3, <2>2, <2>3 DEF StartedAs, Fits
<1>4. UNION {Ranks(c) : c \in C} = 0..(dp - 1)
  <2>1. PICK mine : mine = {p \in processes : p.endpoint = i}
    OBVIOUS
  <2>2. UNION {p.rank..(p.rank + p.ranks - 1) : p \in mine} = 0..(dp - 1)
    BY <1>1, <1>2, <2>1, RanksCovered
  <2>3. ASSUME NEW c \in C PROVE \E p \in mine : Ranks(c) = p.rank..(p.rank + p.ranks - 1)
    <3>1. PICK p, k : StartedAs(c, p, i, k)
      BY CommandsOf
    <3>2. p \in mine
      BY <2>1, <3>1 DEF StartedAs, Engine, IsProcess
    <3> QED
      BY <1>3, <3>1, <3>2
  <2>4. ASSUME NEW p \in mine PROVE \E c \in C : Ranks(c) = p.rank..(p.rank + p.ranks - 1)
    <3>1. PICK j, k : Engine(p, j, k)
      BY <1>1, <2>1, Converted
    <3>2. j = i /\ k \in 0..(NumProcesses(e) - 1) /\ p \in processes
      BY <1>2, <2>1, <3>1 DEF Engine, IsProcess
    <3>3. recipe.backend # "trtllm"
      BY <1>2, <3>1, <3>2, PlainProcess
    <3>4. PICK c, q : StartedAs(c, q, i, k)
      BY <3>2, <3>3, ProcessesOf
    <3>5. q = p
      BY <1>1, <1>2, <3>1, <3>2, <3>4, SameNumber DEF StartedAs
    <3>6. c \in C
      BY <3>4 DEF StartedAs
    <3> QED
      BY <1>3, <3>4, <3>5, <3>6
  <2>5. ASSUME NEW x \in UNION {Ranks(c) : c \in C} PROVE x \in 0..(dp - 1)
    <3>1. PICK c \in C : x \in Ranks(c)
      OBVIOUS
    <3>2. \E p \in mine : x \in p.rank..(p.rank + p.ranks - 1)
      BY <2>3, <3>1
    <3> QED
      BY <2>2, <3>2
  <2>6. ASSUME NEW x \in 0..(dp - 1) PROVE x \in UNION {Ranks(c) : c \in C}
    <3>1. PICK p \in mine : x \in p.rank..(p.rank + p.ranks - 1)
      BY <2>2
    <3>2. \E c \in C : x \in Ranks(c)
      BY <2>4, <3>1
    <3> QED
      BY <3>2
  <2> QED
    BY <2>5, <2>6
<1>5. ASSUME NEW c \in C, NEW d \in C, c # d
      PROVE  Ranks(c) \cap Ranks(d) = {}
  <2>1. PICK p, k : StartedAs(c, p, i, k)
    BY CommandsOf
  <2>2. PICK q, l : StartedAs(d, q, i, l)
    BY CommandsOf
  <2>3. k # l
    BY <1>5, <2>1, <2>2, SameStart
  <2>4. Apart(p.rank, p.ranks, q.rank, q.ranks)
    BY <1>2, <2>1, <2>2, <2>3, RanksApart DEF StartedAs
  <2>5. /\ Ranks(c) = p.rank..(p.rank + p.ranks - 1) /\ p.rank \in Nat /\ p.ranks \in Nat
        /\ Ranks(d) = q.rank..(q.rank + q.ranks - 1) /\ q.rank \in Nat /\ q.ranks \in Nat
    BY <1>3, <2>1, <2>2
  <2> QED
    BY <2>4, <2>5, SlicesApart
<1>6. ASSUME NEW c \in C
      PROVE  /\ Cardinality(Ranks(c)) * mp = c.size
             /\ c.leader = e.first /\ c.nnodes = None /\ c.rpc # None
             /\ \A d \in C : d.rpc = c.rpc
             /\ c.headless \/ c.hybrid \/ 0 \in Ranks(c) \/ c.dp_rank # None
  <2>1. PICK p, k : StartedAs(c, p, i, k)
    BY CommandsOf
  <2>2. /\ Ranks(c) = p.rank..(p.rank + p.ranks - 1) /\ p.rank \in Nat /\ p.ranks \in Nat \ {0}
        /\ p.ranks * mp = c.size /\ c.leader = e.first /\ c.nnodes = None
        /\ c.rpc = p.rpc /\ c.rpc # None
        /\ c.headless \/ c.hybrid \/ p.rank = 0 \/ c.dp_rank # None
    BY <1>3, <2>1
  <2>3. Cardinality(Ranks(c)) = p.ranks
    <3>1. /\ p.rank \in Int /\ p.rank + p.ranks - 1 \in Int /\ p.rank <= p.rank + p.ranks - 1
          /\ (p.rank + p.ranks - 1) - p.rank + 1 = p.ranks
      BY <2>2
    <3> QED
      BY <2>2, <3>1, IntervalSize
  <2>4. p.rank = 0 => 0 \in Ranks(c)
    BY <2>2
  <2>5. ASSUME NEW d \in C PROVE d.rpc = c.rpc
    <3>1. PICK q, l : StartedAs(d, q, i, l)
      BY CommandsOf
    <3>2. p.endpoint = q.endpoint /\ p \in processes /\ q \in processes
      BY <2>1, <3>1 DEF StartedAs, Engine, IsProcess
    <3>3. p.rpc = q.rpc
      BY <1>1, <3>2 DEF Made
    <3> QED
      BY <1>3, <2>2, <3>1, <3>3
  <2> QED
    BY <2>2, <2>3, <2>4, <2>5
<1>7. \E c \in C : c.rpc # None
  <2>1. 0 \in 0..(NumProcesses(e) - 1)
    BY <1>2
  <2>2. PICK c, p : StartedAs(c, p, i, 0)
    BY <2>1, ProcessesOf
  <2> QED
    BY <1>6, <2>2 DEF StartedAs
<1> QED
  BY <1>4, <1>5, <1>6, <1>7 DEF SharesTheRanks

\* An engine that was told of no other is the only one of its endpoint.
LEMMA AloneFormed ==
  ASSUME LaunchInv, launch = "started", CountsReplicas(recipe), recipe.backend # "mocker",
         NEW i \in DOMAIN endpoints, StandsAlone(endpoints[i]),
         NEW C, C = {c \in commands : c.endpoint = i}
  PROVE  /\ \A c \in C : c.nnodes = None /\ c.rpc = None
         /\ Alone(C, endpoints[i])
<1> DEFINE e == endpoints[i]
<1>1. ProcessInv /\ phase = "done"
  BY DEF LaunchInv, Commands
<1>2. Ready /\ e \in EndpointRecord /\ ~Rejected(e) /\ NumProcesses(e) \in Nat \ {0}
  BY <1>1, Converted
<1>3. e.count \in Nat \ {0}
  BY <1>2 DEF EndpointRecord
<1>4. recipe.backend = "trtllm" \/ NumProcesses(e) = 1
  <2> SUFFICES ASSUME recipe.backend # "trtllm" PROVE NumProcesses(e) = 1
    OBVIOUS
  <2>1. OwnsRanks(e) => recipe.frontend # "dynamo"
    BY DEF StandsAlone, SharesRanks
  <2>2. e.count = 1
    BY <1>3 DEF StandsAlone, SpansNodes, SharesRanks
  <2>3. Layout(e) # "per_gpu"
    <3> SUFFICES ASSUME Layout(e) = "per_gpu" PROVE FALSE
      OBVIOUS
    <3>1. SplitsRanks(e) /\ PerGpu /\ recipe.frontend # "dynamo"
      BY <2>1 DEF Layout, OwnsRanks
    <3>2. /\ recipe.backend = "vllm" /\ recipe.frontend # "vllm" /\ IsDp(recipe, e.mode)
          /\ e.mode \in Modes
      BY <1>2, <3>1 DEF SplitsRanks, IsDp, EndpointRecord
    <3>3. recipe.frontend = "vllm-router"
      BY <1>2, <3>1, <3>2
         DEF Ready, Recipe, Frontends, Accepted, AcceptsDirect, AcceptsRouter
    <3> QED
      BY <1>2, <3>1, <3>2, <3>3 DEF Ready, Accepted, AcceptsRouter, PerGpu
  <2> QED
    BY <2>2, <2>3 DEF NumProcesses
<1>5. ASSUME NEW c \in C
      PROVE  /\ \E p : StartedAs(c, p, i, 0)
             /\ c.nnodes = None /\ c.rpc = None /\ c.leader = None /\ c.serves # None
             /\ c.tasks = e.count * e.size \/ e.count = 1
  <2>1. PICK p, k : StartedAs(c, p, i, k)
    BY CommandsOf
  <2>2. k = 0
    BY <1>4, <2>1 DEF StartedAs, Engine
  <2> QED
    BY <2>1, <2>2 DEF StartedAs, Fits
<1>6. PICK c, p : StartedAs(c, p, i, 0)
  <2>1. 0 \in 0..(NumProcesses(e) - 1)
    BY <1>2
  <2> QED
    BY <2>1, ProcessesOf
<1>7. c \in C
  BY <1>6 DEF StartedAs
<1>8. C = {c}
  BY <1>5, <1>6, <1>7, SameStart
<1> QED
  BY <1>5, <1>7, <1>8 DEF Alone

\* Of a recipe whose replicas Dynamo's command counts, the engines that the worker stage
\* starts (backends/*.py, worker_stage.py) find each other and share out the endpoint's
\* nodes or ranks; the processes made before (topology.py) hold its ranks and GPUs.
THEOREM EnginesAreSound == LaunchSpec => []EnginesSound
<1>1. LaunchInv => EnginesFormed
  <2> SUFFICES ASSUME LaunchInv, launch = "started", CountsReplicas(recipe),
                      NEW i \in DOMAIN endpoints
               PROVE  EngineFormed(i)
    BY DEF EnginesFormed
  <2>1. PICK C : C = {c \in commands : c.endpoint = i}
    OBVIOUS
  <2>2. Cardinality({c \in C : c.grpc # None}) = IF recipe.sidecar THEN 1 ELSE 0
    BY <2>1, OneSidecar
  <2>3. recipe.backend # "mocker" =>
          IF \E c \in C : c.nnodes # None THEN SpansTheNodes(C, endpoints[i])
          ELSE IF \E c \in C : c.rpc # None THEN SharesTheRanks(C, endpoints[i])
          ELSE Alone(C, endpoints[i])
    <3> SUFFICES ASSUME recipe.backend # "mocker"
                 PROVE  IF \E c \in C : c.nnodes # None THEN SpansTheNodes(C, endpoints[i])
                        ELSE IF \E c \in C : c.rpc # None THEN SharesTheRanks(C, endpoints[i])
                        ELSE Alone(C, endpoints[i])
      OBVIOUS
    <3>1. CASE SpansNodes(endpoints[i])
      BY <2>1, <3>1, NodesSpanned
    <3>2. CASE SharesRanks(endpoints[i])
      BY <2>1, <3>2, RanksShared
    <3>3. CASE StandsAlone(endpoints[i])
      BY <2>1, <3>3, AloneFormed
    <3> QED
      BY <3>1, <3>2, <3>3 DEF StandsAlone
  <2> QED
    BY <2>1, <2>2, <2>3 DEF EngineFormed
<1>2. LaunchInv => EnginesSound
  BY <1>1, AllCovered DEF LaunchInv, EnginesSound
<1> QED
  BY <1>2, LaunchInvariance, PTL

-----------------------------------------------------------------------------
(***************************************************************************)
(* Measurement                                                             *)
(***************************************************************************)

-----------------------------------------------------------------------------
(* Where the workers are                                                   *)

\* The first endpoint begins at the first node of its mode.
FirstPlaced ==
    /\ phase = "allocate" /\ endpoints = <<>> => node_idx = 0 /\ gpu_offset = 0
    /\ endpoints # <<>> => endpoints[1].first = pool[endpoints[1].mode].first

\* The first n workers of a mode are placed.
AllNumbers(m, n) ==
    \A k \in 0..(n - 1) : \E i \in DOMAIN endpoints : endpoints[i].mode = m /\ endpoints[i].index = k

Filled ==
    /\ phase = "allocate" => AllNumbers(mode, index)
    /\ phase \in {"convert", "done"} /\ ~recipe.het => AllNumbers("agg", recipe.workers["agg"])

PlacesAll == FirstPlaced /\ Filled

\* One more worker is placed at the node where packing is.
LEMMA PlacesOneMore ==
  ASSUME TypeOK, PlacesAll, phase = "allocate", NEW e, endpoints' = Append(endpoints, e),
         e.mode = mode, e.index = index, index' = index + 1, UNCHANGED <<phase, mode, pool>>,
         endpoints = <<>> => e.first = pool[mode].first
  PROVE  PlacesAll'
<1>1. /\ Len(endpoints) \in Nat /\ DOMAIN endpoints = 1..Len(endpoints)
      /\ DOMAIN endpoints' = 1..(Len(endpoints) + 1)
      /\ \A i \in DOMAIN endpoints : endpoints'[i] = endpoints[i]
      /\ endpoints'[Len(endpoints) + 1] = e /\ index \in Nat
  BY DEF TypeOK
<1>2. endpoints' # <<>>
  BY <1>1
<1>3. endpoints'[1].first = pool'[endpoints'[1].mode].first
  <2>1. CASE endpoints = <<>>
    <3>1. endpoints'[1] = e
      BY <1>1, <2>1
    <3> QED
      BY <2>1, <3>1
  <2>2. CASE endpoints # <<>>
    <3>1. 1 \in DOMAIN endpoints
      BY <1>1, <2>2 DEF TypeOK
    <3> QED
      BY <1>1, <2>2, <3>1 DEF PlacesAll, FirstPlaced
  <2> QED
    BY <2>1, <2>2
<1>4. AllNumbers(mode, index)'
  <2> SUFFICES ASSUME NEW k \in 0..(index' - 1)
               PROVE  \E i \in DOMAIN endpoints' : endpoints'[i].mode = mode /\ endpoints'[i].index = k
    BY DEF AllNumbers
  <2>1. CASE k = index
    <3>1. Len(endpoints) + 1 \in DOMAIN endpoints'
      BY <1>1
    <3> QED
      BY <1>1, <2>1, <3>1
  <2>2. CASE k # index
    <3>1. k \in 0..(index - 1)
      BY <1>1, <2>2
    <3>2. PICK i \in DOMAIN endpoints : endpoints[i].mode = mode /\ endpoints[i].index = k
      BY <3>1 DEF PlacesAll, Filled, AllNumbers
    <3> QED
      BY <1>1, <3>2
  <2> QED
    BY <2>1, <2>2
<1> QED
  BY <1>2, <1>3, <1>4 DEF PlacesAll, FirstPlaced, Filled

LEMMA PlacesInitial == Init => PlacesAll
  BY DEF Init, PlacesAll, FirstPlaced, Filled

LEMMA PlacesStep ==
  ASSUME TypeOK, Unplaced, PlacesAll, [Next]_vars
  PROVE  PlacesAll'
<1>1. CASE PlaceFullNode
  <2>1. PICK e : e = [mode |-> mode, index |-> index, first |-> pool[mode].first + node_idx,
                      count |-> NodesPerWorker, from |-> 0, size |-> recipe.gpus_per_node]
    OBVIOUS
  <2>2. /\ phase = "allocate" /\ endpoints' = Append(endpoints, e) /\ index' = index + 1
        /\ UNCHANGED <<phase, mode, pool>>
    BY <1>1, <2>1 DEF PlaceFullNode, MoreWorkers, Placed
  <2>3. endpoints = <<>> => e.first = pool[mode].first
    BY <2>1, <2>2 DEF TypeOK, PlacesAll, FirstPlaced
  <2> QED
    BY <2>1, <2>2, <2>3, PlacesOneMore
<1>2. CASE PlacePartialNode
  <2>1. PICK e : e = [mode |-> mode, index |-> index, first |-> pool[mode].first + PartialNode,
                      count |-> 1, from |-> PartialOffset, size |-> GpusNow]
    OBVIOUS
  <2>2. /\ phase = "allocate" /\ ~FullNode /\ endpoints' = Append(endpoints, e) /\ index' = index + 1
        /\ UNCHANGED <<phase, mode, pool>>
    BY <1>2, <2>1 DEF PlacePartialNode, MoreWorkers, Placed
  <2>3. ASSUME endpoints = <<>> PROVE e.first = pool[mode].first
    <3>1. node_idx = 0 /\ gpu_offset = 0
      BY <2>2, <2>3 DEF PlacesAll, FirstPlaced
    <3>2. GpusNow \in Nat /\ recipe.gpus_per_node \in Nat /\ pool[mode].first \in Nat
      BY GpusPerNat, RecipeNumbers DEF TypeOK, GpusNow
    <3>3. PartialNode = 0
      BY <2>2, <3>1, <3>2 DEF PartialNode, Wraps, FullNode
    <3> QED
      BY <2>1, <3>2, <3>3
  <2> QED
    BY <2>1, <2>2, <2>3, PlacesOneMore
<1>3. CASE ~(PlaceFullNode \/ PlacePartialNode)
  <2>1. UNCHANGED <<recipe, endpoints>>
    BY <1>3 DEF Next, vars, placing, Submit, SubmitRejected, Carve, CarveRejected,
                OutOfNodes, StartDecode, StartAgg, AllPlaced, Convert, ConvertRejected,
                AllConverted
  <2>2. FirstPlaced'
    <3>1. CASE endpoints = <<>>
      <4>1. phase' = "allocate" => node_idx' = 0 /\ gpu_offset' = 0
        BY <1>3, <3>1 DEF PlacesAll, FirstPlaced, Unplaced, Next, vars, placing, Submit, SubmitRejected,
              Carve, CarveRejected, OutOfNodes, StartDecode, StepsToOwnNode, StartAgg, AllPlaced,
              Convert, ConvertRejected, AllConverted
      <4> QED
        BY <2>1, <3>1, <4>1 DEF FirstPlaced
    <3>2. CASE endpoints # <<>>
      <4>1. UNCHANGED pool
        BY <1>3, <3>2 DEF Unplaced, Next, vars, Submit, SubmitRejected,
              Carve, CarveRejected, OutOfNodes, StartDecode, StartAgg, AllPlaced,
              Convert, ConvertRejected, AllConverted
      <4> QED
        BY <2>1, <3>2, <4>1 DEF PlacesAll, FirstPlaced
    <3> QED
      BY <3>1, <3>2
  <2>3. Filled'
    <3>1. phase' = "allocate" => AllNumbers(mode, index)'
      <4>1. CASE phase = "allocate" /\ UNCHANGED <<mode, index>>
        BY <2>1, <4>1 DEF PlacesAll, Filled, AllNumbers
      <4>2. CASE ~(phase = "allocate" /\ UNCHANGED <<mode, index>>)
        <5>1. phase' = "allocate" => index' = 0
          BY <1>3, <4>2 DEF Unplaced, Next, vars, placing, Submit, SubmitRejected,
              Carve, CarveRejected, OutOfNodes, StartDecode, StartAgg, AllPlaced,
              Convert, ConvertRejected, AllConverted
        <5> QED
          BY <5>1 DEF AllNumbers
      <4> QED
        BY <4>1, <4>2
    <3>2. phase' \in {"convert", "done"} /\ ~recipe.het => AllNumbers("agg", recipe.workers["agg"])'
      <4>1. CASE phase \in {"convert", "done"}
        BY <2>1, <4>1 DEF PlacesAll, Filled, AllNumbers
      <4>2. CASE phase \notin {"convert", "done"}
        <5>1. phase' \in {"convert", "done"} => AllPlaced
          BY <1>3, <4>2 DEF Next, vars, Submit, SubmitRejected,
              Carve, CarveRejected, OutOfNodes, StartDecode, StartAgg, AllPlaced,
              Convert, ConvertRejected, AllConverted
        <5> QED
          BY <2>1, <5>1 DEF AllPlaced, PlacesAll, Filled, AllNumbers
      <4> QED
        BY <4>1, <4>2
    <3> QED
      BY <2>1, <3>1, <3>2 DEF Filled
  <2> QED
    BY <2>2, <2>3 DEF PlacesAll
<1> QED
  BY <1>1, <1>2, <1>3 DEF Next

\* Least and greatest of a set of nodes.
LEMMA LeastIn ==
  ASSUME NEW T, T \subseteq Nat, T # {}
  PROVE  Min(T) \in T /\ \A y \in T : Min(T) <= y
<1>1. PICK x \in T : \A y \in T : x <= y
  BY LeastOf
<1> QED
  BY <1>1 DEF Min

LEMMA GreatestIn ==
  ASSUME NEW T, T \subseteq Nodes, T # {}
  PROVE  Max(T) \in T
<1> DEFINE S == {MaxNodes - x : x \in T}
<1>1. S \subseteq Nat /\ S # {}
  BY MaxNodesAssumption DEF Nodes
<1>2. PICK s \in S : \A r \in S : s <= r
  BY <1>1, LeastOf
<1>3. PICK x \in T : s = MaxNodes - x
  BY <1>2
<1>4. \A y \in T : x >= y
  <2> TAKE y \in T
  <2>1. MaxNodes - y \in S
    OBVIOUS
  <2>2. MaxNodes - x <= MaxNodes - y
    BY <1>2, <1>3, <2>1
  <2> QED
    BY <2>2, MaxNodesAssumption DEF Nodes
<1> QED
  BY <1>3, <1>4 DEF Max

\* The nodes of the workers, and the node where the frontend belongs.
LEMMA NodesOfTheJob ==
  ASSUME ProcessInv, phase = "done"
  PROVE  /\ WorkerNodes \subseteq Nodes /\ HeadNode \in Nodes /\ Bench \in Nodes
         /\ "frontend" \notin recipe.dedicated => HeadNode = FromFront + 1
         /\ recipe.dedicated \subseteq {"frontend"} => HeadNode = 1
         /\ ~recipe.het => \A m \in Modes : pool[m].first = FromFront + 1
<1>1. /\ TypeOK /\ Granted /\ Carved /\ recipe \in Recipe /\ nodelist \in Nat /\ nodelist <= MaxNodes
      /\ MaxNodes \in Nat
  BY MaxNodesAssumption DEF ProcessInv, PortsInv, PlacedInv, TypeOK, Granted
<1>2. /\ FromFront \in Nat /\ FromTail \in Nat /\ FromFront + FromTail = NumReserved(recipe)
      /\ nodelist = NumReserved(recipe) + NodesAsked /\ NodesAsked > 0 /\ NumReserved(recipe) \in Nat
  BY <1>1, FrontAndTail, ReservedSum, NodeCounts DEF Carved
<1>3. WorkerNodes = (FromFront + 1)..(nodelist - FromTail)
  BY <1>1, PoolsTogether DEF WorkerNodes
<1>4. NodesAsked \in Int
  BY <1>1, NodeCounts DEF Carved, NodesAsked
<1>5. /\ FromFront + 1 \in WorkerNodes /\ WorkerNodes \subseteq Nat /\ WorkerNodes \subseteq 1..nodelist
      /\ \A n \in WorkerNodes : FromFront + 1 <= n
  BY <1>1, <1>2, <1>3, <1>4
<1>6. Min(WorkerNodes) = FromFront + 1
  <2>1. PICK least : least = Min(WorkerNodes)
    OBVIOUS
  <2>2. least \in WorkerNodes /\ least <= FromFront + 1
    BY <1>5, <2>1, LeastIn
  <2>3. FromFront + 1 <= least /\ least \in Nat
    BY <1>5, <2>2
  <2> QED
    BY <1>2, <2>1, <2>2, <2>3
<1>7. \A role \in recipe.dedicated : reserved[role] \in 1..nodelist
  <2>1. WorkersGetTheirNodes
    BY <1>1, NodesDivided
  <2> QED
    BY <1>1, <2>1 DEF WorkersGetTheirNodes
<1>8. 1..nodelist \subseteq Nodes
  BY <1>1 DEF Nodes
<1>9. HeadNode \in Nodes /\ Bench \in Nodes /\ WorkerNodes \subseteq Nodes
  BY <1>5, <1>6, <1>7, <1>8 DEF HeadNode, Bench
<1>10. ASSUME recipe.dedicated \subseteq {"frontend"} PROVE HeadNode = 1
  <2>1. CASE "frontend" \in recipe.dedicated
    <3>1. HeadNode = ReservedNode("frontend")
      BY <1>1, <2>1 DEF HeadNode, Carved
    <3> QED
      BY <1>10, <3>1 DEF ReservedNode, FrontRank
  <2>2. CASE "frontend" \notin recipe.dedicated
    <3>1. recipe.dedicated = {}
      BY <1>10, <2>2
    <3>2. FromFront = 0
      BY <3>1 DEF FromFront
    <3> QED
      BY <1>6, <2>2, <3>2 DEF HeadNode
  <2> QED
    BY <2>1, <2>2
<1> QED
  BY <1>1, <1>6, <1>9, <1>10 DEF HeadNode, Carved

\* Where a stage is put, if there is such a place.
LEMMA PlacedOnNode ==
  ASSUME ProcessInv, phase = "done", NEW placement \in Placements, ~NoSuchNode(placement),
         NEW head \in Nodes
  PROVE  PlacedNode(placement, head) \in Nodes
<1> DEFINE nodes == {p.node : p \in Leaders("decode")}
<1>1. nodes \subseteq Nodes
  BY DEF ProcessInv, PortsInv, AllBelow, Below, Leaders
<1>2. CASE placement = "head"
  BY <1>2 DEF PlacedNode
<1>3. CASE placement # "head"
  <2>1. nodes # {}
    BY <1>3 DEF NoSuchNode
  <2>2. nodes \subseteq Nat
    BY <1>1 DEF Nodes
  <2>3. Min(nodes) \in Nodes /\ Max(nodes) \in Nodes
    BY <1>1, <2>1, <2>2, LeastIn, GreatestIn
  <2> QED
    BY <1>3, <2>3 DEF PlacedNode, Placements
<1> QED
  BY <1>2, <1>3

-----------------------------------------------------------------------------
(* Who serves the public endpoint                                          *)

\* Once all were started, a launched process has its command.
LEMMA CommandIs ==
  ASSUME LaunchInv, launch = "started", NEW p \in Launched
  PROVE  ~Raises(p) /\ \E c \in commands : c = Command(p) /\ c.endpoint = p.endpoint /\ c.node = p.node
<1>1. ProcessInv /\ Commands /\ phase = "done" /\ p \in processes
  BY DEF LaunchInv, Commands, Launched
<1>2. PICK c \in commands : c.endpoint = p.endpoint /\ c.node = p.node /\ c.from = p.from
  BY <1>1 DEF Commands, Started
<1>3. Ready /\ \E q, i, k : /\ q \in processes /\ Engine(q, i, k) /\ c = Command(q) /\ ~Raises(q)
                           /\ Addressed(c, q, i)
  BY CommandOf
<1>4. PICK q, i, k : /\ q \in processes /\ Engine(q, i, k) /\ c = Command(q) /\ ~Raises(q)
                     /\ Addressed(c, q, i)
  BY <1>3
<1>5. PICK j, l : Engine(p, j, l)
  BY <1>1, Converted
<1>6. j = i /\ q.node = p.node /\ q.from = p.from
  BY <1>2, <1>4, <1>5 DEF Addressed, Engine, IsProcess
<1>7. q = p
  BY <1>1, <1>3, <1>4, <1>5, <1>6, SamePlace, SameNumber
<1> QED
  BY <1>2, <1>4, <1>7

\* An endpoint that is served directly is the only one of its job, on the first node.
LEMMA OneWorker ==
  ASSUME LaunchInv, PlacesAll, launch = "started", Direct,
         recipe.frontend = "vllm" \/ ~MixesKinds(recipe)
  PROVE  /\ Leaders("decode") = {} /\ Ready
         /\ \E p \in processes : /\ Leaders("agg") = {p} /\ p.node = FromFront + 1
                                 /\ p \in Launched /\ Engine(p, 1, 0)
<1>1. ProcessInv /\ Commands /\ phase = "done" /\ TypeOK /\ Numbered /\ FirstPlaced /\ Filled
  BY DEF LaunchInv, ProcessInv, PortsInv, Commands, PlacesAll
<1>2. Ready
  BY <1>1, Converted
<1>3. /\ ~is_disaggregated(recipe) /\ recipe.workers["agg"] = 1 /\ ~recipe.het
      /\ recipe.frontend = "vllm" => recipe.backend = "vllm" /\ ~recipe.sidecar
  BY <1>2 DEF Direct, Ready, Accepted, AcceptsDirect, AcceptsHet, AcceptsSidecar
<1>4. \A i \in DOMAIN endpoints : /\ endpoints[i] \in EndpointRecord
                                  /\ endpoints[i].index \in Nat /\ endpoints[i].mode \in Modes
                                  /\ endpoints[i].index < recipe.workers[endpoints[i].mode]
  <2> TAKE i \in DOMAIN endpoints
  <2>1. endpoints[i] \in EndpointRecord
    BY <1>1, Converted
  <2> QED
    BY <1>1, <2>1 DEF EndpointRecord, Numbered
<1>5. \A i \in DOMAIN endpoints : endpoints[i].mode = "agg"
  <2> TAKE i \in DOMAIN endpoints
  <2>1. CASE recipe.frontend = "vllm"
    <3>1. PICK p \in processes : Engine(p, i, 0)
      BY <1>1, Converted
    <3>2. p \in Launched
      BY <1>3, <2>1 DEF Launched
    <3>3. ~Raises(p)
      BY <3>2, CommandIs
    <3>4. Mode(p) = "agg"
      BY <1>3, <2>1, <3>3 DEF Raises, VllmRaises
    <3> QED
      BY <1>2, <3>1, <3>4, ProcessReads
  <2>2. CASE ~MixesKinds(recipe)
    <3>1. recipe.workers["prefill"] = 0 /\ recipe.workers["decode"] = 0
      BY <1>2, <1>3, <2>2 DEF MixesKinds, Ready, Recipe, Modes
    <3> QED
      BY <1>4, <3>1 DEF Modes
  <2> QED
    BY <2>1, <2>2
<1>6. \A i, j \in DOMAIN endpoints : i = j
  <2> SUFFICES ASSUME NEW i \in DOMAIN endpoints, NEW j \in DOMAIN endpoints PROVE i = j
    OBVIOUS
  <2>1. endpoints[i].index = 0 /\ endpoints[j].index = 0
    BY <1>3, <1>4, <1>5
  <2> QED
    BY <1>1, <1>5, <2>1 DEF Numbered
<1>7. 1 \in DOMAIN endpoints
  <2>1. \E i \in DOMAIN endpoints : TRUE
    BY <1>1, <1>3 DEF Filled, AllNumbers
  <2> QED
    BY <1>1, <2>1 DEF TypeOK
<1>8. endpoints[1].first = FromFront + 1
  <2>1. endpoints # <<>>
    BY <1>7
  <2>2. pool["agg"].first = FromFront + 1
    BY <1>1, <1>3, NodesOfTheJob DEF Modes
  <2> QED
    BY <1>1, <1>5, <1>7, <2>1, <2>2 DEF FirstPlaced
<1>9. PICK p \in processes : Engine(p, 1, 0)
  BY <1>1, <1>7, Converted
<1>10. IsLeader(p) /\ LeaderNode(p) = endpoints[1].first /\ p.node = endpoints[1].first
  <2>1. p.node = endpoints[1].first + (IF Layout(endpoints[1]) = "per_gpu"
                                         THEN 0 \div endpoints[1].size ELSE 0)
    BY <1>9 DEF Engine, IsProcess
  <2>2. Layout(endpoints[1]) # "per_gpu"
    <3>1. ~SplitsRanks(endpoints[1])
      <4>1. recipe.frontend = "vllm" \/ recipe.backend = "trtllm"
        BY <1>2 DEF Direct, Ready, Accepted, AcceptsDirect
      <4> QED
        BY <4>1 DEF SplitsRanks, IsDp
    <3> QED
      BY <3>1 DEF Layout
  <2>3. endpoints[1].first \in Nat
    BY <1>4, <1>7 DEF EndpointRecord, Nodes
  <2> QED
    BY <1>2, <1>9, <2>1, <2>2, <2>3, ProcessReads
<1>11. \A q \in processes : /\ Mode(q) = "agg"
                            /\ IsLeader(q) => q = p
  <2> TAKE q \in processes
  <2>1. PICK j, l : Engine(q, j, l)
    BY <1>1, Converted
  <2>2. j \in DOMAIN endpoints /\ j = 1
    BY <1>6, <1>7, <2>1 DEF Engine
  <2>3. Mode(q) = "agg" /\ (IsLeader(q) => l = 0)
    BY <1>2, <1>5, <2>1, <2>2, ProcessReads
  <2> QED
    BY <1>1, <1>2, <1>9, <2>1, <2>2, <2>3, SameNumber
<1>12. Mode(p) = "agg"
  BY <1>11
<1> QED
  BY <1>2, <1>8, <1>9, <1>10, <1>11, <1>12 DEF Leaders, Launched

\* It serves the public port itself.
LEMMA DirectServes ==
  ASSUME LaunchInv, launch = "started", Direct, Ready, NEW p \in Launched, Engine(p, 1, 0),
         Mode(p) = "agg"
  PROVE  \E c \in commands : c.node = p.node /\ c.serves = FrontendPort
<1>1. PICK c \in commands : c = Command(p) /\ c.node = p.node
  BY CommandIs
<1>2. ~recipe.sidecar
  BY DEF Direct, Ready, Accepted, AcceptsSidecar
<1>3. CASE recipe.frontend = "vllm"
  <2>1. recipe.backend = "vllm"
    BY <1>3 DEF Ready, Accepted, AcceptsDirect
  <2>2. c = ServeCommand(p)
    BY <1>1, <1>2, <1>3, <2>1 DEF Command
  <2>3. c.serves = ServePort(p)
    BY <2>2 DEF ServeCommand, ServeFlags, LocalRankFlags, NoFlags, NodeFlags, Headless
  <2>4. NodeRank(p) = 0
    <3>1. Layout(endpoints[1]) # "per_gpu"
      BY <1>3 DEF Layout, SplitsRanks
    <3> QED
      BY <3>1, ProcessReads
  <2> QED
    BY <1>1, <1>3, <2>3, <2>4 DEF ServePort
<1>4. CASE recipe.frontend = "trtllm_serve"
  <2>1. recipe.backend = "trtllm"
    BY <1>4 DEF Ready, Accepted, AcceptsDirect
  <2>2. c = TrtllmCommand(p)
    BY <1>1, <1>2, <2>1 DEF Command
  <2> QED
    BY <1>1, <1>4, <2>2 DEF TrtllmCommand, NoFlags
<1> QED
  BY <1>3, <1>4 DEF Direct

\* What the stages compute of the started workers.
TheProxy == IF SingleFrontend THEN None ELSE HeadNode
TheFrontends == IF Direct THEN {} ELSE {[node |-> n, port |-> FrontendUrlPort] : n \in FrontendNodes}

LEMMA OrchestratorOnNode ==
  ASSUME ProcessInv, phase = "done", watch \in Watch, ~NoSuchNode(watch.orchestrator_placement)
  PROVE  OrchestratorNode \in Nodes
<1>1. watch.orchestrator_placement \in Placements
  BY DEF Watch
<1>2. HeadNode \in Nodes
  BY NodesOfTheJob
<1> QED
  BY <1>1, <1>2, PlacedOnNode DEF OrchestratorNode

\* The worker that serves directly answers where the public endpoint is said to be.
LEMMA DirectFound ==
  ASSUME LaunchInv, PlacesAll, launch = "started", watch \in Watch, Direct,
         recipe.frontend = "vllm" \/ (~Superfluous /\ ~MixesKinds(recipe)), ~ProbeRaises
  PROVE  /\ PublicApiNode \in PublicNodes
         /\ recipe.frontend = "vllm" => PublicApiNode = FromFront + 1
<1>1. ProcessInv /\ phase = "done"
  BY DEF LaunchInv, Commands
<1>2. Leaders("decode") = {} /\ Ready
  BY OneWorker
<1>3. PICK p \in processes : /\ Leaders("agg") = {p} /\ p.node = FromFront + 1
                             /\ p \in Launched /\ Engine(p, 1, 0)
  BY OneWorker
<1>4. Mode(p) = "agg"
  BY <1>3 DEF Leaders
<1>5. p.node \in PublicNodes
  <2>1. \E c \in commands : c.node = p.node /\ c.serves = FrontendPort
    BY <1>2, <1>3, <1>4, DirectServes
  <2>2. p.node \in Nodes
    BY <1>1, <1>3 DEF ProcessInv, PortsInv, AllBelow, Below
  <2> QED
    BY <2>1, <2>2 DEF PublicNodes
<1>6. PublicApiNode = p.node
  <2>1. CASE recipe.frontend = "vllm"
    <3>1. Cardinality(Leaders("agg")) = 1
      BY <1>3, FS_Singleton
    <3>2. (CHOOSE q \in Leaders("agg") : TRUE) = p
      BY <1>3
    <3> QED
      BY <2>1, <3>1, <3>2 DEF PublicApiNode
  <2>2. CASE recipe.frontend # "vllm"
    <3>1. ~Superfluous /\ "frontend" \notin recipe.dedicated
      BY <2>2 DEF Superfluous
    <3>2. watch.orchestrator_placement = "head"
      BY <1>2, <2>2 DEF ProbeRaises, NoSuchNode
    <3>3. OrchestratorNode = HeadNode
      BY <3>2 DEF OrchestratorNode, PlacedNode
    <3>4. HeadNode = FromFront + 1
      BY <1>1, <3>1, NodesOfTheJob
    <3> QED
      BY <1>3, <2>2, <3>3, <3>4 DEF PublicApiNode
  <2> QED
    BY <2>1, <2>2
<1> QED
  BY <1>3, <1>5, <1>6

\* Wherever the frontends were started, one answers there.
LEMMA FrontendFound ==
  ASSUME ProcessInv, phase = "done", watch \in Watch, ~Direct,
         ~NoSuchNode(watch.orchestrator_placement), ~Unfollowed,
         proxy = TheProxy, frontends = TheFrontends
  PROVE  PublicApiNode \in PublicNodes
<1>1. PublicApiNode = OrchestratorNode /\ OrchestratorNode \in Nodes
  BY OrchestratorOnNode DEF PublicApiNode, Direct
<1>2. CASE SingleFrontend
  <2>1. [node |-> OrchestratorNode, port |-> FrontendPort] \in frontends
    BY <1>2 DEF TheFrontends, FrontendNodes, FrontendUrlPort
  <2> QED
    BY <1>1, <2>1 DEF PublicNodes
<1>3. CASE ~SingleFrontend
  <2>1. OrchestratorNode = HeadNode
    BY <1>3 DEF Unfollowed, OrchestratorNode, PlacedNode
  <2>2. proxy = HeadNode
    BY <1>3 DEF TheProxy
  <2> QED
    BY <1>1, <2>1, <2>2 DEF PublicNodes
<1> QED
  BY <1>2, <1>3

LEMMA PublicFound ==
  ASSUME LaunchInv, PlacesAll, launch = "started", watch \in Watch, ~ProbeRaises, ~Unfollowed,
         ~(recipe.frontend = "trtllm_serve" /\ (Superfluous \/ MixesKinds(recipe))),
         proxy = TheProxy, frontends = TheFrontends
  PROVE  PublicApiNode \in PublicNodes
<1>1. ProcessInv /\ phase = "done"
  BY DEF LaunchInv, Commands
<1>2. CASE Direct
  BY <1>2, DirectFound DEF Direct
<1>3. CASE ~Direct
  <2>1. ~NoSuchNode(watch.orchestrator_placement)
    BY <1>3 DEF Direct, ProbeRaises
  <2> QED
    BY <1>1, <1>3, <2>1, FrontendFound
<1> QED
  BY <1>2, <1>3

-----------------------------------------------------------------------------
(* The stages                                                              *)

Started2 == {"frontend", "power", "scraping", "unready", "ready", "measuring", "profiling", "aborted"}
Answered == {"ready", "measuring", "profiling", "aborted"}
Scraping == {"scraping", "unready"} \cup Answered

TheTargets == IF TachometerOn THEN TachometerTargets ELSE {}
TheClient == [node |-> BenchmarkNode,
              asks |-> IF watch.benchmark \in {"agentperf", "custom"} THEN PublicApiNode ELSE BenchmarkNode,
              urls |-> ClientUrls, slow |-> SlowDownUrls, stamps |-> watch.power]
TheRequests == {ProfileRequest(p) : p \in ToAsk}

Stages ==
    /\ stage \in {"load", "rejected", "launch", "raised"} \cup Started2
    /\ stage \notin {"load", "rejected"} => AcceptsWatch
    /\ stage \in Started2 => launch = "started"

\* What was started is what the stages work out of the workers that run.
Fronts == stage \in Started2 =>
    /\ proxy = TheProxy /\ frontends = TheFrontends
    /\ SingleFrontend => ~NoSuchNode(watch.orchestrator_placement)

Probes ==
    /\ stage = "unready" => PublicApiNode \notin PublicNodes /\ ~ProbeRaises
    /\ stage \in Answered => PublicApiNode \in PublicNodes /\ ~ProbeRaises

\* One stage starts the exporters of a kind.
ExporterOf(e) ==
    /\ e = [node |-> e.node, kind |-> e.kind, owner |-> e.owner]
    /\ e.kind \in {"dcgm", "node_exporter"}
    /\ e.owner = IF e.kind = "dcgm" /\ watch.power THEN "power" ELSE "tachometer"

Exporting ==
    /\ \A e \in exporters : ExporterOf(e)
    /\ stage \in {"power", "scraping"} /\ watch.power /\ watch.run # "eval" =>
         \A n \in HostNodes : \E e \in exporters : e.node = n /\ e.kind = "dcgm"
    /\ stage = "scraping" /\ watch.run # "eval" /\ TachometerOn =>
         \A n \in HostNodes :
            /\ watch.power \/ watch.dcgm => \E e \in exporters : e.node = n /\ e.kind = "dcgm"
            /\ watch.node_exporter => \E e \in exporters : e.node = n /\ e.kind = "node_exporter"

Targets == stage \in Scraping => targets = TheTargets

ClientStarted ==
    /\ watch.run = "benchmark" /\ watch.benchmark # "manual"
    /\ ~NoSuchNode(watch.client_placement) /\ client = TheClient

NoneToStart == client = NoClient /\ (watch.run # "benchmark" \/ watch.benchmark = "manual")

Clients ==
    /\ stage \in {"profiling", "aborted"} => ClientStarted
    /\ stage = "measuring" => ClientStarted \/ NoneToStart
    /\ stage \notin {"measuring", "profiling", "aborted"} => client = NoClient

Requests ==
    /\ stage # "profiling" => asked = {}
    /\ stage = "profiling" => /\ ScriptProfiles /\ asked = TheRequests
                              /\ ToAsk = {} \/ recipe.frontend \in {"dynamo", "sglang"}

MeasureInv == /\ LaunchInv /\ PlacesAll /\ watch \in Watch /\ Stages /\ Fronts /\ Probes
              /\ Exporting /\ Targets /\ Clients /\ Requests

\* Only the launch of the workers changes what they are.
LEMMA OnlyBuild ==
  ASSUME [MeasureNext]_measureVars
  PROVE  /\ watch' = watch
         /\ Build \/ UNCHANGED allVars
  BY DEF MeasureNext, measureVars, measuring, LoadAccepts, LoadRejects, Loaded, Build, StartFrontends,
         PlacementRaises, Raised, StartPower, StartScraper, Probed, ServeOnly, StartClient,
         ClientRaises, StartProfiling

LEMMA SameAcceptance ==
  ASSUME recipe' = recipe, watch' = watch
  PROVE  AcceptsWatch' <=> AcceptsWatch
<1>1. AcceptsSetup' <=> AcceptsSetup
  BY DEF AcceptsSetup
<1>2. AcceptsPlacement' <=> AcceptsPlacement
  BY DEF AcceptsPlacement
<1>3. AcceptsSingleFrontend' <=> AcceptsSingleFrontend
  BY DEF AcceptsSingleFrontend
<1>4. AcceptsMooncake' <=> AcceptsMooncake
  BY DEF AcceptsMooncake
<1>5. AcceptsProfiling' <=> AcceptsProfiling
  BY DEF AcceptsProfiling, ServedModes
<1>6. AcceptsPower' <=> AcceptsPower
  BY DEF AcceptsPower, SharesClock, JoinTimeout, TwoCycles, MaxSampleGap
<1>7. AcceptsObservability' <=> AcceptsObservability
  BY DEF AcceptsObservability, TachometerOn
<1> QED
  BY <1>1, <1>2, <1>3, <1>4, <1>5, <1>6, <1>7 DEF AcceptsWatch

PublicNode(frontend, leaders, orchestrator) ==
    IF frontend = "vllm" /\ Cardinality(leaders) = 1 THEN (CHOOSE p \in leaders : TRUE).node
    ELSE orchestrator

\* While the workers stay, the stages find the same.
LEMMA SameNodes ==
  ASSUME UNCHANGED allVars, watch' = watch
  PROVE  /\ WorkerNodes' = WorkerNodes /\ HeadNode' = HeadNode /\ Bench' = Bench
         /\ \A m \in Modes : Leaders(m)' = Leaders(m)
         /\ OrchestratorNode' = OrchestratorNode /\ BenchmarkNode' = BenchmarkNode
         /\ PublicApiNode' = PublicApiNode /\ HostNodes' = HostNodes
         /\ SingleFrontend' <=> SingleFrontend
         /\ Direct' <=> Direct
         /\ \A t \in Placements : NoSuchNode(t)' <=> NoSuchNode(t)
         /\ ProbeRaises' <=> ProbeRaises
<1>1. UNCHANGED <<recipe, pool, reserved, processes, endpoints>>
  BY DEF allVars, vars
<1>2. WorkerNodes' = WorkerNodes
  BY <1>1 DEF WorkerNodes
<1>3. HeadNode' = HeadNode /\ Bench' = Bench
  BY <1>1, <1>2 DEF HeadNode, Bench
<1>4. ASSUME NEW m PROVE Leaders(m)' = Leaders(m)
  BY <1>1 DEF Leaders, IsLeader, Mode
<1>5. OrchestratorNode' = OrchestratorNode
  BY <1>3, <1>4 DEF OrchestratorNode, PlacedNode
<1>6. BenchmarkNode' = BenchmarkNode
  BY <1>3, <1>4 DEF BenchmarkNode, PlacedNode
<1>7. PublicApiNode' = PublicApiNode
  <2>1. Leaders("agg")' = Leaders("agg")
    BY <1>4
  <2>2. PublicApiNode = PublicNode(recipe.frontend, Leaders("agg"), OrchestratorNode)
    BY DEF PublicApiNode, PublicNode
  <2>3. PublicApiNode' = PublicNode(recipe'.frontend, Leaders("agg")', OrchestratorNode')
    BY DEF PublicApiNode, PublicNode
  <2> QED
    BY <1>1, <1>5, <2>1, <2>2, <2>3
<1>8. SingleFrontend' <=> SingleFrontend
  BY <1>2 DEF SingleFrontend
<1>9. /\ Direct' <=> Direct
      /\ \A t : NoSuchNode(t)' <=> NoSuchNode(t)
      /\ ProbeRaises' <=> ProbeRaises
      /\ HostNodes' = HostNodes
  BY <1>1, <1>4 DEF Direct, NoSuchNode, ProbeRaises, HostNodes
<1> QED
  BY <1>2, <1>3, <1>4, <1>5, <1>6, <1>7, <1>8, <1>9

LEMMA SameFronts ==
  ASSUME UNCHANGED allVars, watch' = watch
  PROVE  /\ TheProxy' = TheProxy /\ TheFrontends' = TheFrontends
         /\ UNCHANGED <<proxy, frontends>> => PublicNodes' = PublicNodes
<1>1. /\ HeadNode' = HeadNode /\ WorkerNodes' = WorkerNodes /\ OrchestratorNode' = OrchestratorNode
      /\ SingleFrontend' <=> SingleFrontend
      /\ Direct' <=> Direct
  BY SameNodes
<1>2. TheProxy' = TheProxy
  BY <1>1 DEF TheProxy
<1>3. FrontendUrlPort' = FrontendUrlPort /\ OtherNodes' = OtherNodes
  BY <1>1 DEF FrontendUrlPort, OtherNodes, FrontendPort, InternalPort
<1>4. FrontendNodes' = FrontendNodes
  BY <1>1, <1>3 DEF FrontendNodes
<1>5. TheFrontends' = TheFrontends
  BY <1>1, <1>3, <1>4 DEF TheFrontends
<1>6. commands' = commands
  BY DEF allVars, launching
<1> QED
  BY <1>2, <1>5, <1>6 DEF PublicNodes, FrontendPort

LEMMA SameReads ==
  ASSUME UNCHANGED allVars, watch' = watch
  PROVE  /\ TheTargets' = TheTargets
         /\ TachometerOn' <=> TachometerOn
         /\ ClientUrls' = ClientUrls /\ SlowDownUrls' = SlowDownUrls
<1>1. /\ HostNodes' = HostNodes
      /\ \A m \in Modes : Leaders(m)' = Leaders(m)
  BY SameNodes
<1>2. UNCHANGED <<recipe, processes, endpoints>>
  BY DEF allVars, vars
<1>3. /\ Leaders("agg")' = Leaders("agg") /\ Leaders("prefill")' = Leaders("prefill")
      /\ Leaders("decode")' = Leaders("decode")
  BY <1>1 DEF Modes
<1>4. FrontendNodes' = FrontendNodes /\ FrontendUrlPort' = FrontendUrlPort
  <2>1. /\ HeadNode' = HeadNode /\ WorkerNodes' = WorkerNodes /\ OrchestratorNode' = OrchestratorNode
        /\ SingleFrontend' <=> SingleFrontend
    BY SameNodes
  <2>2. FrontendUrlPort' = FrontendUrlPort /\ OtherNodes' = OtherNodes
    BY <2>1 DEF FrontendUrlPort, OtherNodes, FrontendPort, InternalPort
  <2> QED
    BY <2>1, <2>2 DEF FrontendNodes
<1>5. TachometerOn' <=> TachometerOn
  BY DEF TachometerOn
<1>6. KvbmUrls' = KvbmUrls /\ WithHttp' = WithHttp /\ LogicalWorkers' = LogicalWorkers
  BY <1>2, <1>3 DEF KvbmUrls, Url, WithHttp, LogicalWorkers, IsLeader
<1>7. LogicalMetrics' = LogicalMetrics
  BY <1>2, <1>6 DEF LogicalMetrics, LogicalUrl, SysUrl, PublicUrl, HttpUrl, Url
<1>8. PhysicalMetrics' = PhysicalMetrics
  BY <1>2, <1>3, <1>6 DEF PhysicalMetrics, Publishes, SysUrl, PublicUrl, HttpUrl, Url
<1>9. InjectedUrls' = InjectedUrls
  BY <1>7, <1>8 DEF InjectedUrls, AIPerf
<1>10. ClientPolledUrls' = ClientPolledUrls /\ ClientUrls' = ClientUrls
  BY <1>9 DEF ClientPolledUrls, ClientUrls, AIPerf
<1>11. WorkerTargets' = WorkerTargets
  BY <1>2, <1>3, <1>6 DEF WorkerTargets, SysUrl, PublicUrl, HttpUrl, Url
<1>12. FrontendTargets' = FrontendTargets
  BY <1>2, <1>3, <1>4 DEF FrontendTargets, Url
<1>13. ExporterTargets' = ExporterTargets
  BY <1>1 DEF ExporterTargets, Url
<1>14. TheTargets' = TheTargets
  BY <1>5, <1>10, <1>11, <1>12, <1>13 DEF TheTargets, TachometerTargets
<1>15. SlowDownUrls' = SlowDownUrls
  BY <1>2, <1>3 DEF SlowDownUrls, HttpUrl, Url
<1> QED
  BY <1>5, <1>10, <1>14, <1>15

LEMMA SameRequests ==
  ASSUME UNCHANGED allVars, watch' = watch
  PROVE  /\ TheClient' = TheClient /\ TheRequests' = TheRequests /\ ToAsk' = ToAsk
         /\ ScriptProfiles' <=> ScriptProfiles
<1>1. UNCHANGED <<recipe, processes, endpoints>>
  BY DEF allVars, vars
<1>2. TheClient' = TheClient
  <2>1. BenchmarkNode' = BenchmarkNode /\ PublicApiNode' = PublicApiNode
    BY SameNodes
  <2>2. ClientUrls' = ClientUrls /\ SlowDownUrls' = SlowDownUrls
    BY SameReads
  <2> QED
    BY <2>1, <2>2 DEF TheClient
<1>3. ScriptProfiles' <=> ScriptProfiles
  BY <1>1 DEF ScriptProfiles
<1>4. LogicalWorkers' = LogicalWorkers
  BY <1>1 DEF LogicalWorkers, IsLeader, WithHttp
<1>5. ASSUME NEW m PROVE ScriptWindow(m)' = ScriptWindow(m)
  BY DEF ScriptWindow, Or
<1>6. ASSUME NEW p PROVE /\ ScriptWindow(Mode(p))' = ScriptWindow(Mode(p))
                        /\ ProfileRequest(p)' = ProfileRequest(p)
  <2>1. Mode(p)' = Mode(p)
    BY <1>1 DEF Mode
  <2>2. ScriptWindow(Mode(p))' = ScriptWindow(Mode(p))
    BY <2>1 DEF ScriptWindow, Or
  <2>3. LogicalUrl(p)' = LogicalUrl(p)
    BY <1>1 DEF LogicalUrl, SysUrl, PublicUrl, HttpUrl, Url
  <2> QED
    BY <2>2, <2>3 DEF ProfileRequest
<1>7. ToAsk' = ToAsk
  BY <1>3, <1>4, <1>6 DEF ToAsk
<1>8. TheRequests' = TheRequests
  BY <1>6, <1>7 DEF TheRequests
<1> QED
  BY <1>2, <1>3, <1>7, <1>8

-----------------------------------------------------------------------------
(* The invariant of the stages                                             *)

\* The workers are built before anything is put around them.
LEMMA BuildsFirst ==
  ASSUME MeasureInv, Build
  PROVE  MeasureInv'
<1>1. /\ stage = "launch" /\ LaunchNext /\ UNCHANGED measuring
      /\ LaunchInv /\ PlacesAll /\ TypeOK /\ Unplaced
  BY DEF Build, MeasureInv, LaunchInv, ProcessInv, PortsInv, PlacedInv
<1>2. LaunchInv'
  <2>1. ProcessInv /\ Commands /\ AllBelow /\ [Next]_vars
    BY <1>1 DEF LaunchInv, ProcessInv, PortsInv, LaunchNext, Prepare, BeginStage, Start,
                StartRaises, AllStarted
  <2> QED
    BY <1>1, <2>1, ProcessStep, CommandsStep DEF LaunchInv
<1>3. PlacesAll'
  <2>1. [Next]_vars
    BY <1>1 DEF LaunchNext, Prepare, BeginStage, Start, StartRaises, AllStarted
  <2> QED
    BY <1>1, <2>1, PlacesStep
<1>4. recipe' = recipe
  BY <1>1 DEF LaunchNext, Prepare, BeginStage, Start, StartRaises, AllStarted, vars,
              Next, Submit, SubmitRejected, Carve, CarveRejected, PlaceFullNode, PlacePartialNode,
              OutOfNodes, StartDecode, StartAgg, AllPlaced, Convert, ConvertRejected, AllConverted
<1>5. UNCHANGED <<watch, stage, proxy, frontends, exporters, targets, client, asked>>
  BY <1>1 DEF measuring
<1>6. Stages'
  BY <1>1, <1>4, <1>5, SameAcceptance DEF MeasureInv, Stages, Started2
<1>7. Fronts' /\ Probes'
  BY <1>1, <1>5 DEF Fronts, Probes, Started2, Answered
<1>8. Exporting' /\ Targets'
  <2>1. \A e \in exporters' : ExporterOf(e)'
    BY <1>5 DEF MeasureInv, Exporting, ExporterOf
  <2> QED
    BY <1>1, <1>5, <2>1 DEF Exporting, Targets, Scraping, Answered
<1>9. Clients' /\ Requests'
  BY <1>1, <1>5 DEF MeasureInv, Clients, Requests, NoClient
<1> QED
  BY <1>2, <1>3, <1>5, <1>6, <1>7, <1>8, <1>9 DEF MeasureInv

LEMMA StagesStep ==
  ASSUME Stages, [MeasureNext]_measureVars, UNCHANGED allVars, watch' = watch
  PROVE  Stages'
<1>1. AcceptsWatch' <=> AcceptsWatch
  BY SameAcceptance DEF allVars, vars
<1>2. launch' = launch
  BY DEF allVars, launching
<1>3. \/ stage' = stage
      \/ stage = "load" /\ stage' = "launch" /\ AcceptsWatch
      \/ stage = "load" /\ stage' = "rejected"
      \/ stage \in {"launch"} \cup Started2 /\ stage' = "raised"
      \/ stage \in {"launch"} \cup Started2 /\ launch = "started" /\ stage' \in Started2
  BY DEF MeasureNext, measureVars, measuring, LoadAccepts, LoadRejects, Loaded, Build, StartFrontends,
         PlacementRaises, Raised, StartPower, StartScraper, Probed, ServeOnly, HasClient, StartClient,
         ClientRaises, StartProfiling, Started2, Stages
<1> QED
  BY <1>1, <1>2, <1>3 DEF Stages, Started2

LEMMA FrontsStep ==
  ASSUME Fronts, Stages, watch \in Watch, [MeasureNext]_measureVars, UNCHANGED allVars, watch' = watch
  PROVE  Fronts'
<1>1. /\ TheProxy' = TheProxy /\ TheFrontends' = TheFrontends
      /\ SingleFrontend' <=> SingleFrontend
      /\ NoSuchNode(watch.orchestrator_placement)' <=> NoSuchNode(watch.orchestrator_placement)
  BY SameFronts, SameNodes DEF Watch
<1>2. CASE StartFrontends
  BY <1>1, <1>2 DEF StartFrontends, Fronts, TheProxy, TheFrontends
<1>3. CASE ~StartFrontends
  <2>1. /\ UNCHANGED <<proxy, frontends>>
        /\ stage' \in Started2 => stage \in Started2
    BY <1>3 DEF MeasureNext, measureVars, measuring, LoadAccepts, LoadRejects, Loaded, Build,
         PlacementRaises, Raised, StartPower, StartScraper, Probed, ServeOnly, HasClient, StartClient,
         ClientRaises, StartProfiling, Started2
  <2> QED
    BY <1>1, <2>1 DEF Fronts
<1> QED
  BY <1>2, <1>3

LEMMA ProbesStep ==
  ASSUME Probes, [MeasureNext]_measureVars, UNCHANGED allVars, watch' = watch
  PROVE  Probes'
<1>1. PublicApiNode' = PublicApiNode /\ (ProbeRaises' <=> ProbeRaises)
  BY SameNodes
<1>2. CASE stage' \notin {"unready"} \cup Answered
  BY <1>2 DEF Probes, Answered
<1>3. CASE stage' \in {"unready"} \cup Answered
  <2>1. UNCHANGED <<proxy, frontends>>
    BY <1>3 DEF MeasureNext, measureVars, measuring, LoadAccepts, LoadRejects, Loaded, Build,
         StartFrontends, PlacementRaises, Raised, StartPower, StartScraper, Probed, ServeOnly,
         HasClient, StartClient, ClientRaises, StartProfiling, Answered
  <2>2. PublicNodes' = PublicNodes
    BY <2>1, SameFronts
  <2>3. CASE Probed
    BY <1>1, <2>2, <2>3 DEF Probed, Probes, Answered
  <2>4. CASE ~Probed
    <3>1. \/ stage' = stage
          \/ stage \in Answered /\ stage' \in Answered
      BY <1>3, <2>4 DEF MeasureNext, measureVars, measuring, LoadAccepts, LoadRejects, Loaded, Build,
         StartFrontends, PlacementRaises, Raised, StartPower, StartScraper, ServeOnly,
         HasClient, StartClient, ClientRaises, StartProfiling, Answered
    <3> QED
      BY <1>1, <2>2, <3>1 DEF Probes, Answered
  <2> QED
    BY <2>3, <2>4
<1> QED
  BY <1>2, <1>3

LEMMA ExportingStep ==
  ASSUME Exporting, [MeasureNext]_measureVars, UNCHANGED allVars, watch' = watch
  PROVE  Exporting'
<1>1. HostNodes' = HostNodes /\ (TachometerOn' <=> TachometerOn)
  BY SameNodes, SameReads
<1>2. CASE StartPower
  <2>1. /\ stage' = "power"
        /\ exporters' = IF watch.power /\ watch.run # "eval" THEN OnHosts("dcgm", "power") ELSE {}
    BY <1>2 DEF StartPower
  <2>2. \A e \in exporters' : ExporterOf(e)'
    BY <2>1 DEF OnHosts, ExporterOf
  <2>3. ASSUME watch.power, watch.run # "eval", NEW n \in HostNodes
        PROVE  \E e \in exporters' : e.node = n /\ e.kind = "dcgm"
    <3>1. [node |-> n, kind |-> "dcgm", owner |-> "power"] \in exporters'
      BY <2>1, <2>3 DEF OnHosts
    <3> QED
      BY <3>1
  <2> QED
    BY <1>1, <2>1, <2>2, <2>3 DEF Exporting
<1>3. CASE StartScraper
  <2>1. /\ stage = "power" /\ stage' = "scraping" /\ exporters \subseteq exporters'
        /\ exporters' = exporters
              \cup (IF TachometerOn /\ watch.dcgm /\ ~watch.power
                      THEN OnHosts("dcgm", "tachometer") ELSE {})
              \cup (IF TachometerOn /\ watch.node_exporter
                      THEN OnHosts("node_exporter", "tachometer") ELSE {})
    BY <1>3 DEF StartScraper
  <2>2. \A e \in exporters' : ExporterOf(e)'
    <3> TAKE e \in exporters'
    <3>1. CASE e \in exporters
      BY <3>1 DEF Exporting, ExporterOf
    <3>2. CASE e \in OnHosts("dcgm", "tachometer") /\ ~watch.power
      BY <3>2 DEF OnHosts, ExporterOf
    <3>3. CASE e \in OnHosts("node_exporter", "tachometer")
      BY <3>3 DEF OnHosts, ExporterOf
    <3> QED
      BY <2>1, <3>1, <3>2, <3>3
  <2>3. ASSUME watch.power, watch.run # "eval", NEW n \in HostNodes
        PROVE  \E e \in exporters' : e.node = n /\ e.kind = "dcgm"
    BY <2>1, <2>3 DEF Exporting
  <2>4. ASSUME TachometerOn, watch.dcgm, ~watch.power, NEW n \in HostNodes
        PROVE  \E e \in exporters' : e.node = n /\ e.kind = "dcgm"
    <3>1. [node |-> n, kind |-> "dcgm", owner |-> "tachometer"] \in exporters'
      BY <2>1, <2>4 DEF OnHosts
    <3> QED
      BY <3>1
  <2>5. ASSUME TachometerOn, watch.node_exporter, NEW n \in HostNodes
        PROVE  \E e \in exporters' : e.node = n /\ e.kind = "node_exporter"
    <3>1. [node |-> n, kind |-> "node_exporter", owner |-> "tachometer"] \in exporters'
      BY <2>1, <2>5 DEF OnHosts
    <3> QED
      BY <3>1
  <2> QED
    BY <1>1, <2>1, <2>2, <2>3, <2>4, <2>5 DEF Exporting
<1>4. CASE ~StartPower /\ ~StartScraper
  <2>1. /\ exporters' = exporters
        /\ stage' \in {"power", "scraping"} => stage' = stage
    BY <1>4 DEF MeasureNext, measureVars, measuring, LoadAccepts, LoadRejects, Loaded, Build,
         StartFrontends, PlacementRaises, Raised, Probed, ServeOnly, HasClient, StartClient,
         ClientRaises, StartProfiling
  <2>2. \A e \in exporters' : ExporterOf(e)'
    BY <2>1 DEF Exporting, ExporterOf
  <2> QED
    BY <1>1, <2>1, <2>2 DEF Exporting
<1> QED
  BY <1>2, <1>3, <1>4

LEMMA TargetsStep ==
  ASSUME Targets, [MeasureNext]_measureVars, UNCHANGED allVars, watch' = watch
  PROVE  Targets'
<1>1. TheTargets' = TheTargets
  BY SameReads
<1>2. CASE StartScraper
  BY <1>1, <1>2 DEF StartScraper, Targets, TheTargets
<1>3. CASE ~StartScraper
  <2>1. /\ targets' = targets
        /\ stage' \in Scraping => stage \in Scraping
    BY <1>3 DEF MeasureNext, measureVars, measuring, LoadAccepts, LoadRejects, Loaded, Build,
         StartFrontends, PlacementRaises, Raised, StartPower, Probed, ServeOnly, HasClient, StartClient,
         ClientRaises, StartProfiling, Scraping, Answered
  <2> QED
    BY <1>1, <2>1 DEF Targets
<1> QED
  BY <1>2, <1>3

LEMMA ClientsStep ==
  ASSUME Clients, watch \in Watch, [MeasureNext]_measureVars, UNCHANGED allVars, watch' = watch
  PROVE  Clients'
<1>1. TheClient' = TheClient
  BY SameRequests
<1>2. NoSuchNode(watch.client_placement)' <=> NoSuchNode(watch.client_placement)
  BY SameNodes DEF Watch
<1>3. NoneToStart /\ client' = client => NoneToStart'
  BY DEF NoneToStart, NoClient
<1>4. ClientStarted /\ client' = client => ClientStarted'
  BY <1>1, <1>2 DEF ClientStarted
<1>5. CASE StartClient
  <2>1. client' = TheClient /\ stage' = "measuring"
    BY <1>5 DEF StartClient, TheClient
  <2>2. ClientStarted'
    BY <1>1, <1>2, <1>5, <2>1 DEF StartClient, HasClient, ClientStarted
  <2> QED
    BY <2>1, <2>2 DEF Clients
<1>6. CASE ServeOnly
  <2>1. NoneToStart /\ client' = client
    BY <1>6 DEF ServeOnly, Clients, NoneToStart
  <2> QED
    BY <1>3, <1>6, <2>1 DEF ServeOnly, Clients
<1>7. CASE StartProfiling
  <2>1. ClientStarted /\ client' = client /\ stage' \in {"profiling", "aborted"}
    BY <1>7 DEF StartProfiling, Clients, NoneToStart
  <2> QED
    BY <1>4, <2>1 DEF Clients
<1>8. CASE ~StartClient /\ ~ServeOnly /\ ~StartProfiling
  <2>1. /\ client' = client
        /\ \/ stage' = stage
           \/ /\ stage' \notin {"measuring", "profiling", "aborted"}
              /\ stage \notin {"measuring", "profiling", "aborted"}
    BY <1>8 DEF MeasureNext, measureVars, measuring, LoadAccepts, LoadRejects, Loaded, Build,
         StartFrontends, PlacementRaises, Raised, StartPower, StartScraper, Probed, HasClient,
         ClientRaises
  <2>2. NoClient' = NoClient
    BY DEF NoClient
  <2> QED
    BY <1>3, <1>4, <2>1, <2>2 DEF Clients
<1> QED
  BY <1>5, <1>6, <1>7, <1>8

LEMMA RequestsStep ==
  ASSUME Requests, [MeasureNext]_measureVars, UNCHANGED allVars, watch' = watch
  PROVE  Requests'
<1>1. /\ TheRequests' = TheRequests /\ ToAsk' = ToAsk
      /\ ScriptProfiles' <=> ScriptProfiles
      /\ recipe' = recipe
  BY SameRequests DEF allVars, vars
<1>2. CASE StartProfiling
  <2>1. stage' # "profiling" => asked' = asked /\ stage # "profiling"
    BY <1>2 DEF StartProfiling
  <2>2. stage' = "profiling" =>
           /\ ScriptProfiles /\ asked' = TheRequests
           /\ ToAsk = {} \/ recipe.frontend \in {"dynamo", "sglang"}
    BY <1>2 DEF StartProfiling, TheRequests
  <2>3. stage' # "profiling" => asked' = {}
    BY <2>1 DEF Requests
  <2> QED
    BY <1>1, <2>2, <2>3 DEF Requests
<1>3. CASE ~StartProfiling
  <2>1. /\ asked' = asked
        /\ stage' = "profiling" <=> stage = "profiling"
    BY <1>3 DEF MeasureNext, measureVars, measuring, LoadAccepts, LoadRejects, Loaded, Build,
         StartFrontends, PlacementRaises, Raised, StartPower, StartScraper, Probed, ServeOnly,
         HasClient, StartClient, ClientRaises
  <2> QED
    BY <1>1, <2>1 DEF Requests
<1> QED
  BY <1>2, <1>3

LEMMA MeasureInvariance == MeasureSpec => []MeasureInv
<1>1. MeasureInit => MeasureInv
  <2> SUFFICES ASSUME MeasureInit PROVE MeasureInv
    OBVIOUS
  <2>1. /\ LaunchInit /\ Init /\ launch = "no" /\ commands = {} /\ watch \in WatchesOf(recipe)
        /\ stage = "load" /\ exporters = {} /\ client = NoClient /\ asked = {}
    BY DEF MeasureInit, LaunchInit
  <2>2. watch \in Watch
    BY <2>1, WatchesAssumption DEF Init
  <2>3. LaunchInv
    <3>1. Sharers /\ Numbered
      BY <2>1 DEF Init, Sharers, Numbered
    <3>2. Commands
      BY <2>1 DEF Commands
    <3> QED
      BY <2>1, <3>1, <3>2, PortsInitial, PlacedInitial, MadeInitial DEF LaunchInv, ProcessInv
  <2>4. PlacesAll
    BY <2>1, PlacesInitial
  <2>5. /\ Stages /\ Fronts /\ Probes /\ Exporting /\ Targets /\ Clients /\ Requests
    BY <2>1 DEF Stages, Fronts, Probes, Exporting, Targets, Clients, Requests, Started2, Answered, Scraping
  <2> QED
    BY <2>2, <2>3, <2>4, <2>5 DEF MeasureInv
<1>2. MeasureInv /\ [MeasureNext]_measureVars => MeasureInv'
  <2> SUFFICES ASSUME MeasureInv, [MeasureNext]_measureVars PROVE MeasureInv'
    OBVIOUS
  <2>1. watch' = watch /\ (Build \/ UNCHANGED allVars)
    BY OnlyBuild
  <2>2. CASE UNCHANGED allVars
    <3>1. LaunchInv /\ ProcessInv /\ Commands /\ AllBelow /\ TypeOK /\ Unplaced /\ PlacesAll
      BY DEF MeasureInv, LaunchInv, ProcessInv, PortsInv, PlacedInv
    <3>2. [Next]_vars /\ [LaunchNext]_allVars
      BY <2>2 DEF allVars
    <3>3. LaunchInv' /\ PlacesAll'
      BY <3>1, <3>2, ProcessStep, CommandsStep, PlacesStep DEF LaunchInv
    <3>4. Stages' /\ Fronts' /\ Probes'
      BY <2>1, <2>2, StagesStep, FrontsStep, ProbesStep DEF MeasureInv
    <3>5. Exporting' /\ Targets' /\ Clients' /\ Requests'
      BY <2>1, <2>2, ExportingStep, TargetsStep, ClientsStep, RequestsStep DEF MeasureInv
    <3> QED
      BY <2>1, <3>3, <3>4, <3>5 DEF MeasureInv
  <2> QED
    BY <2>1, <2>2, BuildsFirst
<1> QED
  BY <1>1, <1>2, PTL DEF MeasureSpec

-----------------------------------------------------------------------------
(* The client                                                              *)

\* While there is a client, it is the one the recipe and the processes give.
LEMMA ClientIs ==
  ASSUME MeasureInv, client # NoClient
  PROVE  /\ ClientStarted /\ stage \in Answered /\ launch = "started"
         /\ PublicApiNode \in PublicNodes /\ ~ProbeRaises
BY DEF MeasureInv, Clients, NoneToStart, Stages, Probes, Answered, Started2

\* By localhost the client reaches the public endpoint.
LEMMA LocalhostServes ==
  ASSUME MeasureInv, client # NoClient, ByLocalhost
  PROVE  BenchmarkNode \in PublicNodes
<1>1. /\ ClientStarted /\ launch = "started" /\ PublicApiNode \in PublicNodes /\ ~ProbeRaises
      /\ LaunchInv /\ PlacesAll /\ watch \in Watch
  BY ClientIs DEF MeasureInv
<1>2. /\ Bench = HeadNode /\ watch.client_placement = watch.orchestrator_placement /\ ~Superfluous
      /\ ~NoSuchNode(watch.client_placement)
  BY <1>1 DEF ByLocalhost, ClientStarted
<1>3. BenchmarkNode = OrchestratorNode
  BY <1>2 DEF BenchmarkNode, OrchestratorNode, PlacedNode
<1>4. CASE recipe.frontend # "vllm"
  BY <1>1, <1>3, <1>4 DEF PublicApiNode
<1>5. CASE recipe.frontend = "vllm"
  <2>1. Direct /\ "frontend" \notin recipe.dedicated
    BY <1>2, <1>5 DEF Direct, Superfluous
  <2>2. PublicApiNode = FromFront + 1
    BY <1>1, <1>5, <2>1, DirectFound
  <2>3. Leaders("decode") = {}
    BY <1>1, <1>5, <2>1, OneWorker
  <2>4. watch.orchestrator_placement = "head"
    BY <1>2, <2>3 DEF NoSuchNode
  <2>5. OrchestratorNode = HeadNode
    BY <2>4 DEF OrchestratorNode, PlacedNode
  <2>6. ProcessInv /\ phase = "done"
    BY <1>1 DEF LaunchInv, Commands
  <2>7. HeadNode = FromFront + 1
    BY <2>1, <2>6, NodesOfTheJob
  <2> QED
    BY <1>1, <1>3, <2>2, <2>5, <2>7
<1> QED
  BY <1>4, <1>5

\* The stages agree on who is where, however many nodes there are and wherever the recipe
\* puts the orchestrator, the frontend and the client.
THEOREM ClientsArePlaced == MeasureSpec => []ClientPlaced
<1>1. MeasureInv => ClientPlaced
  <2> SUFFICES ASSUME MeasureInv PROVE ClientPlaced
    OBVIOUS
  <2>1. ASSUME stage = "unready"
        PROVE  Unfollowed \/ (recipe.frontend = "trtllm_serve" /\ (Superfluous \/ MixesKinds(recipe)))
    <3>1. /\ launch = "started" /\ proxy = TheProxy /\ frontends = TheFrontends
          /\ PublicApiNode \notin PublicNodes /\ ~ProbeRaises
          /\ LaunchInv /\ PlacesAll /\ watch \in Watch
      BY <2>1 DEF MeasureInv, Stages, Fronts, Probes, Started2
    <3> QED
      BY <3>1, PublicFound
  <2>2. ASSUME client # NoClient
        PROVE  /\ ByLocalhost \/ watch.benchmark \in {"agentperf", "custom"} => client.asks \in PublicNodes
               /\ client.stamps /\ "client" \notin recipe.dedicated => client.node = 1
    <3>1. client = TheClient /\ PublicApiNode \in PublicNodes
      BY <2>2, ClientIs DEF ClientStarted
    <3>2. client.node = BenchmarkNode /\ client.stamps = watch.power
          /\ client.asks = IF watch.benchmark \in {"agentperf", "custom"} THEN PublicApiNode
                           ELSE BenchmarkNode
      BY <3>1 DEF TheClient
    <3>3. ByLocalhost => BenchmarkNode \in PublicNodes
      BY <2>2, LocalhostServes
    <3>4. ASSUME watch.power, "client" \notin recipe.dedicated PROVE BenchmarkNode = 1
      <4>1. AcceptsWatch /\ LaunchInv /\ launch = "started"
        BY <2>2, ClientIs DEF MeasureInv, Stages, Answered
      <4>2. watch.client_placement = "head" /\ "infra" \notin recipe.dedicated
        BY <3>4, <4>1 DEF AcceptsWatch, AcceptsPower, SharesClock
      <4>3. ProcessInv /\ phase = "done" /\ recipe \in Recipe
        BY <4>1 DEF LaunchInv, Commands, ProcessInv, PortsInv, TypeOK
      <4>4. recipe.dedicated \subseteq {"frontend"}
        BY <3>4, <4>2, <4>3 DEF Recipe, Roles
      <4>5. HeadNode = 1
        BY <4>3, <4>4, NodesOfTheJob
      <4> QED
        BY <3>4, <4>2, <4>5 DEF BenchmarkNode, Bench
    <3> QED
      BY <3>1, <3>2, <3>3, <3>4
  <2> QED
    BY <2>1, <2>2 DEF ClientPlaced
<1> QED
  BY <1>1, MeasureInvariance, PTL

-----------------------------------------------------------------------------
(* Who reads what                                                          *)

\* What Tachometer leaves to the client the client polls, if it keeps its word.
LEMMA LeftToTheClient ==
  ASSUME MeasureInv, stage = "measuring", ClientKeepsWord
  PROVE  client.urls = ClientPolledUrls
<1>1. /\ watch \in Watch /\ watch.own_urls = None
      /\ watch.run \in {"benchmark", "serve"}
      /\ watch.urls # None => watch.run = "serve" \/ AIPerf \/ watch.benchmark = "custom"
  BY DEF MeasureInv, ClientKeepsWord, Watch
<1>2. CASE ClientStarted
  <2>1. client.urls = ClientUrls /\ watch.run = "benchmark"
    BY <1>2 DEF ClientStarted, TheClient
  <2> QED
    BY <1>1, <2>1 DEF ClientUrls, ClientPolledUrls, InjectedUrls
<1>3. CASE NoneToStart
  <2>1. client.urls = {} /\ (watch.run # "benchmark" \/ watch.benchmark = "manual")
    BY <1>3 DEF NoneToStart, NoClient
  <2> QED
    BY <1>1, <2>1 DEF ClientPolledUrls, InjectedUrls, AIPerf
<1> QED
  BY <1>2, <1>3 DEF MeasureInv, Clients

\* Tachometer is told of every worker that has metrics.
LEMMA SurfaceIsTarget ==
  ASSUME LaunchInv, recipe.frontend \in {"dynamo", "vllm-router"}
  PROVE  WorkerSurface \subseteq WorkerTargets
<1>1. CASE recipe.frontend = "dynamo"
  BY <1>1 DEF WorkerSurface, WorkerTargets, Launched
<1>2. CASE recipe.frontend = "vllm-router"
  <2> SUFFICES ASSUME NEW c \in commands, c.serves # None
               PROVE  Url(c.node, "http", c.serves) \in WorkerTargets
    BY <1>2 DEF WorkerSurface
  <2>1. PICK p, i : p \in processes /\ Addressed(c, p, i)
    BY CommandOf
  <2>2. c.node = p.node /\ c.serves = p.http /\ p.http # None
    BY <1>2, <2>1 DEF Addressed
  <2> QED
    BY <1>2, <2>1, <2>2 DEF WorkerTargets, HttpUrl, WithHttp
<1> QED
  BY <1>1, <1>2

\* The kinds of what Tachometer reads tell the workers, frontends and exporters apart.
LEMMA KindsOfTargets ==
  /\ \A u \in WorkerTargets : u.kind \in {"sys", "http", "public"}
  /\ \A u \in FrontendTargets : u.kind = "frontend"
  /\ \A u \in ExporterTargets : u.kind \in {"dcgm", "node_exporter"}
<1>1. \A u \in WorkerTargets : u.kind \in {"sys", "http", "public"}
  BY DEF WorkerTargets, SysUrl, HttpUrl, PublicUrl, Url
<1>2. \A u \in FrontendTargets : u.kind = "frontend"
  BY DEF FrontendTargets, Url
<1>3. \A u \in ExporterTargets : u.kind \in {"dcgm", "node_exporter"}
  BY DEF ExporterTargets, Url
<1> QED
  BY <1>1, <1>2, <1>3

\* Every metrics endpoint is read, and read once.
THEOREM EveryEndpointIsReadOnce == MeasureSpec => []ReadOnce
<1>1. MeasureInv => ReadOnce
  <2> SUFFICES ASSUME MeasureInv PROVE ReadOnce
    OBVIOUS
  <2>1. ASSUME Scraped, recipe.frontend \in {"dynamo", "vllm-router"}, NEW u \in WorkerSurface
        PROVE  (u \in targets) # (u \in client.urls)
    <3>1. targets = TachometerTargets /\ LaunchInv
      BY <2>1 DEF Scraped, MeasureInv, Targets, Scraping, Answered, TheTargets
    <3>2. client.urls = ClientPolledUrls
      BY <2>1, LeftToTheClient DEF Scraped
    <3>3. u \in WorkerTargets /\ u \notin FrontendTargets /\ u \notin ExporterTargets
      BY <2>1, <3>1, SurfaceIsTarget, KindsOfTargets
    <3> QED
      BY <3>1, <3>2, <3>3 DEF TachometerTargets
  <2>2. ASSUME Scraped, recipe.frontend \in {"dynamo", "vllm-router"}
        PROVE  {[node |-> u.node, port |-> u.port] : u \in {t \in targets : t.kind = "frontend"}} = frontends
    <3>1. /\ targets = TachometerTargets /\ frontends = TheFrontends
      BY <2>2 DEF Scraped, MeasureInv, Targets, Scraping, Answered, TheTargets, Fronts, Started2
    <3>2. /\ frontends = {[node |-> n, port |-> FrontendUrlPort] : n \in FrontendNodes}
          /\ FrontendTargets = {Url(n, "frontend", FrontendUrlPort) : n \in FrontendNodes}
      BY <2>2, <3>1 DEF TheFrontends, Direct, FrontendTargets
    <3>3. {t \in targets : t.kind = "frontend"} = FrontendTargets
      BY <3>1, KindsOfTargets DEF TachometerTargets
    <3> DEFINE at(u) == [node |-> u.node, port |-> u.port]
    <3>4. ASSUME NEW u \in FrontendTargets PROVE at(u) \in frontends
      <4>1. PICK n \in FrontendNodes : u = Url(n, "frontend", FrontendUrlPort)
        BY <3>2
      <4>2. at(u) = [node |-> n, port |-> FrontendUrlPort]
        BY <4>1 DEF Url
      <4> QED
        BY <3>2, <4>2
    <3>5. ASSUME NEW f \in frontends PROVE \E u \in FrontendTargets : f = at(u)
      <4>1. PICK n \in FrontendNodes : f = [node |-> n, port |-> FrontendUrlPort]
        BY <3>2
      <4>2. Url(n, "frontend", FrontendUrlPort) \in FrontendTargets
        BY <3>2
      <4>3. f = at(Url(n, "frontend", FrontendUrlPort))
        BY <4>1 DEF Url
      <4> QED
        BY <4>2, <4>3
    <3> HIDE DEF at
    <3>6. {at(u) : u \in FrontendTargets} = frontends
      BY <3>4, <3>5
    <3> QED
      BY <3>3, <3>6 DEF at
  <2>3. \A e, f \in exporters : e # f => e.node # f.node \/ e.kind # f.kind
    BY DEF MeasureInv, Exporting, ExporterOf
  <2>4. ASSUME stage = "scraping", watch.run # "eval", NEW t \in targets,
               t.kind \in {"dcgm", "node_exporter"}
        PROVE  \E e \in exporters : e.node = t.node /\ e.kind = t.kind
    <3>1. targets = TheTargets
      BY <2>4 DEF MeasureInv, Targets, Scraping
    <3>2. TachometerOn /\ t \in ExporterTargets
      BY <2>4, <3>1, KindsOfTargets DEF TheTargets, TachometerTargets
    <3>3. /\ t.node \in HostNodes
          /\ t.kind = "dcgm" => watch.power \/ watch.dcgm
          /\ t.kind = "node_exporter" => watch.node_exporter
      BY <3>2 DEF ExporterTargets, Url
    <3> QED
      BY <2>4, <3>2, <3>3 DEF MeasureInv, Exporting
  <2> QED
    BY <2>1, <2>2, <2>3, <2>4 DEF ReadOnce
<1> QED
  BY <1>1, MeasureInvariance, PTL

-----------------------------------------------------------------------------
(* Profiles                                                                *)

\* Once the workers run, a process is told apart by the endpoint and the rank.
LEMMA RunningProcess ==
  ASSUME LaunchInv, launch = "started", NEW p \in processes
  PROVE  /\ Ready /\ Mode(p) \in Modes
         /\ \E i, k : i \in DOMAIN endpoints /\ p.endpoint = i /\ Engine(p, i, k)
         /\ IsLeader(p) => p.http # None /\ p.http \in Nat /\ p \in Launched
         /\ p.sys \in Nat /\ p.sys < next.sys /\ p.node \in Nodes
<1>1. ProcessInv /\ phase = "done" /\ AllBelow
  BY DEF LaunchInv, Commands, ProcessInv, PortsInv
<1>2. Ready /\ \E i, k : Engine(p, i, k)
  BY <1>1, Converted
<1>3. PICK i, k : Engine(p, i, k)
  BY <1>2
<1>4. i \in DOMAIN endpoints /\ p.endpoint = i
  BY <1>3 DEF Engine, IsProcess
<1>5. /\ Mode(p) = endpoints[i].mode /\ (IsLeader(p) <=> k = 0)
      /\ k = 0 => p.http # None
  BY <1>2, <1>3, ProcessReads
<1>6. endpoints[i].mode \in Modes
  BY <1>3 DEF Engine, EndpointRecord
<1>7. /\ p.sys \in Nat /\ p.sys < next.sys /\ p.node \in Nodes
      /\ p.http # None => p.http \in Nat
  BY <1>1 DEF AllBelow, Below
<1> QED
  BY <1>2, <1>3, <1>4, <1>5, <1>6, <1>7 DEF Launched

\* A window the recipe gives is what the client's script asks for, and what the worker has.
LEMMA WindowAsked ==
  ASSUME watch \in Watch, NEW p, Mode(p) \in Modes, Given(watch.windows[Mode(p)]),
         watch.windows[Mode(p)].start < watch.windows[Mode(p)].stop
  PROVE  LET w == watch.windows[Mode(p)]
         IN  /\ w.start \in Nat /\ w.stop \in Nat
             /\ ScriptWindow(Mode(p)).start = w.start
             /\ ScriptWindow(Mode(p)).steps = w.stop - w.start
             /\ ScriptWindow(Mode(p)).steps > 0
             /\ WorkerWindow(p) \in {None, [start |-> w.start, steps |-> w.stop - w.start]}
<1> DEFINE w == watch.windows[Mode(p)]
<1>1. w # None /\ w.start # None /\ w.stop # None
  BY DEF Given
<1>2. w.start \in Nat /\ w.stop \in Nat
  <2>1. w \in Windows
    BY <1>1 DEF Watch
  <2> QED
    BY <1>1, <2>1 DEF Windows
<1>3. ScriptWindow(Mode(p)) = [start |-> w.start, steps |-> w.stop - w.start]
  BY <1>1 DEF ScriptWindow, Or
<1>4. w.stop - w.start \in Nat /\ w.stop - w.start > 0
  BY <1>2
<1>5. Max({w.stop - w.start, 0}) = w.stop - w.start
  <2>1. \A n \in Nat : n > 0 => (CHOOSE x \in {n, 0} : \A y \in {n, 0} : x >= y) = n
    OBVIOUS
  <2> QED
    BY <1>4, <2>1 DEF Max
<1>6. WorkerWindow(p) \in {None, [start |-> w.start, steps |-> w.stop - w.start]}
  BY <1>5 DEF WorkerWindow
<1> QED
  BY <1>2, <1>3, <1>4, <1>6

\* A leader is asked where it serves.
LEMMA AskedWhereServed ==
  ASSUME LaunchInv, launch = "started", NEW p \in processes, IsLeader(p),
         recipe.frontend \in {"dynamo", "sglang"}
  PROVE  /\ LogicalUrl(p).node = p.node
         /\ IF recipe.frontend = "dynamo" THEN LogicalUrl(p).port = p.sys
            ELSE \E c \in commands : /\ c.endpoint = p.endpoint
                                     /\ c.node = p.node /\ c.serves = LogicalUrl(p).port
<1>1. CASE recipe.frontend = "dynamo"
  BY <1>1 DEF LogicalUrl, SysUrl, Url
<1>2. CASE recipe.frontend = "sglang"
  <2>1. LogicalUrl(p).node = p.node /\ LogicalUrl(p).port = p.http
    BY <1>2 DEF LogicalUrl, HttpUrl, Url
  <2>2. Ready /\ p \in Launched
    BY RunningProcess
  <2>3. PICK c \in commands : c = Command(p) /\ c.endpoint = p.endpoint /\ c.node = p.node
    BY <2>2, CommandIs
  <2>4. recipe.backend = "sglang" /\ ~recipe.sidecar
    BY <1>2, <2>2 DEF Ready, Accepted, AcceptsRouter, AcceptsSidecar
  <2>5. c = SglangCommand(p)
    BY <2>3, <2>4 DEF Command
  <2>6. c.serves = p.http
    BY <2>5 DEF SglangCommand, NodeFlags, NoFlags
  <2> QED
    BY <1>2, <2>1, <2>3, <2>6
<1> QED
  BY <1>1, <1>2

\* There are finitely many processes: each has a system port of its own.
LEMMA ProcessesFinite ==
  ASSUME PortsInv
  PROVE  IsFiniteSet(processes)
<1> DEFINE f == [p \in processes |-> p.sys]
<1>1. AllBelow /\ PortsExclusive /\ next.sys \in Nat
  BY DEF PortsInv, TypeOK, PortCounters
<1>2. \A p \in processes : p.sys \in 0..next.sys
  BY <1>1 DEF AllBelow, Below
<1>3. f \in Injection(processes, 0..next.sys)
  <2>1. \A p, q \in processes : p.sys = q.sys => p = q
    BY <1>1 DEF PortsExclusive
  <2> QED
    BY <1>2, <2>1 DEF Injection, IsInjective
<1>4. IsFiniteSet(0..next.sys)
  BY <1>1, FS_Interval
<1> HIDE DEF f
<1> QED
  BY <1>3, <1>4, FS_Injection

\* No two workers are asked with the same request.
LEMMA AskedOnce ==
  ASSUME LaunchInv, launch = "started", recipe.frontend \in {"dynamo", "sglang"}
  PROVE  Cardinality(TheRequests) = Cardinality(ToAsk)
<1> DEFINE f == [p \in ToAsk |-> ProfileRequest(p)]
<1>1. ToAsk \subseteq processes /\ \A p \in ToAsk : IsLeader(p)
  BY DEF ToAsk, LogicalWorkers
<1>2. PortsInv
  BY DEF LaunchInv, ProcessInv
<1>3. IsFiniteSet(ToAsk)
  BY <1>1, <1>2, ProcessesFinite, FS_Subset
<1>4. ASSUME NEW p \in ToAsk, NEW q \in ToAsk, ProfileRequest(p) = ProfileRequest(q)
      PROVE  p = q
  <2>1. LogicalUrl(p) = LogicalUrl(q)
    BY <1>4 DEF ProfileRequest
  <2>2. PortsExclusive /\ p \in processes /\ q \in processes /\ p.http # None
    BY <1>1, <1>2, RunningProcess DEF PortsInv
  <2>3. CASE recipe.frontend = "dynamo"
    <3>1. p.sys = q.sys
      BY <2>1, <2>3 DEF LogicalUrl, SysUrl, Url
    <3> QED
      BY <2>2, <3>1 DEF PortsExclusive
  <2>4. CASE recipe.frontend = "sglang"
    <3>1. p.node = q.node /\ p.http = q.http
      BY <2>1, <2>4 DEF LogicalUrl, HttpUrl, Url
    <3> QED
      BY <2>2, <3>1 DEF PortsExclusive
  <2> QED
    BY <2>3, <2>4
<1>5. f \in Bijection(ToAsk, TheRequests)
  <2>1. f \in [ToAsk -> TheRequests]
    BY DEF TheRequests
  <2>2. IsInjective(f)
    BY <1>4 DEF IsInjective
  <2>3. \A t \in TheRequests : \E p \in ToAsk : f[p] = t
    BY DEF TheRequests
  <2> QED
    BY <2>1, <2>2, <2>3 DEF Bijection, Injection, Surjection
<1> HIDE DEF f
<1> QED
  BY <1>3, <1>5, FS_Bijection DEF ExistsBijection

\* Two workers never write to the same profile.
LEMMA OutputsApart ==
  ASSUME LaunchInv, launch = "started", NEW p \in Launched, NEW q \in Launched,
         NsysOutput(p) = NsysOutput(q)
  PROVE  p = q
<1>1. p \in processes /\ q \in processes
  BY DEF Launched
<1>2. PICK i, k : i \in DOMAIN endpoints /\ p.endpoint = i /\ Engine(p, i, k)
  BY <1>1, RunningProcess
<1>3. PICK j, l : j \in DOMAIN endpoints /\ q.endpoint = j /\ Engine(q, j, l)
  BY <1>1, RunningProcess
<1>4. Mode(p) = Mode(q) /\ Index(p) = Index(q) /\ p.rank = q.rank
  BY DEF NsysOutput
<1>5. endpoints[i].mode = endpoints[j].mode /\ endpoints[i].index = endpoints[j].index
  BY <1>2, <1>3, <1>4 DEF Mode, Index
<1>6. i = j
  BY <1>2, <1>3, <1>5 DEF LaunchInv, ProcessInv, Numbered
<1> QED
  BY <1>1, <1>2, <1>3, <1>4, <1>6 DEF LaunchInv, ProcessInv, Made

\* Those the client slows down serve, and decode.
LEMMA SlowedAreDecode ==
  ASSUME LaunchInv, launch = "started", NEW u \in SlowDownUrls
  PROVE  \E c \in commands : endpoints[c.endpoint].mode = "decode" /\ c.node = u.node /\ c.serves = u.port
<1>1. recipe.frontend = "sglang" /\ \E p \in Leaders("decode") : u = HttpUrl(p)
  BY DEF SlowDownUrls
<1>2. PICK p \in processes : IsLeader(p) /\ Mode(p) = "decode" /\ u = HttpUrl(p)
  BY <1>1 DEF Leaders
<1>3. LogicalUrl(p) = u /\ u.node = p.node
  BY <1>1, <1>2 DEF LogicalUrl, HttpUrl, Url
<1>4. PICK c \in commands : c.endpoint = p.endpoint /\ c.node = p.node /\ c.serves = LogicalUrl(p).port
  BY <1>1, <1>2, AskedWhereServed
<1> QED
  BY <1>2, <1>3, <1>4 DEF Mode

\* Every worker is asked for its own profile, in its own window, however many there are.
THEOREM ProfilesAreThoseAsked == MeasureSpec => []ProfiledAsAsked
<1>1. MeasureInv => ProfiledAsAsked
  <2> SUFFICES ASSUME MeasureInv PROVE ProfiledAsAsked
    OBVIOUS
  <2>0. LaunchInv /\ watch \in Watch
    BY DEF MeasureInv
  <2> DEFINE wanted == {p \in processes : /\ IsLeader(p)
                                          /\ Given(watch.windows[Mode(p)])
                                          /\ watch.windows[Mode(p)].start < watch.windows[Mode(p)].stop}
             IsAsked(p, a) ==
                   /\ a.url.node = p.node
                   /\ IF recipe.frontend = "dynamo" THEN a.url.port = p.sys
                      ELSE \E c \in commands : /\ c.endpoint = p.endpoint
                                               /\ c.node = p.node /\ c.serves = a.url.port
                   /\ a.start = watch.windows[Mode(p)].start
                   /\ a.start + a.steps = watch.windows[Mode(p)].stop
                   /\ WorkerWindow(p) \in {None, [start |-> a.start, steps |-> a.steps]}
  <2>1. ASSUME stage = "profiling"
        PROVE  /\ launch = "started" /\ ScriptProfiles /\ asked = TheRequests
               /\ ToAsk = {} \/ recipe.frontend \in {"dynamo", "sglang"}
    BY <2>1 DEF MeasureInv, Stages, Requests, Started2
  <2>2. ASSUME stage = "profiling", recipe.frontend # "vllm-router", NEW p \in wanted
        PROVE  \E a \in asked : IsAsked(p, a)
    <3>1. launch = "started" /\ ScriptProfiles /\ p \in processes /\ IsLeader(p)
      BY <2>1, <2>2
    <3>2. Mode(p) \in Modes
      BY <2>0, <3>1, RunningProcess
    <3> DEFINE w == watch.windows[Mode(p)]
    <3>3. /\ w.start \in Nat /\ w.stop \in Nat
          /\ ScriptWindow(Mode(p)).start = w.start
          /\ ScriptWindow(Mode(p)).steps = w.stop - w.start
          /\ ScriptWindow(Mode(p)).steps > 0
          /\ WorkerWindow(p) \in {None, [start |-> w.start, steps |-> w.stop - w.start]}
      BY <2>0, <2>2, <3>2, WindowAsked
    <3>4. p \in ToAsk
      BY <2>2, <3>1, <3>3 DEF ToAsk, LogicalWorkers
    <3>5. recipe.frontend \in {"dynamo", "sglang"} /\ ProfileRequest(p) \in asked
      BY <2>1, <2>2, <3>4 DEF TheRequests
    <3> DEFINE a == ProfileRequest(p)
    <3>6. a.url = LogicalUrl(p) /\ a.start = w.start /\ a.steps = w.stop - w.start
      BY <3>3 DEF ProfileRequest
    <3>7. /\ a.url.node = p.node
          /\ IF recipe.frontend = "dynamo" THEN a.url.port = p.sys
             ELSE \E c \in commands : /\ c.endpoint = p.endpoint
                                      /\ c.node = p.node /\ c.serves = a.url.port
      BY <2>0, <3>1, <3>5, <3>6, AskedWhereServed
    <3> HIDE DEF a
    <3>8. a.start + a.steps = w.stop
      BY <3>3, <3>6
    <3> QED
      BY <3>3, <3>5, <3>6, <3>7, <3>8 DEF a
  <2>3. ASSUME stage = "profiling" PROVE Cardinality(asked) = Cardinality(ToAsk)
    <3>1. CASE ToAsk = {}
      BY <2>1, <2>3, <3>1 DEF TheRequests
    <3>2. CASE recipe.frontend \in {"dynamo", "sglang"}
      BY <2>0, <2>1, <2>3, <3>2, AskedOnce
    <3> QED
      BY <2>1, <2>3, <3>1, <3>2
  <2>4. ASSUME stage = "profiling" PROVE CutBy # "clock"
    BY <2>1, <2>4 DEF ScriptProfiles, CutBy
  <2>5. ASSUME launch = "started" PROVE \A p, q \in Launched : p # q => NsysOutput(p) # NsysOutput(q)
    BY <2>0, <2>5, OutputsApart
  <2>6. ASSUME NEW u \in client.slow
        PROVE  \E c \in commands : endpoints[c.endpoint].mode = "decode" /\ c.node = u.node
                                                                       /\ c.serves = u.port
    <3>1. client # NoClient
      BY <2>6 DEF NoClient
    <3>2. launch = "started" /\ u \in SlowDownUrls
      BY <2>6, <3>1, ClientIs DEF ClientStarted, TheClient
    <3> QED
      BY <2>0, <3>2, SlowedAreDecode
  <2> QED
    BY <2>2, <2>3, <2>4, <2>5, <2>6 DEF ProfiledAsAsked
<1> QED
  BY <1>1, MeasureInvariance, PTL
=============================================================================
