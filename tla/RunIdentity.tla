---------------------------- MODULE RunIdentity ----------------------------
(***************************************************************************)
(* What a run leaves to be recognised by, as functions of what there is to *)
(* see: the fingerprint of a worker's environment and its comparisons      *)
(* (core/fingerprint.py, core/lockfile.py), and the CPUs and GPUs of the   *)
(* allocation (core/resource_snapshot.py).  When they are taken, written   *)
(* and read is module JobRecords.                                          *)
(*                                                                         *)
(* A machine is the environment itself: scalars, GPUs and driver, versions *)
(* of frameworks and packages, variables, and the model it mounts.         *)
(***************************************************************************)
EXTENDS Integers, Sequences, FiniteSets, FiniteSetsExt, SequencesExt, TLC

CONSTANT None

\* Versions are sequences of words.
Unavailable == <<"unavailable">>
NoFun == [x \in {} |-> None]

\* Of a partial function of versions.
At(f, x) == IF x \in DOMAIN f THEN f[x] ELSE None
Keys(f, g) == DOMAIN f \cup DOMAIN g

-----------------------------------------------------------------------------
(* Capturing: a probe that fails leaves its mark and the others go on.     *)

Probes == {"gpu", "cuda_version", "nccl_version", "frameworks", "pip_packages"}

\* os stands for hostname, architecture, system and Python version, which need no command.
Scalars == {"os", "cuda_version", "nccl_version"}

Capture(machine, failed, cuda, gpu) ==
    [scalars |-> [s \in Scalars |-> IF s \in failed THEN Unavailable
                                    ELSE IF s = "cuda_version" THEN cuda ELSE machine[s]],
     gpu |-> IF "gpu" \in failed THEN gpu
             ELSE [driver |-> machine.driver, gpus |-> machine.gpus],
     frameworks |-> IF "frameworks" \in failed THEN NoFun ELSE machine.frameworks,
     packages |-> IF "pip_packages" \in failed THEN <<>> ELSE machine.packages,
     model |-> None, env |-> NoFun]

\* generate_capture_script: all of nvcc's line, and the model mounted in the container.
ScriptCapture(machine, failed) ==
    [Capture(machine, failed, <<"line", machine.cuda_version>>, [driver |-> None, gpus |-> <<>>])
        EXCEPT !.model = machine.model, !.env = machine.env]

\* capture_fingerprint, of the machine srtctl runs on: the sixth word of nvcc's line.
capture_fingerprint(machine, failed) ==
    Capture(machine, failed, <<"token", machine.cuda_version>>, [driver |-> Unavailable, gpus |-> <<>>])

-----------------------------------------------------------------------------
(* Comparing two fingerprints.                                             *)

\* _parse_pip_packages: of several sources the later wins.
Installed(sources) == FoldLeft(LAMBDA all, source : source @@ all, NoFun, sources)
Packages(fp) == Installed(fp.packages)

Driver(fp) == IF fp.gpu.driver = None THEN Unavailable ELSE fp.gpu.driver

Change(field, a, b) == [field |-> field, before |-> a, after |-> b]

\* diff_fingerprints
Diff(a, b) ==
    {Change(s, a.scalars[s], b.scalars[s]) : s \in {t \in Scalars : a.scalars[t] # b.scalars[t]}}
    \cup (IF Driver(a) = Driver(b) THEN {} ELSE {Change("gpu.driver", Driver(a), Driver(b))})
    \cup {Change(p, At(Packages(a), p), At(Packages(b), p)) :
             p \in {q \in Keys(Packages(a), Packages(b)) : At(Packages(a), q) # At(Packages(b), q)}}

\* check_against_fingerprint: how each difference is classified.
CheckStatus(c) ==
    IF Unavailable \in {c.before, c.after} THEN "error"
    ELSE IF c.after = None THEN "missing"
    ELSE IF c.before = None THEN "extra" ELSE "mismatch"
Check(reference, current) ==
    {[field |-> c.field, status |-> CheckStatus(c)] : c \in Diff(reference, current)}

-----------------------------------------------------------------------------
(* generate_reproduction_report: the issues of a run against an earlier    *)
(* one, worker by worker.                                                  *)

\* _short: of the CUDA line only the release.
Short(s, v) == IF s = "cuda_version" /\ v # Unavailable /\ v[1] = "line" THEN <<v[2][1]>> ELSE v

FieldIssues(a, b) ==
    {s \in Scalars : Short(s, a.scalars[s]) # Short(s, b.scalars[s])}
    \cup {f \in Keys(a.frameworks, b.frameworks) : At(a.frameworks, f) # At(b.frameworks, f)}
    \cup (IF a.gpu.gpus = b.gpu.gpus THEN {} ELSE {"gpu"})
    \cup (IF a.gpu.driver = b.gpu.driver THEN {} ELSE {"driver"})
    \cup (IF a.env = b.env THEN {} ELSE {"env"})

PackageIssues(a, b) == IF Packages(a) = Packages(b) THEN {} ELSE {"pip"}

WorkerIssues(a, b) == FieldIssues(a, b) \cup PackageIssues(a, b)

\* The issues found, None when there is nothing to compare.
ReproductionIssues(before, after) ==
    IF before = NoFun \/ after = NoFun THEN None
    ELSE (UNION {WorkerIssues(before[w], after[w]) : w \in DOMAIN before \cap DOMAIN after})
         \cup (IF DOMAIN before = DOMAIN after THEN {} ELSE {"workers"})

-----------------------------------------------------------------------------
(* verify_identity: what the recipe declares against the first worker's    *)
(* fingerprint.                                                            *)

Checked(field, status) == [field |-> field, status |-> status]

RepoCheck(declared, model) ==
    IF declared = None THEN {}
    ELSE {Checked("model.repo", CASE model = None \/ model.repo = None -> "DECLARED"
                                  [] model.repo = declared -> "OK"
                                  [] OTHER -> "FAIL")}

\* A revision of fewer than seven digits is not looked at.
RevisionCheck(declared, model) ==
    IF declared = None \/ declared.digits < 7 THEN {}
    ELSE {Checked("model.revision",
            IF model # None /\ model.revision = declared.commit THEN "OK" ELSE "FAIL")}

ImageCheck(declared) == IF declared = None THEN {} ELSE {Checked("container.image", "DECLARED")}

FrameworkChecks(declared, frameworks) ==
    {Checked(f, IF At(frameworks, f) = declared[f] THEN "OK" ELSE "FAIL") : f \in DOMAIN declared}

Declares(identity) ==
    \/ identity.repo # None \/ identity.revision # None \/ identity.image # None
    \/ identity.frameworks # NoFun

verify_identity(identity, prints) ==
    IF prints = NoFun \/ ~Declares(identity) THEN None
    ELSE LET fp == prints[Min(DOMAIN prints)]
         IN  RepoCheck(identity.repo, fp.model) \cup RevisionCheck(identity.revision, fp.model)
             \cup ImageCheck(identity.image) \cup FrameworkChecks(identity.frameworks, fp.frameworks)

\* build_lock_section: no checks are as good as none made.
Verification(checks) == IF checks = {} THEN None ELSE checks

-----------------------------------------------------------------------------
(* collect_resource_snapshot.  An allocation is the node list of SLURM,    *)
(* the roles Nodes.from_slurm gave, what the environment says of CPUs and  *)
(* the GPUs the placement uses on each node.                               *)

\* parse_slurm_cpus_per_node: "72(x2),36"; what does not parse is an item of 0 times.
ParseCpus(items) ==
    IF \E i \in DOMAIN items : items[i].times = 0 THEN <<>>
    ELSE FlattenSeq([i \in DOMAIN items |-> [k \in 1..items[i].times |-> items[i].cpus]])

\* _allocated_cpus_per_node: by component when the job has components.
CpusPerNode(a) ==
    LET groups == [g \in DOMAIN a.het |-> ParseCpus(a.het[g])]
    IN  IF a.het = <<>> THEN ParseCpus(a.job_cpus)
        ELSE IF \E g \in DOMAIN groups : groups[g] = <<>> THEN <<>>
        ELSE FlattenSeq(groups)

NodeNames(a) == <<a.infra>> \o SelectSeq(a.worker, LAMBDA n : n # a.infra)

BackendGpus(a) == FoldFunction(LAMBDA x, y : x + y, 0, a.gpus)

\* _backend_node_allocations: counts and names are paired by position.
NodeAllocations(a) ==
    LET cpus == CpusPerNode(a)
        names == NodeNames(a)
    IN  IF Len(cpus) # Len(names) THEN {}
        ELSE {[node |-> names[i], cpus |-> cpus[i], gpus |-> a.gpus[names[i]]] :
                 i \in {k \in DOMAIN names : a.gpus[names[k]] > 0}}

\* Mutant: the fewest CPUs, whatever GPUs they serve.
MoreConstrained_cpus(x, y) == x.cpus <= y.cpus

\* The fewest CPUs for each GPU.
MoreConstrained(x, y) == x.cpus * y.gpus < y.cpus * x.gpus
                         \/ (x.cpus * y.gpus = y.cpus * x.gpus /\ x.cpus <= y.cpus)

LocalCounts(a) ==
    {c \in {IF CpusPerNode(a) = <<>> THEN None ELSE FoldLeft(LAMBDA x, y : x + y, 0, CpusPerNode(a)),
            a.on_node, a.affinity} : c # None}

\* What is held against what: CPUs and GPUs, of a node or of the whole job.
Basis(a) ==
    LET total == IF CpusPerNode(a) = <<>> THEN None
                 ELSE FoldLeft(LAMBDA x, y : x + y, 0, CpusPerNode(a))
        all == NodeAllocations(a)
    IN  CASE Len(NodeNames(a)) = 1 ->
               [cpus |-> IF LocalCounts(a) = {} THEN None ELSE Min(LocalCounts(a)),
                gpus |-> BackendGpus(a)]
          [] Len(NodeNames(a)) > 1 /\ all # {} ->
               LET most == CHOOSE x \in all : \A y \in all : MoreConstrained(x, y)
               IN  [cpus |-> most.cpus, gpus |-> most.gpus]
          [] OTHER -> [cpus |-> total, gpus |-> BackendGpus(a)]

CpuCheck(a) ==
    LET b == Basis(a)
    IN  IF b.cpus = None THEN "unknown" ELSE IF b.cpus < b.gpus THEN "warning" ELSE "ok"
=============================================================================
