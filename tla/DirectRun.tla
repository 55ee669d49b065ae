----------------------------- MODULE DirectRun -----------------------------
(***************************************************************************)
(* srtctl apply --bash: a host runner (render/direct_host_runner.py) that  *)
(* owns Docker containers and, in the main one, the runner that installs   *)
(* the serving runtime, starts the services and runs the benchmark         *)
(* (render/direct_runner.py and direct_stages).  Runs share the caches     *)
(* below their output base, the SGLang checkout and the Docker daemon.     *)
(***************************************************************************)
EXTENDS Naturals, Sequences, FiniteSets

CONSTANTS Runs,
          Layouts,     \* output directories the runs may be given
          Features,    \* of each run: what its plan enables
          Workers,     \* of each run: its workers, in the order of their launch
          Revisions,   \* of the SGLang checkout
          None,
          MaxTrouble   \* bound: commands that fail, processes that exit by themselves,
                       \* signals, kills of a host runner, and moves of the checkout

ASSUME RunAssumption ==
    /\ MaxTrouble \in Nat
    /\ Features \in [Runs -> SUBSET {"setup", "mooncake", "dynamo_hash", "tachometer", "ruter"}]
    /\ \A r \in Runs : Workers[r] \in Seq({Workers[r][n] : n \in DOMAIN Workers[r]})
    /\ None \notin Runs \cup Revisions
    \* Of runs that share a runtime key, which says which Dynamo is installed.
    /\ \A q, r \in Runs : "dynamo_hash" \in Features[q] => "dynamo_hash" \in Features[r]

VARIABLES out,     \* the output directory of each run
          host,    \* the host runner
          docker,  \* the containers of each run that exist
          inner,   \* the runner in the main container, and what it has left to do
          proc,    \* self.processes, by label: what became of each process
          disk,    \* the caches
          venv,    \* whose Dynamo the SGLang runtime of a revision has
          flock,   \* who holds the lock of a cache
          head,    \* the revision of the checkout
          trouble

vars == <<out, host, docker, inner, proc, disk, venv, flock, head, trouble>>

Has(r, feature) == feature \in Features[r]

Caches == ({"sglang"} \X Revisions) \cup {<<"dynamo", "hash">>}

\* What Dynamo is in the virtual environment of a runtime: the wheel, and the sources below
\* the output directory of the run that installed them.
DynamoParts == {"wheel", "tree"}

-----------------------------------------------------------------------------
(* What the runner in the container does, in order.                        *)

\* A cache under its lock; what follows the check is for a cache that is not complete.
CacheSteps(c) == << <<"lock", c>>, <<"check", c>>, <<"wipe", c>>, <<"copy", c>>,
                    <<"install", c>>, <<"mark", c>>, <<"release", c>>, <<"use", c>> >>

If(condition, steps) == IF condition THEN steps ELSE <<>>

Launches(labels) == [n \in DOMAIN labels |-> <<"launch", labels[n]>>]

\* _run_stages, in three parts; one command that may fail is a step "run".
Preparation(r) == If(Has(r, "setup"), << <<"run", "setup">> >>) \o << <<"run", "checks">>, <<"revision", "sglang">> >>

\* A pinned Dynamo is built once per cache, the top of its tree for every run.  pip takes
\* out of the runtime's environment what it then puts in.
BuildDynamo(r) ==
    IF Has(r, "dynamo_hash") THEN CacheSteps("dynamo") ELSE << <<"run", "top_of_tree">> >>

PipSteps == << <<"out", "wheel">>, <<"in", "wheel">>, <<"out", "tree">>, <<"in", "tree">>, <<"import", "dynamo">> >>

Serving(r) ==
    CacheSteps("sglang") \o BuildDynamo(r) \o PipSteps
    \o Launches(<<"nats", "etcd">>) \o << <<"ready", "etcd">> >>
    \o If(Has(r, "mooncake"), << <<"run", "mooncake_ports">> >>)
    \o Launches(Append(Workers[r], "router")) \o << <<"ready", "router">> >> \o << <<"run", "smoke">> >>

Measuring(r) ==
    If(Has(r, "tachometer"), << <<"launch", "tachometer">>, <<"scraper", "process">>,
                                <<"scraper", "local_dir">>, <<"started", "tachometer">> >>)
    \o << <<"launch", "benchmark">>, <<"watch", "benchmark">>, <<"alive", "services">> >>

StagesOf(r) == Preparation(r) \o Serving(r) \o Measuring(r)

Stages == [r \in Runs |-> StagesOf(r)]

Cleanup == << <<"stop", "tachometer">>, <<"compact", "tachometer">>, <<"stop", "rest">>, <<"normalize", "ruter">> >>

Owned == [r \in Runs |-> {Stages[r][n][2] : n \in {m \in DOMAIN Stages[r] : Stages[r][m][1] = "launch"}}]

Absent == [phase |-> "absent", pc |-> 1, code |-> "none", rev |-> None,
           scraper |-> {}, compacted |-> "none", normalized |-> "none"]

Idle == [at |-> "idle", code |-> "none", seen |-> None, named |-> FALSE, lost |-> {}]

Init ==
    /\ out \in Layouts
    /\ host = [r \in Runs |-> Idle]
    /\ docker = [r \in Runs |-> {}]
    /\ inner = [r \in Runs |-> Absent]
    /\ proc = [r \in Runs |-> <<>>]
    /\ disk = [c \in Caches |-> [copied |-> FALSE, whole |-> FALSE, complete |-> FALSE]]
    /\ venv = [x \in DynamoParts \X Revisions |-> None]
    /\ flock = [c \in Caches |-> None]
    /\ head \in Revisions
    /\ trouble = 0

Trouble == trouble < MaxTrouble /\ trouble' = trouble + 1

\* Somebody checks out another revision of SGLang.
Move ==
    /\ Trouble
    /\ head' \in Revisions \ {head}
    /\ UNCHANGED <<out, host, docker, inner, proc, disk, venv, flock>>

-----------------------------------------------------------------------------
(* The host runner.                                                        *)

InTry(r) == host[r].at \in {"prepare", "stale", "name", "mooncake", "revision", "main", "exec", "wait"}
InCleanup(r) == host[r].at \in {"rm_mooncake", "rm_main", "owner"}
Over(r) == host[r].at \in {"ended", "killed"}

Goes(r, at) == host' = [host EXCEPT ![r].at = at]

\* The exceptions that run() turns into 1, and what its finally does first.
Fails(r) == Trouble /\ host' = [host EXCEPT ![r].at = "rm_mooncake", ![r].code = "error"]

\* DirectHostRunner(...).run.  Two runners that are alive have directories of their own: so
\* the names they are given by default, of the second and the process, make it; nothing checks
\* a directory that SRTCTL_OUTPUT_DIR names.
Begin(r) ==
    /\ host[r].at = "idle"
    /\ \A q \in Runs : out[q] = out[r] => host[q].at = "idle" \/ Over(q)
    /\ Goes(r, "prepare")
    /\ UNCHANGED <<out, docker, inner, proc, disk, venv, flock, head, trouble>>

Prepare(r) ==
    /\ host[r].at = "prepare"
    /\ Fails(r) \/ (Goes(r, "stale") /\ UNCHANGED trouble)
    /\ UNCHANGED <<out, docker, inner, proc, disk, venv, flock, head>>

\* docker rm -f: what runs in the container is killed, its locks are released.
Remove(q, container) ==
    /\ docker' = [docker EXCEPT ![q] = @ \ {container}]
    /\ IF container = "mooncake" THEN UNCHANGED <<inner, proc, flock>>
       ELSE /\ inner' = [inner EXCEPT ![q].phase = IF @ \in {"running", "cleanup"} THEN "dead" ELSE @]
            /\ proc' = [proc EXCEPT ![q] = [p \in DOMAIN @ |-> IF @[p] = "live" THEN "stopped" ELSE @[p]]]
            /\ flock' = [c \in Caches |-> IF flock[c] = q THEN None ELSE flock[c]]

\* Mutant: every container that srtctl has ever labelled.
Labelled_any(r) == {x \in Runs \X {"mooncake", "main"} : x[2] \in docker[x[1]]}

\* The containers that carry the label of this output directory.
Labelled(r) == {x \in Runs \X {"mooncake", "main"} : out[x[1]] = out[r] /\ x[2] \in docker[x[1]]}

RemoveStale(r) ==
    /\ host[r].at = "stale"
    /\ \/ /\ Labelled(r) # {}
          /\ \E x \in Labelled(r) : Remove(x[1], x[2])
          /\ UNCHANGED <<host, trouble>>
       \/ /\ Labelled(r) # {}
          /\ Fails(r)
          /\ UNCHANGED <<docker, inner, proc, flock>>
       \/ /\ Labelled(r) = {}
          /\ Goes(r, IF Has(r, "mooncake") THEN "name" ELSE "revision")
          /\ UNCHANGED <<docker, inner, proc, flock, trouble>>
    /\ UNCHANGED <<out, disk, venv, head>>

NameMooncake(r) ==
    /\ host[r].at = "name"
    /\ host' = [host EXCEPT ![r].at = "mooncake", ![r].named = TRUE]
    /\ UNCHANGED <<out, docker, inner, proc, disk, venv, flock, head, trouble>>

\* docker run --detach; a failed one may have created the container.
RunContainer(r, container, next) ==
    /\ \/ Goes(r, next) /\ docker' = [docker EXCEPT ![r] = @ \cup {container}] /\ UNCHANGED trouble
       \/ Fails(r) /\ docker' \in {docker, [docker EXCEPT ![r] = @ \cup {container}]}
    /\ UNCHANGED <<out, inner, proc, disk, venv, flock, head>>

StartMooncake(r) == host[r].at = "mooncake" /\ RunContainer(r, "mooncake", "revision")

\* The runtime directory of the main container is named after the checkout's revision.
ReadRevision(r) ==
    /\ host[r].at = "revision"
    /\ \/ Fails(r)
       \/ host' = [host EXCEPT ![r].at = "main", ![r].seen = head] /\ UNCHANGED trouble
    /\ UNCHANGED <<out, docker, inner, proc, disk, venv, flock, head>>

StartMain(r) == host[r].at = "main" /\ RunContainer(r, "main", "exec")

\* docker exec: the runner in the container starts.
Exec(r) ==
    /\ host[r].at = "exec"
    /\ Goes(r, "wait")
    /\ inner' = [inner EXCEPT ![r].phase = "running"]
    /\ UNCHANGED <<out, docker, proc, disk, venv, flock, head, trouble>>

\* The docker client ends with the code of the command it executed.
Wait(r) ==
    /\ host[r].at = "wait"
    /\ inner[r].phase \in {"ended", "dead"}
    /\ host' = [host EXCEPT ![r].at = "rm_mooncake",
                            ![r].code = IF inner[r].phase = "dead" THEN "error" ELSE inner[r].code]
    /\ UNCHANGED <<out, docker, inner, proc, disk, venv, flock, head, trouble>>

\* _cleanup removes the containers whose names it has; a docker rm that fails is passed over.
RemoveOwn(r, container, known, next) ==
    /\ \/ /\ known
          /\ Remove(r, container)
          /\ Goes(r, next) /\ UNCHANGED trouble
       \/ /\ ~known
          /\ Goes(r, next)
          /\ UNCHANGED <<docker, inner, proc, flock, trouble>>
       \/ /\ known /\ container \in docker[r]
          /\ Trouble
          /\ host' = [host EXCEPT ![r].at = next, ![r].lost = @ \cup {container}]
          /\ UNCHANGED <<docker, inner, proc, flock>>
    /\ UNCHANGED <<out, disk, venv, head>>

\* Mutant: the name is kept when docker run has returned.
RemoveMooncake_late(r) ==
    host[r].at = "rm_mooncake" /\ RemoveOwn(r, "mooncake", host[r].named /\ host[r].seen # None, "rm_main")

RemoveMooncake(r) == host[r].at = "rm_mooncake" /\ RemoveOwn(r, "mooncake", host[r].named, "rm_main")

RemoveMain(r) == host[r].at = "rm_main" /\ RemoveOwn(r, "main", TRUE, "owner")

\* Ownership is restored, or a warning is logged.
RestoreOwner(r) ==
    /\ host[r].at = "owner"
    /\ Goes(r, "ended")
    /\ UNCHANGED <<out, docker, inner, proc, disk, venv, flock, head, trouble>>

\* _on_signal raises wherever the runner is.  In run's try that leads to the clean-up: a
\* docker run on its way is killed and may or may not have made its container.  In the
\* clean-up nothing catches the exception.
Signal(r) ==
    /\ InTry(r) \/ InCleanup(r)
    /\ Trouble
    /\ host' = [host EXCEPT ![r].at = IF InTry(r) THEN "rm_mooncake" ELSE "ended",
                            ![r].code = IF InTry(r) THEN "signal" ELSE "raised"]
    /\ \/ UNCHANGED docker
       \/ host[r].at \in {"mooncake", "main"} /\ docker' = [docker EXCEPT ![r] = @ \cup {host[r].at}]
    /\ UNCHANGED <<out, inner, proc, disk, venv, flock, head>>

\* The host runner dies; Docker does not notice.
Kill(r) ==
    /\ InTry(r) \/ InCleanup(r)
    /\ Trouble
    /\ Goes(r, "killed")
    /\ UNCHANGED <<out, docker, inner, proc, disk, venv, flock, head>>

HostStep(r) ==
    \/ Prepare(r) \/ RemoveStale(r) \/ NameMooncake(r) \/ StartMooncake(r) \/ ReadRevision(r)
    \/ StartMain(r) \/ Exec(r) \/ Wait(r)
    \/ RemoveMooncake(r) \/ RemoveMain(r) \/ RestoreOwner(r)

-----------------------------------------------------------------------------
(* The runner in the container.                                            *)

Running(r) == inner[r].phase \in {"running", "cleanup"}

Program(r) == IF inner[r].phase = "running" THEN Stages[r] ELSE Cleanup

Doing(r, kind) == Running(r) /\ inner[r].pc \in DOMAIN Program(r) /\ Program(r)[inner[r].pc][1] = kind
What(r) == Program(r)[inner[r].pc][2]

Advance(r) == inner' = [inner EXCEPT ![r].pc = @ + 1]

\* An exception in run's try, or the end of it: the finally cleans up.  The locks are
\* those of files that the with statements close.
ToCleanup(r, code) ==
    /\ inner' = [inner EXCEPT ![r].phase = "cleanup", ![r].pc = 1, ![r].code = code]
    /\ flock' = [c \in Caches |-> IF flock[c] = r THEN None ELSE flock[c]]

\* A command of run's try that fails.
Breaks(r) == inner[r].phase = "running" /\ Trouble /\ ToCleanup(r, "error")

Run(r) ==
    /\ Doing(r, "run")
    /\ Breaks(r) \/ (Advance(r) /\ UNCHANGED <<flock, trouble>>)
    /\ UNCHANGED <<out, host, docker, proc, disk, venv, head>>

\* The runner asks git again which revision it installs.
AskRevision(r) ==
    /\ Doing(r, "revision")
    /\ inner' = [inner EXCEPT ![r].rev = head, ![r].pc = @ + 1]
    /\ UNCHANGED <<out, host, docker, proc, disk, venv, flock, head, trouble>>

\* The directory of a cache is named by the host runner, its lock in the container.
Dir(r, c) == IF c = "sglang" THEN <<c, host[r].seen>> ELSE <<c, "hash">>
LockOf(r, c) == IF c = "sglang" THEN <<c, inner[r].rev>> ELSE <<c, "hash">>

\* Mutant: the lock is not exclusive.
Free_shared(r, c) == TRUE
Free(r, c) == flock[LockOf(r, c)] = None

Lock(r) ==
    /\ Doing(r, "lock")
    /\ Free(r, What(r))
    /\ flock' = [flock EXCEPT ![LockOf(r, What(r))] = r]
    /\ Advance(r)
    /\ UNCHANGED <<out, host, docker, proc, disk, venv, head, trouble>>

Check(r) ==
    /\ Doing(r, "check")
    /\ inner' = [inner EXCEPT ![r].pc = @ + IF disk[Dir(r, What(r))].complete THEN 5 ELSE 1]
    /\ UNCHANGED <<out, host, docker, proc, disk, venv, flock, head, trouble>>

Fill(r, entry) == disk' = [disk EXCEPT ![Dir(r, What(r))] = entry]

\* What an earlier attempt left is taken away, the virtual environment with it.
Wipe(r) ==
    /\ Doing(r, "wipe")
    /\ \/ /\ Fill(r, [copied |-> FALSE, whole |-> FALSE, complete |-> FALSE])
          /\ venv' = [x \in DynamoParts \X Revisions |->
                        IF What(r) = "sglang" /\ x[2] = host[r].seen THEN None ELSE venv[x]]
          /\ Advance(r) /\ UNCHANGED <<flock, trouble>>
       \/ Breaks(r) /\ UNCHANGED <<disk, venv>>
    /\ UNCHANGED <<out, host, docker, proc, head>>

\* copytree does not write into a directory there is; a failed copy leaves a part.
Copy(r) ==
    /\ Doing(r, "copy")
    /\ \/ /\ ~disk[Dir(r, What(r))].copied
          /\ Fill(r, [disk[Dir(r, What(r))] EXCEPT !.copied = TRUE])
          /\ Breaks(r) \/ (Advance(r) /\ UNCHANGED <<flock, trouble>>)
       \/ /\ disk[Dir(r, What(r))].copied
          /\ ToCleanup(r, "error") /\ UNCHANGED <<disk, trouble>>
    /\ UNCHANGED <<out, host, docker, proc, venv, head>>

\* pip installs from the copy; for Dynamo, the source is archived beside the wheel.
Install(r) ==
    /\ Doing(r, "install")
    /\ \/ /\ disk[Dir(r, What(r))].copied
          /\ Fill(r, [disk[Dir(r, What(r))] EXCEPT !.whole = TRUE])
          /\ Advance(r) /\ UNCHANGED <<flock, trouble>>
       \/ Breaks(r) /\ UNCHANGED disk
       \/ /\ ~disk[Dir(r, What(r))].copied
          /\ ToCleanup(r, "error") /\ UNCHANGED <<disk, trouble>>
    /\ UNCHANGED <<out, host, docker, proc, venv, head>>

Mark(r) ==
    /\ Doing(r, "mark")
    /\ Fill(r, [disk[Dir(r, What(r))] EXCEPT !.complete = TRUE])
    /\ Advance(r)
    /\ UNCHANGED <<out, host, docker, proc, venv, flock, head, trouble>>

Release(r) ==
    /\ Doing(r, "release")
    /\ flock' = [flock EXCEPT ![LockOf(r, What(r))] = None]
    /\ Advance(r)
    /\ UNCHANGED <<out, host, docker, proc, disk, venv, head, trouble>>

\* SGLang is imported, or Dynamo's wheel and sources looked for, outside the lock.
Use(r) ==
    /\ Doing(r, "use")
    /\ \/ disk[Dir(r, What(r))].whole /\ Advance(r) /\ UNCHANGED <<flock, trouble>>
       \/ ~disk[Dir(r, What(r))].whole /\ ToCleanup(r, "error") /\ UNCHANGED trouble
       \/ Breaks(r)
    /\ UNCHANGED <<out, host, docker, proc, disk, venv, head>>

\* Another run takes the runtime for one that is not complete.
Gone(r) == ~disk[Dir(r, "sglang")].whole
Lacks(r) == Gone(r) \/ \E part \in DynamoParts : venv[<<part, host[r].seen>>] = None

\* pip install, into the environment the runs with this runtime share, under no lock.
Pip(r, kind, whose) ==
    /\ Doing(r, kind)
    /\ \/ /\ venv' = [venv EXCEPT ![<<What(r), host[r].seen>>] = whose]
          /\ Advance(r) /\ UNCHANGED <<flock, trouble>>
       \/ Breaks(r) /\ UNCHANGED venv
       \/ Gone(r) /\ ToCleanup(r, "error") /\ UNCHANGED <<venv, trouble>>
    /\ UNCHANGED <<out, host, docker, proc, disk, head>>

TakeOut(r) == Pip(r, "out", None)
PutIn(r) == Pip(r, "in", r)

\* "import dynamo" may miss what another run has just taken out.
Import(r) ==
    /\ Doing(r, "import")
    /\ \/ Advance(r) /\ UNCHANGED <<flock, trouble>>
       \/ Breaks(r)
       \/ Lacks(r) /\ ToCleanup(r, "error") /\ UNCHANGED trouble
    /\ UNCHANGED <<out, host, docker, proc, disk, venv, head>>

-----------------------------------------------------------------------------
(* Services, scraper and benchmark.                                        *)

Launch(r) ==
    /\ Doing(r, "launch")
    /\ \/ /\ proc' = [proc EXCEPT ![r] = [p \in DOMAIN @ \cup {What(r)} |->
                                            IF p = What(r) THEN "live" ELSE @[p]]]
          /\ Advance(r) /\ UNCHANGED <<flock, trouble>>
       \/ Breaks(r) /\ UNCHANGED proc
    /\ UNCHANGED <<out, host, docker, disk, venv, head>>

\* _assert_services_alive: every process of the list, the benchmark among them.
Alive(r) == \A p \in DOMAIN proc[r] : proc[r][p] = "live"

\* _wait_http_ready and _wait_router_ready: ready, or a service is gone, or out of time.
Ready(r) ==
    /\ Doing(r, "ready")
    /\ \/ Alive(r) /\ Advance(r) /\ UNCHANGED <<flock, trouble>>
       \/ ~Alive(r) /\ ToCleanup(r, "error") /\ UNCHANGED trouble
       \/ Breaks(r)
    /\ UNCHANGED <<out, host, docker, proc, disk, venv, head>>

\* self.tachometer, then self.tachometer_local_dir.
NoteScraper(r) ==
    /\ Doing(r, "scraper")
    /\ inner' = [inner EXCEPT ![r].scraper = @ \cup {What(r)}, ![r].pc = @ + 1]
    /\ UNCHANGED <<out, host, docker, proc, disk, venv, flock, head, trouble>>

Started(r) ==
    /\ Doing(r, "started")
    /\ \/ proc[r]["tachometer"] = "live" /\ Advance(r) /\ UNCHANGED flock
       \/ proc[r]["tachometer"] # "live" /\ ToCleanup(r, "error")
    /\ UNCHANGED <<out, host, docker, proc, disk, venv, head, trouble>>

\* The loop of _run_benchmark: the benchmark's state is read, then the services are checked.
\* Mutant: the return code is not looked at.
Watch_any(r) ==
    /\ Doing(r, "watch")
    /\ \/ proc[r]["benchmark"] = "live" /\ Advance(r) /\ UNCHANGED flock
       \/ proc[r]["benchmark"] # "live" /\ ToCleanup(r, "ok")
    /\ UNCHANGED <<out, host, docker, proc, disk, venv, head, trouble>>

Watch(r) ==
    /\ Doing(r, "watch")
    /\ \/ proc[r]["benchmark"] = "live" /\ Advance(r) /\ UNCHANGED flock
       \/ proc[r]["benchmark"] = "zero" /\ ToCleanup(r, "ok")
       \/ proc[r]["benchmark"] = "failed" /\ ToCleanup(r, "error")
    /\ UNCHANGED <<out, host, docker, proc, disk, venv, head, trouble>>

\* Mooncake's master is asked by TCP.
CheckServices(r) ==
    /\ Doing(r, "alive")
    /\ \/ Alive(r) /\ inner' = [inner EXCEPT ![r].pc = @ - 1] /\ UNCHANGED <<flock, trouble>>
       \/ ~Alive(r) /\ ToCleanup(r, "error") /\ UNCHANGED trouble
       \/ Has(r, "mooncake") /\ Breaks(r)
    /\ UNCHANGED <<out, host, docker, proc, disk, venv, head>>

\* _stop, of the scraper first, and after the compaction of everything else.
Stop(r) ==
    /\ Doing(r, "stop")
    /\ LET which == IF What(r) = "rest" THEN DOMAIN proc[r]
                    ELSE IF "process" \in inner[r].scraper THEN {"tachometer"} ELSE {}
       IN  proc' = [proc EXCEPT ![r] = [p \in DOMAIN @ |->
                                          IF p \in which /\ @[p] = "live" THEN "stopped" ELSE @[p]]]
    /\ Advance(r)
    /\ UNCHANGED <<out, host, docker, disk, venv, flock, head, trouble>>

\* A directory to compact may be empty, and a compaction that fails is a warning: it is
\* tried, or done.
Compact(r) ==
    /\ Doing(r, "compact")
    /\ \E result \in IF "local_dir" \in inner[r].scraper THEN {"tried", "done"} ELSE {"none"} :
          inner' = [inner EXCEPT ![r].compacted = result, ![r].pc = @ + 1]
    /\ UNCHANGED <<out, host, docker, proc, disk, venv, flock, head, trouble>>

\* A normalization that fails is a warning, too.
Normalize(r) ==
    /\ Doing(r, "normalize")
    /\ \E result \in IF Has(r, "ruter") THEN {"tried", "done"} ELSE {"none"} :
          inner' = [inner EXCEPT ![r].normalized = result, ![r].phase = "ended"]
    /\ UNCHANGED <<out, host, docker, proc, disk, venv, flock, head, trouble>>

\* A signal to this runner: as on the host, its clean-up does not catch a second one.
Nudge(r) ==
    /\ Trouble
    /\ \/ inner[r].phase = "running" /\ ToCleanup(r, "signal")
       \/ /\ inner[r].phase = "cleanup"
          /\ inner' = [inner EXCEPT ![r].phase = "ended", ![r].code = "raised"]
          /\ UNCHANGED flock
    /\ UNCHANGED <<out, host, docker, proc, disk, venv, head>>

InnerStep(r) ==
    \/ Run(r) \/ AskRevision(r)
    \/ Lock(r) \/ Check(r) \/ Wipe(r) \/ Copy(r) \/ Install(r) \/ Mark(r) \/ Release(r) \/ Use(r)
    \/ TakeOut(r) \/ PutIn(r) \/ Import(r)
    \/ Launch(r) \/ Ready(r) \/ NoteScraper(r) \/ Started(r) \/ Watch(r) \/ CheckServices(r)
    \/ Stop(r) \/ Compact(r) \/ Normalize(r)

Exits(r, p, how) ==
    /\ p \in DOMAIN proc[r] /\ proc[r][p] = "live"
    /\ proc' = [proc EXCEPT ![r][p] = how]
    /\ UNCHANGED <<out, host, docker, inner, disk, venv, flock, head>>

\* A process exits although it should not, for whatever reason.
Crash(r) == Trouble /\ \E p \in DOMAIN proc[r] : Exits(r, p, "failed")

BenchmarkEnds(r) == UNCHANGED trouble /\ Exits(r, "benchmark", "zero")

Next ==
    \/ Move
    \/ \E r \in Runs : \/ Begin(r) \/ HostStep(r) \/ Signal(r) \/ Kill(r)
                       \/ InnerStep(r) \/ Nudge(r) \/ Crash(r) \/ BenchmarkEnds(r)

Spec == Init /\ [][Next]_vars

-----------------------------------------------------------------------------
(* Properties.                                                             *)

\* TypeOK: the runners are where their code can be, a lock has one holder and a cache's
\* entry is one of those the installation leaves.
TypeOK ==
    /\ \A r \in Runs :
        /\ host[r].code \in {"none", "ok", "error", "signal", "raised"} /\ host[r].seen \in Revisions \cup {None}
        /\ InTry(r) \/ InCleanup(r) \/ Over(r) \/ host[r] = Idle
        /\ docker[r] \subseteq {"mooncake", "main"} /\ host[r].lost \subseteq {"mooncake", "main"}
        /\ inner[r].phase \in {"absent", "running", "cleanup", "ended", "dead"}
        /\ inner[r].rev \in Revisions \cup {None}
        /\ inner[r].scraper \in {{}, {"process"}, {"process", "local_dir"}}
        /\ {inner[r].compacted, inner[r].normalized} \subseteq {"none", "tried", "done"}
        /\ DOMAIN proc[r] \subseteq Owned[r]
        /\ \A p \in DOMAIN proc[r] : proc[r][p] \in {"live", "zero", "failed", "stopped"}
    /\ trouble \in 0..MaxTrouble
    /\ disk \in [Caches -> [copied : BOOLEAN, whole : BOOLEAN, complete : BOOLEAN]]
    /\ flock \in [Caches -> Runs \cup {None}] /\ venv \in [DynamoParts \X Revisions -> Runs \cup {None}]

\* NothingLeftBehind: a host runner that has returned, and whose clean-up no signal broke off,
\* leaves no container but those docker would not remove, and so no service, whatever failed
\* or was interrupted before, a docker run on its way included.
NothingLeftBehind ==
    \A r \in Runs :
        host[r].at = "ended" /\ host[r].code # "raised" => docker[r] \subseteq host[r].lost

\* OnlyItsOwn: a container is removed by its own runner's clean-up or when that runner is
\* over, never by another run at work beside it.
OnlyItsOwn ==
    [][\A r \in Runs : ~(docker[r] \subseteq docker'[r]) => InCleanup(r) \/ Over(r)]_vars

\* ZeroMeansRan: exit code 0 of the host runner means that every service was started, the
\* benchmark ended with 0, every process the run owned is gone, and the clean-up got to the
\* end: it compacted or tried to, where there is a scraper, and normalized or tried to, where
\* that is asked for.  Neither has to succeed; a failure of theirs is a warning.
ZeroMeansRan ==
    \A r \in Runs :
        host[r].at = "ended" /\ host[r].code = "ok" =>
            /\ DOMAIN proc[r] = Owned[r] /\ proc[r]["benchmark"] = "zero"
            /\ \A p \in Owned[r] : proc[r][p] # "live"
            /\ inner[r].compacted # "none" <=> Has(r, "tachometer")
            /\ inner[r].normalized # "none" <=> Has(r, "ruter")

\* RunsSound: runs keep their shape, and exit code 0 means that the run got through all its
\* steps (ZeroMeansRan), of which compaction and normalization need not have succeeded.
RunsSound == TypeOK /\ ZeroMeansRan

\* CompactedAfterScrape: what the scraper wrote is compacted only when the scraper is gone,
\* also when a signal comes between its start and the assignments that follow.
CompactedAfterScrape ==
    [][\A r \in Runs : inner'[r].compacted # inner[r].compacted => proc[r]["tachometer"] # "live"]_vars

\* CleansUpInOrder: a clean-up touches what is its own, and files only when their writer is gone.
CleansUpInOrder == OnlyItsOwn /\ CompactedAfterScrape

\* Run r is past every step of this kind and name.
Past(r, step) == \A n \in DOMAIN Stages[r] : Stages[r][n] = step => n < inner[r].pc

\* Another run with the same runtime may have begun to install its Dynamo.
Shared(r) ==
    \E q \in Runs \ {r} :
        /\ host[q].seen = host[r].seen /\ inner[q].phase # "absent"
        /\ inner[q].phase = "running" => \E n \in DOMAIN Stages[q] : n < inner[q].pc /\ Stages[q][n][1] = "out"

\* WholeRuntime: if every run's host and container saw the checkout at the same revision,
\* what a run has imported or found stays whole, although others install beside it: its
\* SGLang, and the cached Dynamo; and the wheel and the sources of Dynamo it put into the
\* runtime stay its own until another run with that runtime gets to its own installation.
WholeRuntime ==
    (\A r \in Runs : inner[r].rev \in {None, host[r].seen}) =>
        \A r \in Runs : inner[r].phase = "running" =>
            /\ Past(r, <<"use", "sglang">>) => disk[Dir(r, "sglang")].whole
            /\ Has(r, "dynamo_hash") /\ Past(r, <<"use", "dynamo">>) => disk[Dir(r, "dynamo")].whole
            /\ \A part \in DynamoParts :
                 Past(r, <<"in", part>>) => venv[<<part, host[r].seen>>] = r \/ Shared(r)
=============================================================================
