--------------------------- MODULE JobSubmission ---------------------------
(***************************************************************************)
(* From a recipe file to the configuration a job runs: srtctl apply        *)
(* (cli/submit.py) expands the file into variants (core/config.py,         *)
(* core/sweep.py), checks each, hands it to SLURM and then writes the      *)
(* job's directory; the job (cli/do_sweep.py) loads its configuration from *)
(* there and leaves a lockfile (core/lockfile.py), which can be applied in *)
(* its turn.  The file is read several times and may be edited meanwhile;  *)
(* SLURM may start the job before its directory is written.  The commands  *)
(* that submit nothing take the same steps as far as they go, and a        *)
(* directory is one recipe after the other.                                *)
(***************************************************************************)
EXTENDS ConfigMerge, SequencesExt, TLC

CONSTANTS Files,           \* contents the recipe file may have at first
          Edits,           \* contents it may be given while srtctl runs
          Selectors,       \* what may follow the colon of -f file:selector
          Commands,        \* the commands and options srtctl is called with
          ClusterDefaults, \* srtslurm.yaml: values for paths a recipe leaves out
          Aliases,         \* srtslurm.yaml: for model and container paths, what names stand for
          Analytics,       \* what observability.enabled switches on
          SchemaDefaults,  \* what the schema fills in when it dumps a configuration
          KnownKeys,       \* top-level keys the schema accepts
          Remote,          \* Hugging Face models and registry images
          Existing,        \* model and container paths there are
          Prints,          \* the fingerprints its workers may leave, by worker
          MaxEdits         \* how often the file is edited

All == [kind |-> "all", keys |-> {}, index |-> 0]

\* parse_config_arg: an index is one of a zip section.
ASSUME SelectorsAssumption ==
    /\ All \in Selectors
    /\ \A sel \in Selectors : /\ sel.kind \in {"all", "base", "key", "index"}
                              /\ sel.kind = "index" => sel.index \in Nat /\ \A k \in sel.keys : k.zip

\* What follows srtctl.  sweep, serve and enforce are --sweep, --serve-only and not
\* --no-preflight; stdin is -f -.
Command == [verb: {"apply", "dry-run", "preflight", "resolve-override", "bash"},
            sweep: BOOLEAN, serve: BOOLEAN, enforce: BOOLEAN, stdin: BOOLEAN]

\* parser.error.
ASSUME CommandsAssumption ==
    /\ Commands \subseteq Command
    /\ \A how \in Commands : /\ how.verb = "bash" => ~how.serve /\ ~how.sweep
                             /\ how.serve => how.verb = "apply" /\ ~how.sweep
                             /\ how.sweep => how.verb \in {"apply", "dry-run"}
                             /\ ~how.enforce => how.verb = "apply"

\* Keys of a YAML file are strings; expand_observability sets what the schema knows, and the
\* schema fills in no sweep.
ASSUME PathsAssumption ==
    /\ DOMAIN ClusterDefaults \cup DOMAIN Analytics \subseteq Seq(STRING)
    /\ \A p \in DOMAIN Analytics : p[1] \in KnownKeys
    /\ \A p \in DOMAIN SchemaDefaults : p[1] # "sweep"

ASSUME MaxEditsAssumption == MaxEdits \in Nat

\* A recipe is [override, top, sections, lock]: the recipe itself or, in an override
\* file, its base and then its sections [zip, suffix, body] in the order of their keys;
\* the lock section, when it is a lockfile.  What -f names is [dir, of]: the recipes of a
\* directory in the order of their names, or the one recipe of a file.
IsTree(tree) == DOMAIN tree \subseteq Seq(STRING) /\ tree = [p \in DOMAIN tree |-> tree[p]]

\* Of a section with its numerals; two have two keys.
IsSection(s) ==
    /\ s.zip \in BOOLEAN /\ s.suffix \in Seq(STRING) \ {<<>>} /\ IsTree(s.body)
    /\ s.zip => /\ \A p \in DOMAIN s.body : Len(s.body[p].items) \in Nat
                /\ \A i, k \in 0..(ZipLength(s.body) - 1) :
                      /\ ToString(i) \in STRING
                      /\ ToString(i) = ToString(k) => i = k

IsRecipe(source) ==
    source.override =>
        /\ IsTree(source.top)
        /\ \/ NameOf(source.top) \in Seq(STRING)
           \/ NamePath \in DOMAIN source.top /\ source.top[NamePath] = None
        /\ source.sections \in Seq(Range(source.sections))
        /\ \A s, t \in Range(source.sections) :
              IsSection(s) /\ (s.zip = t.zip /\ s.suffix = t.suffix => s = t)

Recipes == Edits \cup UNION {Range(f.of) : f \in Files}
ASSUME FilesAssumption ==
    /\ Files \subseteq [dir: BOOLEAN, of: Seq(Recipes)]
    /\ \A f \in Files : f.of # <<>> /\ (f.dir \/ Len(f.of) = 1)
    /\ \A source \in Recipes : IsRecipe(source)
    /\ None \notin Seq(STRING)

VARIABLES file,   \* the recipe file or directory
          edits,
          cmd,    \* srtctl apply: where it is, what it reads, what it has yet to submit
          jobs    \* the jobs SLURM accepted, in order, with their directories

vars == <<file, edits, cmd, jobs>>

-----------------------------------------------------------------------------
(* Loading a configuration.                                                *)

WithDefaults(config, defaults) ==
    LET new == {p \in DOMAIN defaults : \A q \in DOMAIN config : ~Meets(p, q)}
    IN  [p \in DOMAIN config \cup new |-> IF p \in new THEN defaults[p] ELSE config[p]]

AliasOf(path, value) ==
    IF path \in DOMAIN Aliases /\ value \in DOMAIN Aliases[path] THEN Aliases[path][value] ELSE value

\* resolve_config_with_defaults
Resolve(config) ==
    LET full == WithDefaults(config, ClusterDefaults)
    IN  [p \in DOMAIN full |-> AliasOf(p, full[p])]

\* expand_observability
Observed(config) ==
    IF <<"observability", "enabled">> \in DOMAIN config THEN WithDefaults(config, Analytics) ELSE config

\* The exporters' images of a block that watches the nodes.
Monitors == (<<"observability", "tachometer">> :> {"dcgm_exporter", "node_exporter"})
            @@ (<<"telemetry">> :> {"dcgm_exporter"})
Images(block) == {block \o <<exporter, "container_image">> : exporter \in Monitors[block]}

\* Model and container; an exporter's image may be left out.
Required == DOMAIN Aliases \ UNION {Images(block) : block \in DOMAIN Monitors}

\* expand_observability sets environments and switches of the engines.
ASSUME AnalyticsAssumption == DOMAIN Analytics \cap ({NamePath} \cup Required) = {}

\* SrtConfig.Schema().load, on a resolved configuration
Valid(config) ==
    /\ \A p \in DOMAIN config : p[1] \in KnownKeys
    /\ \A p \in {NamePath} \cup Required : p \in DOMAIN config /\ config[p] # None

\* load_config; a lock section is taken off, an override file does not fit the schema.
Load(config) == Observed(Resolve(config))
Loads(source) == ~source.override /\ Valid(Load(source.top))

-----------------------------------------------------------------------------
(* generate_override_configs                                               *)

KeyOf(section) == [zip |-> section.zip, suffix |-> section.suffix]

\* The sections a selector is for.
Chosen(source, sel) ==
    {s \in Range(source.sections) :
        sel.kind = "all" \/ (sel.kind \in {"key", "index"} /\ KeyOf(s) \in sel.keys)}

\* Where it raises no ValueError.
Expandable(source, sel) ==
    /\ source.override
    /\ sel.kind \in {"key", "index"} => Chosen(source, sel) # {}
    /\ \A s \in Chosen(source, sel) : /\ s.zip => ZipLength(s.body) > 0
                                      /\ sel.kind = "index" => sel.index < ZipLength(s.body)

OverrideVariant(base, s) ==
    LET merged == Merge(base, s.body)
    IN  [suffix |-> s.suffix,
         config |-> IF NamePath \in DOMAIN s.body THEN merged
                    ELSE WithName(merged, NameOf(base) \o s.suffix)]

\* expand_zip_override: a scalar name would be the same for every variant.
ZipVariants(base, s) ==
    [i \in 1..ZipLength(s.body) |->
        LET merged == Merge(base, Slice(s.body, i - 1))
            suffix == Append(s.suffix, ToString(i - 1))
        IN  [suffix |-> suffix,
             config |-> IF NamePath \in DOMAIN s.body /\ s.body[NamePath].list THEN merged
                        ELSE WithName(merged, NameOf(base) \o suffix)]]

VariantsOf(base, s) == IF s.zip THEN ZipVariants(base, s) ELSE <<OverrideVariant(base, s)>>

generate_override_configs(source, sel) ==
    LET chosen == Chosen(source, sel)
        one == CHOOSE s \in chosen : TRUE
        of(s) == IF s \in chosen THEN VariantsOf(source.top, s) ELSE <<>>
    IN  CASE sel.kind = "base"  -> <<[suffix |-> <<"base">>, config |-> source.top]>>
          [] sel.kind = "index" -> <<VariantsOf(source.top, one)[sel.index + 1]>>
          [] OTHER -> FlattenSeq([i \in DOMAIN source.sections |-> of(source.sections[i])])

\* resolve_override_yaml: the variants once more, merged into the tree that has the
\* comments; an override section is found by the suffix of the variant.
\* Mutant: the generated name is not carried over.
Commented_unnamed(comments, v) ==
    LET own == {s \in Range(comments.sections) : ~s.zip /\ s.suffix = v.suffix}
    IN  IF v.suffix = <<"base">> THEN comments.top
        ELSE IF own = {} THEN Merge(comments.top, v.config)
        ELSE Merge(comments.top, (CHOOSE s \in own : TRUE).body)

Commented(comments, v) ==
    LET own == {s \in Range(comments.sections) : ~s.zip /\ s.suffix = v.suffix}
    IN  IF v.suffix = <<"base">> THEN comments.top
        ELSE IF own = {} THEN Merge(comments.top, v.config)
        ELSE LET merged == Merge(comments.top, (CHOOSE s \in own : TRUE).body)
             IN  IF NamePath \in DOMAIN v.config THEN WithName(merged, v.config[NamePath]) ELSE merged

-----------------------------------------------------------------------------
(* generate_sweep_configs                                                  *)

SweepParams(config) == {p \in DOMAIN config : p[1] = "sweep"}

\* expand_template: the parts of a value that are placeholders.
Substitute(value, choice) ==
    IF value = None THEN None
    ELSE [i \in DOMAIN value |->
            LET named == {p \in DOMAIN choice : value[i] = "{" \o p[2] \o "}"}
            IN  IF named = {} THEN value[i] ELSE choice[CHOOSE p \in named : TRUE]]

ParamParts(choice) ==
    LET params == SetToSeq(DOMAIN choice)
    IN  FlattenSeq([i \in DOMAIN params |-> <<params[i][2], choice[params[i]]>>])

\* One point of the product, as the schema dumps it.
SweepConfig(config, choice) ==
    LET rest == [p \in DOMAIN config \ SweepParams(config) |-> Substitute(config[p], choice)]
    IN  WithDefaults(WithName(rest, NameOf(config) \o ParamParts(choice)), SchemaDefaults)

SweepConfigs(config) ==
    LET resolved == Resolve(config)
        params == SweepParams(resolved)
        values == UNION {Range(resolved[p]) : p \in params}
        choices == {c \in [params -> values] : \A p \in params : c[p] \in Range(resolved[p])}
    IN  {SweepConfig(resolved, c) : c \in choices}

Given(config, path) == path \in DOMAIN config /\ config[path] # None
Positive(config, path) == Given(config, path) /\ config[path] # <<"0">>

\* validate_topology: workers that prefill and workers that decode, or nodes with workers
\* that do both, and no field of the one kind beside a field of the other.
Topology(raw) ==
    LET roles(names) == {<<"resources", name>> : name \in names}
        workers == roles({"prefill_workers", "decode_workers"})
        split == workers \cup roles({"prefill_nodes", "decode_nodes"})
        joint == roles({"agg_nodes", "agg_workers"})
        some(paths) == \E p \in paths : Given(raw, p)
    IN  \/ some(split) /\ ~some(joint) /\ \A p \in workers : Positive(raw, p)
        \/ some(joint) /\ ~some(split) /\ \A p \in joint : Positive(raw, p)

\* _preflight_telemetry: the images of what is switched on, by what their aliases stand for.
MonitorsAvailable(resolved) ==
    \A block \in DOMAIN Monitors :
        LET enabled == Append(block, "enabled")
        IN  enabled \in DOMAIN resolved /\ resolved[enabled] = <<"true">> =>
                \A p \in Images(block) : Given(resolved, p) => resolved[p] \in Remote \cup Existing

\* preflight_config_variants; a model or container that looks remote is not looked for.
Available(raw) ==
    LET resolved == Resolve(raw)
    IN  /\ \A p \in Required : Given(raw, p) /\ (raw[p] \in Remote \/ resolved[p] \in Existing)
        /\ Topology(raw)
        /\ MonitorsAvailable(resolved)

-----------------------------------------------------------------------------
(* srtctl apply --bash                                                     *)

\* Where it serves: SGLang behind one Dynamo frontend, with a command as the benchmark.
OnlyDirect == (<<"backend", "type">> :> <<"sglang">>) @@ (<<"frontend", "type">> :> <<"dynamo">>)
              @@ (<<"benchmark", "type">> :> <<"custom">>) @@ (<<"telemetry", "enabled">> :> <<"false">>)
\* What the schema fills in.
DirectDefaults == [OnlyDirect EXCEPT ![<<"benchmark", "type">>] = <<"manual">>]

\* _validate_direct_config
Direct(config) ==
    LET full == WithDefaults(config, DirectDefaults)
        nodes == {p \in {<<"resources", k>> : k \in {"prefill_nodes", "decode_nodes", "agg_nodes"}} :
                    Positive(config, p)}
    IN  /\ \A p \in DOMAIN OnlyDirect : p \in DOMAIN full /\ full[p] = OnlyDirect[p]
        /\ \E p \in nodes : nodes = {p} /\ config[p] = <<"1">>
        /\ \A image \in Images(<<"observability", "tachometer">>) : ~Given(config, image)
        /\ Given(config, <<"benchmark", "command">>)
        /\ Given(config, <<"environment", "SRTCTL_LOCAL_CONTAINER_IMAGE">>)
        /\ Given(config, <<"environment", "SRTCTL_SGLANG_SOURCE">>)
        /\ Given(config, <<"dynamo", "hash">>) \/ Given(config, <<"dynamo", "top_of_tree">>)

\* build_direct_plan_context: what of a configuration there is to see in the plan.
PlanOf(config) ==
    LET planned == {"name", "model", "resources", "backend", "frontend", "dynamo", "benchmark",
                    "health_check", "observability", "environment", "setup_script"}
    IN  [p \in {q \in DOMAIN config : q[1] \in planned /\ q # <<"model", "container">>} |-> config[p]]

-----------------------------------------------------------------------------
(* srtctl apply                                                            *)

\* What there is to submit: how, and the text that goes into the job's directory.
Item(kind, text, suffix) == [kind |-> kind, text |-> text, suffix |-> suffix]

\* A plain apply.
Plainly == [verb |-> "apply", sweep |-> FALSE, serve |-> FALSE, enforce |-> TRUE, stdin |-> FALSE]

\* nth is the recipe it is at, results what became of those before it; variants are those of
\* an override file and due the next of them, points what is left of a sweep, item what is
\* being submitted; out is what it has written itself: resolved files by suffix, or the
\* configuration of a script.
Idle == [at |-> "idle", how |-> Plainly, target |-> 0, sel |-> All, stdin |-> None, nth |-> 1,
         comments |-> None, variants |-> <<>>, due |-> 1, points |-> {},
         item |-> Item("single", None, <<>>), results |-> <<>>, out |-> None, runs |-> 0]

Init ==
    /\ file \in Files
    /\ edits = 0
    /\ cmd = Idle
    /\ jobs = <<>>

InDirectory == cmd.target = 0 /\ file.dir

\* The file it is at: the recipe, its copy when it came on stdin, or the lockfile of a job.
Read == IF cmd.target # 0 THEN jobs[cmd.target].lock
        ELSE IF cmd.how.stdin THEN cmd.stdin
        ELSE file.of[cmd.nth]

\* Somebody edits the recipe while srtctl is at work on it.  Bound: not in a directory,
\* where each file is read like this one, and not what a copy was made of.
Edit ==
    /\ edits < MaxEdits
    /\ cmd.target = 0 /\ cmd.at \notin {"idle", "done", "failed"}
    /\ ~file.dir /\ ~cmd.how.stdin
    /\ edits' = edits + 1
    /\ \E new \in Edits \ Range(file.of) : file' = [file EXCEPT !.of[1] = new]
    /\ UNCHANGED <<cmd, jobs>>

\* A command about the recipe first and, when it was a plain apply and its jobs are over,
\* another of the lockfile of one that ran.
Apply ==
    \E target \in 0..Len(jobs), sel \in Selectors, how \in Commands \cup {Plainly} :
        /\ \/ cmd.runs = 0 /\ target = 0 /\ how \in Commands /\ ~(how.stdin /\ file.dir)
           \/ /\ cmd.runs = 1 /\ cmd.how = Plainly /\ ~file.dir
              /\ cmd.at \in {"done", "failed"}
              /\ \A j \in DOMAIN jobs : jobs[j].state \in {"done", "failed"}
              /\ target > 0 /\ jobs[target].state = "done" /\ sel = All /\ how = Plainly
        /\ cmd' = [Idle EXCEPT !.at = "dispatch", !.target = target, !.how = how,
                               !.sel = IF target = 0 /\ file.dir THEN All ELSE sel,
                               !.stdin = IF how.stdin THEN file.of[1] ELSE None,
                               !.runs = cmd.runs + 1]
        /\ UNCHANGED <<file, edits, jobs>>

\* A recipe is dealt with: the command is over, or goes on to the next of the directory.
\* There, an exception only counts.
Ended(result) == [cmd EXCEPT !.at = IF InDirectory THEN "next"
                                    ELSE IF result = "ok" THEN "done" ELSE "failed",
                             !.variants = <<>>, !.due = 1, !.points = {}, !.comments = None,
                             !.results = Append(@, result)]
Rejected == Ended("rejected")

Goes(at) == /\ cmd' = [cmd EXCEPT !.at = at]
            /\ UNCHANGED <<file, edits, jobs>>
GoesOr(possible, at) == /\ cmd' = IF possible THEN [cmd EXCEPT !.at = at] ELSE Rejected
                        /\ UNCHANGED <<file, edits, jobs>>

Submits == cmd.how.verb \in {"apply", "dry-run"}

\* Directories are for submissions without --serve-only.
RefuseDirectory ==
    /\ cmd.at = "dispatch"
    /\ InDirectory /\ (~Submits \/ cmd.how.serve)
    /\ Goes("failed")

\* is_override_config, is_sweep_config: each opens the file for itself.
Dispatch ==
    /\ cmd.at = "dispatch" /\ Submits
    /\ ~(InDirectory /\ cmd.how.serve)
    /\ IF Read.override THEN Goes("generate")
       ELSE IF cmd.how.sweep \/ SweepParams(Read.top) # {} THEN GoesOr(~cmd.how.serve, "sweep")
       ELSE Goes("single")

\* resolve-override and --bash.
DispatchResolve ==
    /\ cmd.at = "dispatch" /\ cmd.how.verb \in {"resolve-override", "bash"} /\ ~InDirectory
    /\ IF Read.override THEN Goes("comments") ELSE GoesOr(cmd.how.verb = "bash", "render")

\* srtctl preflight: every chosen variant, from one reading.
DispatchPreflight ==
    /\ cmd.at = "dispatch" /\ cmd.how.verb = "preflight" /\ ~InDirectory
    /\ GoesOr(IF Read.override
                THEN /\ Expandable(Read, cmd.sel)
                     /\ \A v \in Range(generate_override_configs(Read, cmd.sel)) : Available(v.config)
                ELSE Available(Read.top), "finish")

\* submit_directory: the next file.
NextFile ==
    /\ cmd.at = "next"
    /\ cmd' = IF cmd.nth < Len(file.of) THEN [cmd EXCEPT !.at = "dispatch", !.nth = @ + 1]
              ELSE [cmd EXCEPT !.at = "done"]
    /\ UNCHANGED <<file, edits, jobs>>

\* submit_override expands the file, for the display, before it is read for the submission.
Generate == cmd.at = "generate" /\ GoesOr(Expandable(Read, cmd.sel), "comments")

ReadComments ==
    /\ cmd.at = "comments"
    /\ cmd' = IF Read.override THEN [cmd EXCEPT !.at = "plain", !.comments = Read] ELSE Rejected
    /\ UNCHANGED <<file, edits, jobs>>

\* --serve-only and --bash are for one variant.
ReadPlain ==
    /\ cmd.at = "plain"
    /\ cmd' = IF ~Expandable(Read, cmd.sel) THEN Rejected
              ELSE LET plain == generate_override_configs(Read, cmd.sel)
                       single == cmd.how.serve \/ cmd.how.verb = "bash"
                   IN  IF single /\ Len(plain) # 1 THEN Rejected
                       ELSE [cmd EXCEPT
                               !.at = CASE Submits -> "check"
                                        [] cmd.how.verb = "resolve-override" -> "write out"
                                        [] OTHER -> "render",
                               !.variants = [i \in DOMAIN plain |->
                                   Item("override", Commented(cmd.comments, plain[i]), plain[i].suffix)]]
    /\ UNCHANGED <<file, edits, jobs>>

\* resolve_override_cmd: <file>_<suffix>.yaml, in their order.
WriteOut ==
    /\ cmd.at = "write out"
    /\ LET suffixes == {cmd.variants[i].suffix : i \in DOMAIN cmd.variants}
           LastOf(s) == Max({i \in DOMAIN cmd.variants : cmd.variants[i].suffix = s})
       IN  cmd' = [Ended("ok") EXCEPT !.out = [s \in suffixes |-> cmd.variants[LastOf(s)].text]]
    /\ UNCHANGED <<file, edits, jobs>>

\* render_bash_script.  A variant is not expanded like a file that is loaded.
RenderBash ==
    /\ cmd.at = "render"
    /\ LET variant == cmd.variants # <<>>
           config == IF variant THEN Head(cmd.variants).text ELSE Read.top
           loaded == IF variant THEN Resolve(config) ELSE Load(config)
       IN  cmd' = IF \/ ~variant /\ ~Loads(Read)
                     \/ SweepParams(config) # {} \/ ~Valid(Resolve(config))
                     \/ ~Direct(loaded)
                    THEN Rejected
                  ELSE [Ended("ok") EXCEPT !.out = PlanOf(loaded)]
    /\ UNCHANGED <<file, edits, jobs>>

\* The points of a sweep, in any order; each is validated before the first is submitted.
SweepItems(config) == {Item("sweep", point, <<>>) : point \in SweepConfigs(config)}
SweepValid(config) == /\ NamePath \in DOMAIN config /\ SweepParams(config) # {}
                      /\ \A c \in SweepConfigs(config) : Valid(c)

\* A dry run writes the points into a directory and leaves it at that.
SweepQueue(config) == IF cmd.how.verb = "dry-run" THEN {} ELSE SweepItems(config)

ReadSweep ==
    /\ cmd.at = "sweep"
    /\ cmd' = IF ~Read.override /\ SweepValid(Read.top)
                THEN [cmd EXCEPT !.at = "check", !.points = SweepQueue(Read.top)]
                ELSE Rejected
    /\ UNCHANGED <<file, edits, jobs>>

\* Where a checked item goes: a dry run shows the job script only.
AfterCheck == IF cmd.how.verb = "dry-run" THEN "shown"
              ELSE IF cmd.how.enforce THEN "preflight" ELSE "sbatch"

ReadSingle ==
    /\ cmd.at = "single"
    /\ cmd' = IF Loads(Read)
                THEN [cmd EXCEPT !.at = AfterCheck, !.item = Item("single", Read.top, <<>>)]
                ELSE Rejected
    /\ UNCHANGED <<file, edits, jobs>>

\* What is next: the rest of a sweep before the next variant.
Upcoming == IF cmd.points # {} THEN cmd.points
            ELSE IF cmd.due \in DOMAIN cmd.variants THEN {cmd.variants[cmd.due]}
            ELSE {}

NothingLeft == /\ cmd.at = "finish" \/ (cmd.at = "check" /\ Upcoming = {})
               /\ cmd' = Ended("ok")
               /\ UNCHANGED <<file, edits, jobs>>

\* The next item: a point of a sweep is loaded from its file, a variant validated as it
\* is; a variant that contains a sweep is submitted as one.
CheckItem ==
    /\ cmd.at = "check"
    /\ \E item \in Upcoming :
         LET nested == item.kind = "override" /\ SweepParams(item.text) # {}
             valid == Valid(IF item.kind = "override" THEN Resolve(item.text) ELSE Load(item.text))
             taken == [cmd EXCEPT !.points = @ \ {item},
                                  !.due = IF item.kind = "override" THEN @ + 1 ELSE @]
         IN  cmd' = IF ~valid \/ (nested /\ (cmd.how.serve \/ ~SweepValid(item.text)))
                      THEN Rejected
                    ELSE IF nested
                      THEN [taken EXCEPT !.points = SweepQueue(item.text)]
                    ELSE [taken EXCEPT !.at = AfterCheck, !.item = item]
    /\ UNCHANGED <<file, edits, jobs>>

Show ==
    /\ cmd.at = "shown"
    /\ cmd' = [cmd EXCEPT !.at = "check"]
    /\ UNCHANGED <<file, edits, jobs>>

\* preflight_config_variants, of the file as it is by now when it is a plain recipe.
PreflightOk ==
    IF cmd.item.kind # "single" THEN Available(cmd.item.text)
    ELSE IF Read.override
      THEN /\ Expandable(Read, All)
           /\ \A v \in Range(generate_override_configs(Read, All)) : Available(v.config)
      ELSE Available(Read.top)

Preflight == cmd.at = "preflight" /\ GoesOr(PreflightOk, "sbatch")

\* dir is how far its directory is: empty, copied or whole.
NewJob == [kind |-> cmd.item.kind, of |-> cmd.target, nth |-> cmd.nth, how |-> cmd.how,
           checked |-> cmd.item.text, state |-> "queued",
           dir |-> "empty", source |-> None, variant |-> None, early |-> FALSE,
           ran |-> None, prev |-> None, prints |-> [w \in {} |-> None], report |-> None,
           lock |-> None]

\* submit_with_orchestrator: from here on the job may start.
Sbatch ==
    /\ cmd.at = "sbatch"
    /\ jobs' = Append(jobs, NewJob)
    /\ cmd' = [cmd EXCEPT !.at = "copy"]
    /\ UNCHANGED <<file, edits>>

\* CalledProcessError.
SbatchFails == /\ cmd.at = "sbatch"
               /\ cmd' = Ended("not submitted")
               /\ UNCHANGED <<file, edits, jobs>>

\* validate_setup: SystemExit passes every except.
SetupMissing == cmd.at = "sbatch" /\ jobs = <<>> /\ Goes("failed")

Job == jobs[Len(jobs)]

\* config.yaml of the job's directory: the file as it is now, or the sweep's own file.
CopySource ==
    /\ cmd.at = "copy"
    /\ jobs' = [jobs EXCEPT ![Len(jobs)].dir = "copied",
                            ![Len(jobs)].source =
                  IF Job.kind = "sweep"
                    THEN [override |-> FALSE, top |-> Job.checked, sections |-> <<>>, lock |-> None]
                    ELSE Read]
    /\ cmd' = [cmd EXCEPT !.at = "write"]
    /\ UNCHANGED <<file, edits>>

\* Mutant: the variant is written as it is in the file by now.
WriteRest_again ==
    /\ cmd.at = "write"
    /\ jobs' = [jobs EXCEPT ![Len(jobs)].dir = "whole",
                            ![Len(jobs)].variant =
                               IF Job.kind = "override" THEN Merge(Read.top, Job.checked) ELSE None]
    /\ cmd' = [cmd EXCEPT !.at = "check"]
    /\ UNCHANGED <<file, edits>>

\* The runtime configuration of a variant, then metadata, record and status entry.
WriteRest ==
    /\ cmd.at = "write"
    /\ jobs' = [jobs EXCEPT ![Len(jobs)].dir = "whole",
                            ![Len(jobs)].variant = IF Job.kind = "override" THEN Job.checked ELSE None]
    /\ cmd' = [cmd EXCEPT !.at = "check"]
    /\ UNCHANGED <<file, edits>>

\* The directory cannot be written: the job stays with SLURM.
WriteFails == /\ cmd.at \in {"copy", "write"}
              /\ cmd' = Ended("not submitted")
              /\ UNCHANGED <<file, edits, jobs>>

-----------------------------------------------------------------------------
(* The job                                                                 *)

\* The configuration the job script names, and whether it is there.
Named(job) == IF job.kind = "override" THEN job.variant ELSE job.source.top
There(job) == IF job.kind = "override" THEN job.dir = "whole" ELSE job.dir # "empty"

\* RuntimeContext.from_config
Found(config) == \A p \in Required : config[p] \in Remote \cup Existing

Starts(job) == /\ There(job)
               /\ job.kind # "override" => Loads(job.source)
               /\ Valid(Load(Named(job))) /\ Found(Load(Named(job)))

NoPrints == [w \in {} |-> None]

\* No value is a lock section, and fingerprints are functions of the workers.
ASSUME PrintsAssumption ==
    /\ None \notin [job: Nat, prints: Prints \cup {NoPrints}]
    /\ \A prints \in Prints : prints = [w \in DOMAIN prints |-> prints[w]]

\* _strip_lock_section
Stripped(source) == [override |-> source.override, top |-> source.top,
                     sections |-> source.sections, lock |-> None]

\* write_lockfile: config.yaml without its lock section, and a new one.
Locked(source, j, prints) == [Stripped(source) EXCEPT !.lock = [job |-> j, prints |-> prints]]

\* do_sweep main, and the lockfile written first thing in the run.
Start(j) ==
    /\ jobs[j].state = "queued"
    /\ jobs' = IF Starts(jobs[j])
                 THEN [jobs EXCEPT ![j].state = "running",
                                   ![j].ran = Load(Named(jobs[j])),
                                   ![j].prev = IF jobs[j].kind = "override" THEN None ELSE jobs[j].source.lock,
                                   ![j].lock = Locked(jobs[j].source, j, NoPrints)]
                 ELSE [jobs EXCEPT ![j].state = "failed", ![j].early = jobs[j].dir # "whole"]
    /\ UNCHANGED <<file, edits, cmd>>

\* Mutant: workers are compared only when both runs have them.
Report_matched(prev, prints) ==
    IF prev = None \/ prints = NoPrints THEN None
    ELSE IF prev.prints = NoPrints THEN None
    ELSE [clean |-> \A w \in DOMAIN prints \cap DOMAIN prev.prints : prints[w] = prev.prints[w]]

\* generate_reproduction_report: nothing to say when either side has no fingerprint.
Report(prev, prints) ==
    IF prev = None \/ prints = NoPrints THEN None
    ELSE IF prev.prints = NoPrints THEN None
    ELSE [clean |-> /\ DOMAIN prints = DOMAIN prev.prints
                    /\ \A w \in DOMAIN prints : prints[w] = prev.prints[w]]

\* run_postprocess: the lockfile again, with the fingerprints the workers managed to
\* write, and the comparison with the lock the job was started from.
Finish(j) ==
    /\ jobs[j].state = "running"
    /\ \E prints \in Prints :
          jobs' = [jobs EXCEPT ![j].state = "done",
                               ![j].prints = prints,
                               ![j].lock = Locked(jobs[j].source, j, prints),
                               ![j].report = Report(jobs[j].prev, prints)]
    /\ UNCHANGED <<file, edits, cmd>>

Next ==
    \/ Edit \/ Apply
    \/ RefuseDirectory \/ Dispatch \/ DispatchResolve \/ DispatchPreflight \/ NextFile
    \/ Generate \/ ReadComments \/ ReadPlain \/ WriteOut \/ RenderBash
    \/ ReadSweep \/ ReadSingle \/ NothingLeft \/ CheckItem \/ Show \/ Preflight
    \/ Sbatch \/ SbatchFails \/ SetupMissing \/ CopySource \/ WriteRest \/ WriteFails
    \/ \E j \in DOMAIN jobs : Start(j) \/ Finish(j)

Spec == Init /\ [][Next]_vars

-----------------------------------------------------------------------------
(* Properties                                                              *)

Ran(job) == job.state \in {"running", "done"}

\* Jobs and the submission in progress keep their shape; only the last job's directory is
\* being written, and a job runs from what is there and leaves a lockfile of its own.
TypeOK ==
    /\ cmd.target \in 0..Len(jobs) /\ cmd.runs \in 0..2 /\ edits \in 0..MaxEdits
    /\ cmd.item.kind \in {"single", "sweep", "override"}
    /\ cmd.at \in {"copy", "write"} =>
         /\ cmd.target < Len(jobs)
         /\ Job.dir = IF cmd.at = "copy" THEN "empty" ELSE "copied"
    /\ \A j \in DOMAIN jobs :
          /\ jobs[j].state \in {"queued", "running", "done", "failed"}
          /\ jobs[j].dir \in {"empty", "copied", "whole"}
          /\ jobs[j].of \in 0..(j - 1)
          /\ Ran(jobs[j]) => There(jobs[j]) /\ jobs[j].lock.lock.job = j

\* No override is named like the base or like a variant of a zip section, and nothing is null
\* in a zip section or the base of one.
Unambiguous(source) ==
    \A s \in Range(source.sections) :
        IF s.zip THEN /\ \A p \in DOMAIN source.top : source.top[p] # None
                      /\ \A i \in 0..(ZipLength(s.body) - 1) :
                        /\ \A p \in DOMAIN s.body : Slice(s.body, i)[p] # None
                        /\ \A t \in Range(source.sections) :
                             ~t.zip => t.suffix # Append(s.suffix, ToString(i))
        ELSE s.suffix # <<"base">>

StillSame == edits = 0 \/ cmd.target # 0 \/ cmd.how.stdin

\* What --bash leaves out of a variant.
Unobserved(config) == <<"observability", "enabled">> \notin DOMAIN Resolve(config)

\* What an override submission hands to the jobs, what resolve-override writes and what
\* --bash renders is what generate_override_configs makes of the file, variant by variant:
\* the two expansions of config.py (:372 validated and shown, :461 submitted) agree
\* wherever names and nulls do not get in the way.
ResolvedAsGenerated ==
    StillSame /\ cmd.at # "idle" /\ Read.override /\ Unambiguous(Read) =>
        LET generated == Range(generate_override_configs(Read, cmd.sel)) IN
        /\ cmd.at \in {"check", "preflight", "sbatch", "shown"} =>
             \A item \in Range(cmd.variants) :
                [suffix |-> item.suffix, config |-> item.text] \in generated
        /\ cmd.at = "done" /\ cmd.how.verb = "resolve-override" =>
             \A v \in generated : cmd.out[v.suffix] = v.config
        /\ cmd.at = "done" /\ cmd.how.verb = "bash" =>
             \A v \in generated : Unobserved(v.config) => cmd.out = PlanOf(Load(v.config))

\* The configurations a recipe stands for, those there are to submit of each, and whether
\* srtctl should take it.
Meant(source, sel) ==
    IF source.override THEN {v.config : v \in Range(generate_override_configs(source, sel))}
    ELSE {source.top}
Points(config) == IF SweepParams(config) = {} THEN {config} ELSE SweepConfigs(config)
Checked(config, how) ==
    Valid(Load(config)) /\ (how.verb = "apply" /\ how.enforce => Available(config))
Fit(source, config, how) ==
    IF SweepParams(config) = {} THEN Checked(config, how)
    ELSE /\ ~how.serve /\ SweepValid(config) /\ (source.override => Valid(Resolve(config)))
         /\ how.verb = "apply" => \A p \in Points(config) : Checked(p, how)
Good(source, sel, how) ==
    /\ source.override =>
         /\ Expandable(source, sel)
         /\ how.serve => Len(generate_override_configs(source, sel)) = 1
    /\ how.sweep /\ ~source.override => SweepParams(source.top) # {}
    /\ \A c \in Meant(source, sel) : Fit(source, c, how)

Submitted(nth, config) == \E j \in DOMAIN jobs : jobs[j].nth = nth /\ jobs[j].checked = config

\* srtctl apply and dry-run turn down a recipe exactly when one of its variants is bad, be
\* it found by the first check or, after other variants are submitted, by the last; in a
\* directory (submit.py:1106) every recipe is tried and none suffers from another.
RejectedWhenBad ==
    StillSame /\ cmd.at \in {"done", "failed"} /\ Submits /\ cmd.target = 0 =>
        /\ \A i \in DOMAIN cmd.results :
             LET source == IF cmd.how.stdin THEN cmd.stdin ELSE file.of[i] IN
             Unambiguous(source) =>
               /\ cmd.results[i] = "rejected" => ~Good(source, cmd.sel, cmd.how)
               /\ cmd.results[i] = "ok" =>
                    /\ Good(source, cmd.sel, cmd.how)
                    /\ cmd.how.verb = "apply" => \A c \in Meant(source, cmd.sel) :
                          \A p \in Points(c) : Submitted(i, p)
        /\ cmd.at = "done" => Len(cmd.results) = Len(file.of)

\* A recipe stands for the same configurations wherever it is expanded, and for good ones.
ExpandedExactly == ResolvedAsGenerated /\ RejectedWhenBad

AliasesLookLocal == \A p \in DOMAIN Aliases : DOMAIN Aliases[p] \cap Remote = {}

\* A job runs exactly the configuration that its submission validated, whatever happens
\* to the recipe file between the check and the start; it fails to start only when SLURM
\* started it before its directory was written, or when nothing was checked.  A plain recipe
\* is copied after the check (submit.py:800), so for it this takes that nobody edits the file.
RunsWhatWasChecked ==
    \A j \in DOMAIN jobs :
        jobs[j].kind # "single" \/ jobs[j].of # 0 \/ jobs[j].how.stdin \/ edits = 0 =>
            /\ Ran(jobs[j]) => jobs[j].ran = Load(jobs[j].checked)
            /\ jobs[j].state = "failed" /\ AliasesLookLocal /\ jobs[j].how.enforce => jobs[j].early

\* Jobs are well formed and run what was checked for them.
JobsSound == TypeOK /\ RunsWhatWasChecked

\* A plain job whose recipe was made a sweep before it was read again has a sweep's lockfile.
Reproducible(job) ==
    job.kind = "sweep" \/ (job.kind = "single" /\ SweepParams(job.lock.top) = {})

\* The lockfile of a plain or sweep job is a recipe for the same job (lockfile.py:17): the
\* job it leads to runs the same configuration and is compared with the lock's own
\* fingerprints, and a report without issues means the fingerprints are the same.
LockReproduces ==
    \A j \in DOMAIN jobs :
        LET origin == jobs[j].of IN
        origin # 0 /\ Reproducible(jobs[origin]) /\ Ran(jobs[j]) =>
            /\ jobs[j].ran = jobs[origin].ran
            /\ jobs[j].prev # None /\ jobs[j].prev.job = origin
            /\ jobs[j].report # None /\ jobs[j].report.clean => jobs[j].prints = jobs[j].prev.prints
=============================================================================
