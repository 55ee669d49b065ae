------------------------ MODULE JobSubmission_proofs ------------------------
(* Jobs run what was checked, their lockfiles lead to the same jobs, and        *)
(* recipes are expanded exactly.                                            *)
EXTENDS JobSubmission, FiniteSetTheorems, WellFoundedInduction, TLAPS

-----------------------------------------------------------------------------
(* The invariant                                                           *)

CmdFields == {"at", "how", "target", "sel", "stdin", "nth", "comments", "variants", "due", "points",
              "item", "results", "out", "runs"}
JobFields == {"kind", "of", "nth", "how", "checked", "state", "dir", "source", "variant", "early",
              "ran", "prev", "prints", "report", "lock"}
Kinds == {"single", "sweep", "override"}

\* What the submission has is still what it read.
Fresh == edits = 0 \/ cmd.target # 0 \/ cmd.how.stdin
Steady(job) == edits = 0 \/ job.of # 0 \/ job.how.stdin

IsJob(job) == DOMAIN job = JobFields /\ job = [x \in JobFields |-> job[x]]

Shape ==
    /\ edits \in 0..MaxEdits /\ cmd.runs \in 0..2
    /\ DOMAIN cmd = CmdFields /\ cmd = [x \in CmdFields |-> cmd[x]]
    /\ cmd.how \in Command /\ (cmd.target # 0 => cmd.how = Plainly)
    /\ cmd.item.kind \in Kinds
    /\ \A i \in DOMAIN cmd.variants : cmd.variants[i].kind = "override"
    /\ \A item \in cmd.points : item.kind = "sweep" /\ SweepParams(item.text) = {}
    /\ Len(jobs) \in Nat /\ jobs = [j \in 1..Len(jobs) |-> jobs[j]]
    /\ \A j \in 1..Len(jobs) : IsJob(jobs[j])
    /\ cmd.target \in 0..Len(jobs)

AtItem == {"preflight", "shown", "sbatch", "copy", "write"}

Passed(kind, text, steady) ==
    /\ kind = "single" /\ steady => Valid(Load(text))
    /\ kind = "sweep" => Valid(Load(text)) /\ SweepParams(text) = {}
    /\ kind = "override" => Valid(Resolve(text))
Preflighted(kind, text, how, steady) == how.enforce /\ (kind = "single" => steady) => Available(text)

ItemInv ==
    /\ cmd.at \in AtItem =>
         /\ Passed(cmd.item.kind, cmd.item.text, Fresh)
         /\ cmd.item.kind = "single" /\ Fresh => Read.top = cmd.item.text /\ ~Read.override
    /\ cmd.at \in {"sbatch", "copy", "write"} => Preflighted(cmd.item.kind, cmd.item.text, cmd.how, Fresh)

LastInv ==
    cmd.at \in {"copy", "write"} =>
        /\ cmd.target < Len(jobs)
        /\ Job.kind = cmd.item.kind /\ Job.of = cmd.target /\ Job.how = cmd.how
        /\ Job.checked = cmd.item.text
        /\ Job.dir = IF cmd.at = "copy" THEN "empty" ELSE "copied"

TargetInv ==
    cmd.target # 0 =>
        /\ jobs[cmd.target].state = "done"
        /\ Reproducible(jobs[cmd.target]) =>
             /\ cmd.at \in {"dispatch", "single", "check", "preflight", "sbatch", "copy", "write", "done", "failed"}
             /\ cmd.points = {} /\ cmd.variants = <<>>
             /\ cmd.at \in AtItem => cmd.item.kind = "single"

Records(j) ==
    LET job == jobs[j] IN
    /\ job.kind \in Kinds /\ job.how \in Command
    /\ job.state \in {"queued", "running", "done", "failed"}
    /\ job.dir \in {"empty", "copied", "whole"}
    /\ Passed(job.kind, job.checked, Steady(job))
    /\ Preflighted(job.kind, job.checked, job.how, Steady(job))

Directory(j) ==
    LET job == jobs[j] IN
    /\ job.dir # "empty" /\ (job.kind = "sweep" \/ (job.kind = "single" /\ Steady(job))) =>
         job.source.top = job.checked /\ ~job.source.override
    /\ job.dir = "whole" /\ job.kind = "override" => job.variant = job.checked

History(j) ==
    LET job == jobs[j] IN
    /\ Ran(job) =>
         /\ There(job) /\ job.ran = Load(Named(job))
         /\ job.lock.top = job.source.top /\ job.lock.override = job.source.override
         /\ job.lock.lock.job = j
         /\ job.kind # "override" => ~job.source.override /\ job.prev = job.source.lock
    /\ job.state \in {"queued", "running"} => job.report = None
    /\ job.state = "done" =>
         /\ job.prints \in Prints /\ job.lock.lock = [job |-> j, prints |-> job.prints]
         /\ job.report = Report(job.prev, job.prints)
    /\ job.state = "failed" /\ AliasesLookLocal /\ job.how.enforce
         /\ (job.kind # "single" \/ Steady(job)) => job.early

Origin(j) ==
    LET job == jobs[j] IN
    /\ job.of \in 0..(j - 1)
    /\ job.of # 0 =>
         /\ jobs[job.of].state = "done"
         /\ Reproducible(jobs[job.of]) =>
              job.kind = "single" /\ (job.dir # "empty" => job.source = jobs[job.of].lock)

JobInv == \A j \in 1..Len(jobs) : Records(j) /\ Directory(j) /\ History(j) /\ Origin(j)

IInv == Shape /\ ItemInv /\ LastInv /\ TargetInv /\ JobInv

-----------------------------------------------------------------------------
(* Sequences of jobs                                                       *)

LEMMA AppendJob ==
  ASSUME Len(jobs) \in Nat, jobs = [j \in 1..Len(jobs) |-> jobs[j]], NEW x
  PROVE  /\ Len(Append(jobs, x)) = Len(jobs) + 1
         /\ Append(jobs, x) = [j \in 1..(Len(jobs) + 1) |-> Append(jobs, x)[j]]
         /\ Append(jobs, x)[Len(jobs) + 1] = x
         /\ \A j \in 1..Len(jobs) : Append(jobs, x)[j] = jobs[j]
<1> DEFINE S == {jobs[j] : j \in 1..Len(jobs)} \cup {x}
<1>1. jobs \in Seq(S) /\ x \in S
  OBVIOUS
<1>2. /\ Append(jobs, x) \in Seq(S) /\ Len(Append(jobs, x)) = Len(jobs) + 1
      /\ Append(jobs, x)[Len(jobs) + 1] = x
      /\ \A j \in 1..Len(jobs) : Append(jobs, x)[j] = jobs[j]
  BY <1>1
<1> HIDE DEF S
<1>3. \A s \in Seq(S) : s = [j \in 1..Len(s) |-> s[j]]
  OBVIOUS
<1> QED
  BY <1>2, <1>3

\* A change of one job leaves the others and the number of jobs as they are.
LEMMA ChangeJob ==
  ASSUME Len(jobs) \in Nat, jobs = [j \in 1..Len(jobs) |-> jobs[j]],
         NEW k \in 1..Len(jobs), NEW x
  PROVE  LET new == [jobs EXCEPT ![k] = x]
         IN  /\ Len(new) = Len(jobs) /\ new = [j \in 1..Len(new) |-> new[j]]
             /\ new[k] = x
             /\ \A j \in 1..Len(jobs) : j # k => new[j] = jobs[j]
<1> DEFINE S == {jobs[j] : j \in 1..Len(jobs)} \cup {x}
           new == [jobs EXCEPT ![k] = x]
<1>1. jobs \in Seq(S)
  OBVIOUS
<1>2. new \in Seq(S) /\ Len(new) = Len(jobs)
  BY <1>1
<1> QED
  BY <1>1, <1>2

-----------------------------------------------------------------------------
(* Loading                                                                 *)

\* A path meets itself.
LEMMA MeetsItself == ASSUME NEW p \in Seq(STRING) PROVE Meets(p, p)
<1>1. SubSeq(p, 1, Len(p)) = p
  OBVIOUS
<1> QED
  BY <1>1 DEF Meets, Under

\* Defaults are added and replace nothing.
LEMMA DefaultsAdd ==
  ASSUME NEW config, NEW defaults, DOMAIN defaults \subseteq Seq(STRING)
  PROVE  /\ \A p \in DOMAIN config : /\ p \in DOMAIN WithDefaults(config, defaults)
                                    /\ WithDefaults(config, defaults)[p] = config[p]
         /\ DOMAIN WithDefaults(config, defaults) \subseteq DOMAIN config \cup DOMAIN defaults
BY MeetsItself DEF WithDefaults

\* What expand_observability does to a configuration leaves its own values alone.
LEMMA LoadKeeps ==
  ASSUME NEW config
  PROVE  /\ \A p \in DOMAIN Resolve(config) : /\ p \in DOMAIN Load(config)
                                             /\ Load(config)[p] = Resolve(config)[p]
         /\ DOMAIN Load(config) \subseteq DOMAIN Resolve(config) \cup DOMAIN Analytics
<1> DEFINE resolved == Resolve(config)
<1>1. DOMAIN Analytics \subseteq Seq(STRING)
  BY PathsAssumption
<1>2. Load(config) = Observed(resolved)
  BY DEF Load
<1> HIDE DEF resolved
<1>3. /\ \A p \in DOMAIN resolved : /\ p \in DOMAIN Observed(resolved)
                                   /\ Observed(resolved)[p] = resolved[p]
      /\ DOMAIN Observed(resolved) \subseteq DOMAIN resolved \cup DOMAIN Analytics
  BY <1>1, DefaultsAdd DEF Observed
<1> QED
  BY <1>2, <1>3 DEF resolved

\* A variant is validated without what expand_observability adds; it stays valid with it.
LEMMA ValidLoads ==
  ASSUME NEW config, Valid(Resolve(config))
  PROVE  Valid(Load(config))
<1>1. \A p \in DOMAIN Load(config) : p[1] \in KnownKeys
  BY LoadKeeps, PathsAssumption DEF Valid
<1>2. \A p \in {NamePath} \cup Required : p \in DOMAIN Load(config) /\ Load(config)[p] # None
  BY LoadKeeps DEF Valid
<1> QED
  BY <1>1, <1>2 DEF Valid

\* What the preflight found is there when the job resolves it.
LEMMA AvailableIsFound ==
  ASSUME NEW config, Available(config), AliasesLookLocal
  PROVE  Found(Load(config))
<1> SUFFICES ASSUME NEW p \in Required PROVE Load(config)[p] \in Remote \cup Existing
  BY DEF Found
<1> DEFINE full == WithDefaults(config, ClusterDefaults)
<1>1. p \in DOMAIN config /\ (config[p] \in Remote \/ Resolve(config)[p] \in Existing)
  BY DEF Available, Given
<1>2. p \in DOMAIN full /\ full[p] = config[p]
  BY <1>1, DefaultsAdd, PathsAssumption
<1>3. Resolve(config) = [q \in DOMAIN full |-> AliasOf(q, full[q])]
  BY DEF Resolve
<1> HIDE DEF full
<1>4. p \in DOMAIN Resolve(config) /\ Resolve(config)[p] = AliasOf(p, config[p])
  BY <1>2, <1>3
<1>5. config[p] \in Remote => AliasOf(p, config[p]) = config[p]
  BY DEF AliasOf, AliasesLookLocal
<1>6. Load(config)[p] = Resolve(config)[p]
  BY <1>4, LoadKeeps
<1> QED
  BY <1>1, <1>4, <1>5, <1>6

\* A point of a sweep is no sweep.
LEMMA PointsAreNoSweeps ==
  ASSUME NEW config, NEW point \in SweepConfigs(config)
  PROVE  SweepParams(point) = {}
<1> DEFINE resolved == Resolve(config)
<1>1. PICK choice : point = SweepConfig(resolved, choice)
  BY DEF SweepConfigs
<1> HIDE DEF resolved
<1> DEFINE rest == [p \in DOMAIN resolved \ SweepParams(resolved) |-> Substitute(resolved[p], choice)]
           named == WithName(rest, NameOf(resolved) \o ParamParts(choice))
<1>2. point = WithDefaults(named, SchemaDefaults)
  BY <1>1 DEF SweepConfig
<1>3. DOMAIN named = (DOMAIN resolved \ SweepParams(resolved)) \cup {NamePath}
  BY DEF WithName
<1> HIDE DEF named
<1>4. DOMAIN point \subseteq DOMAIN named \cup DOMAIN SchemaDefaults
  BY <1>2 DEF WithDefaults
<1>5. \A p \in DOMAIN named : p[1] # "sweep"
  BY <1>3 DEF SweepParams, NamePath
<1> QED
  BY <1>4, <1>5, PathsAssumption DEF SweepParams

-----------------------------------------------------------------------------
(* Merging: what merging an already merged variant into its base again gives. *)

\* A tree that answers for every key of the base and holds no null replaces the base:
\* merging it into the base gives the tree itself.
LEMMA MergeCovered ==
  ASSUME NEW base, NEW tree,
         tree = [q \in DOMAIN tree |-> tree[q]],
         \A p \in DOMAIN base : \E q \in DOMAIN tree : Meets(p, q),
         \A q \in DOMAIN tree : tree[q] # None
  PROVE  Merge(base, tree) = tree
<1>1. Kept(base, tree) = {}
  BY DEF Kept
<1>2. SetBy(base, tree) = DOMAIN tree
  BY DEF SetBy
<1>3. Merge(base, tree) = [p \in DOMAIN tree |-> tree[p]]
  BY <1>1, <1>2 DEF Merge
<1> QED
  BY <1>3

\* A merged tree answers for every key of the base, unless the override deletes it.
LEMMA MergeCovers ==
  ASSUME NEW base, NEW over, DOMAIN base \subseteq Seq(STRING),
         \A q \in DOMAIN over : over[q] # None,
         NEW p \in DOMAIN base
  PROVE  \E q \in DOMAIN Merge(base, over) : Meets(p, q)
<1>1. SetBy(base, over) = DOMAIN over
  BY DEF SetBy
<1>2. DOMAIN Merge(base, over) = Kept(base, over) \cup DOMAIN over
  BY <1>1 DEF Merge
<1>3. CASE p \in Kept(base, over)
  BY <1>2, <1>3, MeetsItself
<1>4. CASE p \notin Kept(base, over)
  <2>1. PICK q \in DOMAIN over : Meets(p, q)
    BY <1>4 DEF Kept
  <2> QED
    BY <1>2, <2>1
<1> QED
  BY <1>3, <1>4

\* resolve_override_yaml merges a variant that generate_override_configs has already
\* merged and named into the base once more (config.py:520): for every base and every
\* override without null this changes nothing, so what is submitted is what was validated.
THEOREM RemergedVariant ==
  ASSUME NEW P \in SUBSET Seq(STRING), NEW Q \in SUBSET Seq(STRING), NEW V,
         NEW base \in [P -> V], NEW over \in [Q -> V], NEW name \in V,
         \A p \in P : base[p] # None,
         \A q \in Q : over[q] # None,
         name # None
  PROVE  LET variant == WithName(Merge(base, over), name)
         IN  Merge(base, variant) = variant
<1> DEFINE variant == WithName(Merge(base, over), name)
           K == DOMAIN variant
<1>1. SetBy(base, over) = Q /\ Kept(base, over) \subseteq P
  BY DEF SetBy, Kept
<1>2. Merge(base, over) = [p \in Kept(base, over) \cup Q |-> IF p \in Q THEN over[p] ELSE base[p]]
  BY <1>1 DEF Merge
<1>3. \A p \in DOMAIN Merge(base, over) : Merge(base, over)[p] \in V /\ Merge(base, over)[p] # None
  BY <1>1, <1>2
<1>4. K = DOMAIN Merge(base, over) \cup {NamePath}
  BY DEF WithName
<1>5. \A q \in K : variant[q] # None
  BY <1>3, <1>4 DEF WithName
<1>6. variant = [q \in K |-> variant[q]]
  BY DEF WithName
<1>7. \A p \in DOMAIN base : \E q \in K : Meets(p, q)
  BY <1>4, MergeCovers
<1> HIDE DEF variant
<1>8. Merge(base, variant) = variant
  BY <1>5, <1>6, <1>7, MergeCovered
<1> QED
  BY <1>8 DEF variant

-----------------------------------------------------------------------------
(* Steps of the command                                                    *)

\* Nothing but cmd changes, and it stays with the same recipe.
SameRecipe ==
    /\ UNCHANGED <<file, edits, jobs>>
    /\ DOMAIN cmd' = CmdFields /\ cmd' = [x \in CmdFields |-> cmd'[x]]
    /\ \A x \in {"how", "target", "stdin", "runs"} : cmd'[x] = cmd[x]

LEMMA JobsStay ==
  ASSUME JobInv, UNCHANGED jobs, edits' = 0 => edits = 0
  PROVE  JobInv'
<1> SUFFICES ASSUME NEW j \in 1..Len(jobs)
             PROVE  Records(j)' /\ Directory(j)' /\ History(j)' /\ Origin(j)'
  BY DEF JobInv
<1>1. Records(j) /\ Directory(j) /\ History(j) /\ Origin(j)
  BY DEF JobInv
<1>2. Steady(jobs[j])' => Steady(jobs[j])
  BY DEF Steady
<1>3. Records(j)'
  BY <1>1, <1>2 DEF Records, Passed, Preflighted
<1>4. Directory(j)'
  BY <1>1, <1>2 DEF Directory
<1>5. History(j)'
  BY <1>1, <1>2 DEF History
<1>6. Origin(j)'
  BY <1>1 DEF Origin
<1> QED
  BY <1>3, <1>4, <1>5, <1>6

\* The lockfile a command was given belongs to a job that is over; a recipe in it is plain.
LEMMA PlainLock ==
  ASSUME Shape, TargetInv, JobInv, cmd.target # 0, Reproducible(jobs[cmd.target])
  PROVE  /\ Read = jobs[cmd.target].lock /\ ~Read.override /\ SweepParams(Read.top) = {}
         /\ cmd.how = Plainly /\ Submits /\ ~InDirectory
<1> DEFINE job == jobs[cmd.target]
<1>1. cmd.target \in 1..Len(jobs) /\ cmd.how = Plainly
  BY DEF Shape
<1>2. job.state = "done" /\ Ran(job)
  BY DEF TargetInv, Ran
<1>3. /\ Records(cmd.target) /\ Directory(cmd.target) /\ History(cmd.target)
  BY <1>1 DEF JobInv
<1>4. job.kind \in {"single", "sweep"}
  BY DEF Reproducible
<1>5. /\ job.lock.top = job.source.top /\ job.lock.override = job.source.override
      /\ ~job.source.override /\ There(job)
  BY <1>2, <1>3, <1>4 DEF History
<1>6. SweepParams(job.lock.top) = {}
  <2>1. CASE job.kind = "single"
    BY <2>1 DEF Reproducible
  <2>2. CASE job.kind = "sweep"
    <3>1. job.dir # "empty" /\ SweepParams(job.checked) = {}
      BY <1>3, <1>5, <2>2 DEF There, Records, Passed
    <3>2. job.source.top = job.checked
      BY <1>3, <2>2, <3>1 DEF Directory
    <3> QED
      BY <1>5, <3>1, <3>2
  <2> QED
    BY <1>4, <2>1, <2>2
<1> QED
  BY <1>1, <1>5, <1>6 DEF Read, Submits, Plainly, InDirectory

\* The places at which a command applies a plain lockfile.
PlainPlaces == {"dispatch", "single", "check", "preflight", "sbatch", "copy", "write", "done", "failed"}

\* A step that ends outside of an item has only its queue to answer for.
LEMMA OutsideItem ==
  ASSUME IInv, SameRecipe, cmd'.at \notin AtItem, cmd'.item = cmd.item,
         \A i \in DOMAIN cmd'.variants : cmd'.variants[i].kind = "override",
         \A item \in cmd'.points : item.kind = "sweep" /\ SweepParams(item.text) = {},
         cmd.target # 0 /\ Reproducible(jobs[cmd.target])
           => cmd'.at \in PlainPlaces /\ cmd'.points = {} /\ cmd'.variants = <<>>
  PROVE  IInv'
<1>1. Shape'
  BY DEF IInv, Shape, SameRecipe
<1>2. ItemInv' /\ LastInv'
  BY DEF ItemInv, LastInv, AtItem
<1>3. TargetInv'
  BY DEF IInv, TargetInv, SameRecipe, PlainPlaces, AtItem, Reproducible
<1>4. JobInv'
  BY JobsStay DEF IInv, SameRecipe
<1> QED
  BY <1>1, <1>2, <1>3, <1>4 DEF IInv

\* A step from an item to the next place with it.
LEMMA WithItem ==
  ASSUME IInv, SameRecipe, cmd'.nth = cmd.nth, cmd'.at \in {"preflight", "shown", "sbatch"},
         cmd'.variants = cmd.variants,
         \A item \in cmd'.points : item \in cmd.points,
         cmd'.item.kind \in Kinds,
         Passed(cmd'.item.kind, cmd'.item.text, Fresh),
         cmd'.item.kind = "single" /\ Fresh => Read.top = cmd'.item.text /\ ~Read.override,
         cmd'.at = "sbatch" => Preflighted(cmd'.item.kind, cmd'.item.text, cmd.how, Fresh),
         cmd.target # 0 /\ Reproducible(jobs[cmd.target])
           => cmd'.at # "shown" /\ cmd'.item.kind = "single"
  PROVE  IInv'
<1>1. Shape'
  BY DEF IInv, Shape, SameRecipe
<1>2. Fresh' = Fresh /\ Read' = Read /\ cmd'.how = cmd.how
  BY DEF SameRecipe, Fresh, Read
<1>3. ItemInv'
  BY <1>2 DEF ItemInv, AtItem
<1>4. LastInv'
  BY DEF LastInv
<1>5. TargetInv'
  BY DEF IInv, TargetInv, SameRecipe, Reproducible
<1>6. JobInv'
  BY JobsStay DEF IInv, SameRecipe
<1> QED
  BY <1>1, <1>3, <1>4, <1>5, <1>6 DEF IInv

PlainTarget == cmd.target # 0 /\ Reproducible(jobs[cmd.target])

LEMMA EndedIs ==
  ASSUME Shape, NEW result
  PROVE  /\ DOMAIN Ended(result) = CmdFields /\ Ended(result) = [x \in CmdFields |-> Ended(result)[x]]
         /\ \A x \in {"how", "target", "stdin", "runs", "item", "nth"} : Ended(result)[x] = cmd[x]
         /\ Ended(result).at \in {"next", "done", "failed"}
         /\ cmd.target # 0 => Ended(result).at \in {"done", "failed"}
         /\ Ended(result).points = {} /\ Ended(result).variants = <<>>
<1> DEFINE place == IF InDirectory THEN "next" ELSE IF result = "ok" THEN "done" ELSE "failed"
           new == [cmd EXCEPT !.at = place, !.variants = <<>>, !.due = 1, !.points = {},
                              !.comments = None, !.results = Append(@, result)]
<1>1. Ended(result) = new
  BY DEF Ended
<1>2. place \in {"next", "done", "failed"} /\ (cmd.target # 0 => place \in {"done", "failed"})
  BY DEF InDirectory
<1> HIDE DEF place
<1>3. DOMAIN cmd = CmdFields
  BY DEF Shape
<1>4. DOMAIN new = CmdFields /\ new = [x \in CmdFields |-> new[x]]
  BY <1>3
<1>5. /\ \A x \in {"how", "target", "stdin", "runs", "item", "nth"} : new[x] = cmd[x]
      /\ new.at = place /\ new.points = {} /\ new.variants = <<>>
  BY <1>3 DEF CmdFields
<1> QED
  BY <1>1, <1>2, <1>4, <1>5

\* The end of a recipe, whatever its result is and whatever was written.
LEMMA EndKeeps ==
  ASSUME IInv, UNCHANGED <<file, edits, jobs>>, NEW result,
         \/ cmd' = Ended(result)
         \/ \E out : cmd' = [Ended(result) EXCEPT !.out = out]
  PROVE  IInv'
<1>1. /\ DOMAIN cmd' = CmdFields /\ cmd' = [x \in CmdFields |-> cmd'[x]]
      /\ \A x \in {"how", "target", "stdin", "runs", "item", "nth"} : cmd'[x] = cmd[x]
      /\ cmd'.at \in {"next", "done", "failed"}
      /\ cmd.target # 0 => cmd'.at \in {"done", "failed"}
      /\ cmd'.points = {} /\ cmd'.variants = <<>>
  BY EndedIs DEF IInv, CmdFields
<1>2. SameRecipe
  BY <1>1 DEF SameRecipe
<1> QED
  BY <1>1, <1>2, OutsideItem DEF AtItem, PlainPlaces

LEMMA GoesKeeps ==
  ASSUME IInv, NEW at, Goes(at), at \notin AtItem, PlainTarget => at \in PlainPlaces
  PROVE  IInv'
<1>1. /\ SameRecipe /\ cmd'.at = at
      /\ cmd'.variants = cmd.variants /\ cmd'.points = cmd.points /\ cmd'.item = cmd.item
  BY DEF IInv, Shape, Goes, SameRecipe, CmdFields
<1> QED
  <2>1. /\ \A i \in DOMAIN cmd.variants : cmd.variants[i].kind = "override"
        /\ \A item \in cmd.points : item.kind = "sweep" /\ SweepParams(item.text) = {}
    BY DEF IInv, Shape
  <2>2. PlainTarget => cmd.points = {} /\ cmd.variants = <<>>
    BY DEF IInv, TargetInv, PlainTarget
  <2> QED
    BY <1>1, <2>1, <2>2, OutsideItem DEF PlainTarget

LEMMA GoesOrKeeps ==
  ASSUME IInv, NEW possible \in BOOLEAN, NEW at, GoesOr(possible, at), at \notin AtItem,
         possible /\ PlainTarget => at \in PlainPlaces
  PROVE  IInv'
<1>1. CASE possible
  BY <1>1, GoesKeeps DEF GoesOr, Goes
<1>2. CASE ~possible
  BY <1>2, EndKeeps DEF GoesOr, Rejected
<1> QED
  BY <1>1, <1>2

\* Only these places are left to a command that applies a plain lockfile.
LEMMA PlainAt ==
  ASSUME IInv, PlainTarget
  PROVE  /\ cmd.at \in PlainPlaces /\ cmd.points = {} /\ cmd.variants = <<>>
         /\ cmd.at \in AtItem => cmd.item.kind = "single"
         /\ ~Read.override /\ SweepParams(Read.top) = {}
         /\ cmd.how = Plainly /\ Submits /\ ~InDirectory
BY PlainLock DEF IInv, TargetInv, PlainTarget, PlainPlaces

LEMMA DispatchKeeps ==
  ASSUME IInv, RefuseDirectory \/ Dispatch \/ DispatchResolve \/ DispatchPreflight \/ Generate
  PROVE  IInv'
<1>1. CASE RefuseDirectory
  BY <1>1, GoesKeeps, PlainAt DEF RefuseDirectory, AtItem
<1>2. CASE Dispatch
  <2>1. CASE Read.override
    BY <1>2, <2>1, GoesKeeps, PlainAt DEF Dispatch, AtItem
  <2>2. CASE ~Read.override /\ (cmd.how.sweep \/ SweepParams(Read.top) # {})
    <3>1. GoesOr(~cmd.how.serve, "sweep") /\ ~PlainTarget
      BY <1>2, <2>2, PlainAt DEF Dispatch, Plainly
    <3> QED
      BY <3>1, GoesOrKeeps DEF AtItem
  <2>3. CASE ~Read.override /\ ~(cmd.how.sweep \/ SweepParams(Read.top) # {})
    BY <1>2, <2>3, GoesKeeps DEF Dispatch, AtItem, PlainPlaces
  <2> QED
    BY <2>1, <2>2, <2>3
<1>3. CASE DispatchResolve
  <2>1. ~PlainTarget
    BY <1>3, PlainAt DEF DispatchResolve, Plainly
  <2> QED
    BY <1>3, <2>1, GoesKeeps, GoesOrKeeps DEF DispatchResolve, AtItem
<1>4. CASE DispatchPreflight
  <2>1. ~PlainTarget
    BY <1>4, PlainAt DEF DispatchPreflight, Plainly
  <2>2. PICK possible \in BOOLEAN : GoesOr(possible, "finish")
    BY <1>4 DEF DispatchPreflight, GoesOr
  <2> QED
    BY <2>1, <2>2, GoesOrKeeps DEF AtItem
<1>5. CASE Generate
  <2>1. ~PlainTarget
    BY <1>5, PlainAt DEF Generate, PlainPlaces
  <2>2. PICK possible \in BOOLEAN : GoesOr(possible, "comments")
    BY <1>5 DEF Generate, GoesOr
  <2> QED
    BY <2>1, <2>2, GoesOrKeeps DEF AtItem
<1> QED
  BY <1>1, <1>2, <1>3, <1>4, <1>5

\* The rest of a sweep are points, none of them a sweep itself.
LEMMA QueueOfPoints ==
  ASSUME NEW config, NEW item \in SweepQueue(config)
  PROVE  item.kind = "sweep" /\ SweepParams(item.text) = {}
BY PointsAreNoSweeps DEF SweepQueue, SweepItems, Item

LEMMA ReadKeeps ==
  ASSUME IInv, NextFile \/ ReadComments \/ ReadPlain \/ WriteOut \/ RenderBash \/ ReadSweep
  PROVE  IInv'
<1>0. DOMAIN cmd = CmdFields /\ cmd = [x \in CmdFields |-> cmd[x]]
  BY DEF IInv, Shape
<1>n. cmd.at \in {"next", "comments", "plain", "write out", "render", "sweep"} => ~PlainTarget
  BY PlainAt DEF PlainPlaces
<1>1. CASE NextFile
  <2>1. /\ SameRecipe /\ cmd'.at \in {"dispatch", "done"} /\ cmd'.item = cmd.item
        /\ cmd'.variants = cmd.variants /\ cmd'.points = cmd.points /\ ~PlainTarget
    BY <1>0, <1>1, <1>n DEF NextFile, SameRecipe, CmdFields
  <2> QED
    BY <2>1, OutsideItem DEF IInv, Shape, AtItem, PlainTarget
<1>2. CASE ReadComments
  <2>1. ~PlainTarget
    BY <1>2, <1>n DEF ReadComments
  <2>2. CASE Read.override
    <3>1. /\ SameRecipe /\ cmd'.at = "plain" /\ cmd'.item = cmd.item
          /\ cmd'.variants = cmd.variants /\ cmd'.points = cmd.points
      BY <1>0, <1>2, <2>2 DEF ReadComments, SameRecipe, CmdFields
    <3> QED
      BY <2>1, <3>1, OutsideItem DEF IInv, Shape, AtItem, PlainTarget
  <2>3. CASE ~Read.override
    BY <1>2, <2>3, EndKeeps DEF ReadComments, Rejected
  <2> QED
    BY <2>2, <2>3
<1>3. CASE ReadPlain
  <2>1. ~PlainTarget
    BY <1>3, <1>n DEF ReadPlain
  <2>2. CASE cmd' = Rejected
    BY <1>3, <2>2, EndKeeps DEF ReadPlain, Rejected
  <2>3. CASE cmd' # Rejected
    <3> DEFINE plain == generate_override_configs(Read, cmd.sel)
               variants == [i \in DOMAIN plain |->
                              Item("override", Commented(cmd.comments, plain[i]), plain[i].suffix)]
    <3>1. PICK at : /\ cmd' = [cmd EXCEPT !.at = at, !.variants = variants]
                    /\ at = CASE Submits -> "check"
                              [] cmd.how.verb = "resolve-override" -> "write out"
                              [] OTHER -> "render"
      BY <1>3, <2>3 DEF ReadPlain
    <3>2. at \in {"check", "write out", "render"}
      BY <1>3, <3>1 DEF ReadPlain
    <3>3. \A i \in DOMAIN variants : variants[i].kind = "override"
      BY DEF Item
    <3> HIDE DEF variants
    <3>4. /\ SameRecipe /\ cmd'.at = at /\ cmd'.item = cmd.item
          /\ cmd'.variants = variants /\ cmd'.points = cmd.points
      BY <1>0, <1>3, <3>1 DEF ReadPlain, SameRecipe, CmdFields
    <3> QED
      BY <2>1, <3>2, <3>3, <3>4, OutsideItem DEF IInv, Shape, AtItem, PlainTarget
  <2> QED
    BY <2>2, <2>3
<1>4. CASE WriteOut
  BY <1>4, EndKeeps DEF WriteOut
<1>5. CASE RenderBash
  BY <1>5, EndKeeps DEF RenderBash, Rejected
<1>6. CASE ReadSweep
  <2>1. ~PlainTarget
    BY <1>6, <1>n DEF ReadSweep
  <2>2. CASE cmd' = Rejected
    BY <1>6, <2>2, EndKeeps DEF ReadSweep, Rejected
  <2>3. CASE cmd' = [cmd EXCEPT !.at = "check", !.points = SweepQueue(Read.top)]
    <3>1. /\ SameRecipe /\ cmd'.at = "check" /\ cmd'.item = cmd.item
          /\ cmd'.variants = cmd.variants /\ cmd'.points = SweepQueue(Read.top)
      BY <1>0, <1>6, <2>3 DEF ReadSweep, SameRecipe, CmdFields
    <3>2. \A item \in cmd'.points : item.kind = "sweep" /\ SweepParams(item.text) = {}
      BY <3>1, QueueOfPoints
    <3> QED
      BY <2>1, <3>1, <3>2, OutsideItem DEF IInv, Shape, AtItem, PlainTarget
  <2> QED
    BY <1>6, <2>2, <2>3 DEF ReadSweep
<1> QED
  BY <1>1, <1>2, <1>3, <1>4, <1>5, <1>6

\* A plain recipe is loaded and is the item; it is a plain lockfile's if it is one's.
LEMMA ReadSingleKeeps ==
  ASSUME IInv, ReadSingle
  PROVE  IInv'
<1>0. DOMAIN cmd = CmdFields /\ cmd = [x \in CmdFields |-> cmd[x]] /\ cmd.how \in Command
  BY DEF IInv, Shape
<1>1. CASE Loads(Read)
  <2>1. /\ SameRecipe /\ cmd'.nth = cmd.nth /\ cmd'.at = AfterCheck
        /\ cmd'.variants = cmd.variants /\ cmd'.points = cmd.points
        /\ cmd'.item.kind = "single" /\ cmd'.item.text = Read.top
    BY <1>0, <1>1 DEF ReadSingle, SameRecipe, CmdFields, Item
  <2>2. /\ AfterCheck \in {"shown", "preflight", "sbatch"}
        /\ AfterCheck = "sbatch" => ~cmd.how.enforce
        /\ cmd.how = Plainly => AfterCheck = "preflight"
    BY DEF AfterCheck, Plainly
  <2>3. Valid(Load(Read.top)) /\ ~Read.override
    BY <1>1 DEF Loads
  <2>4. PlainTarget => cmd.how = Plainly
    BY PlainAt
  <2>5. /\ Passed(cmd'.item.kind, cmd'.item.text, Fresh)
        /\ cmd'.at = "sbatch" => Preflighted(cmd'.item.kind, cmd'.item.text, cmd.how, Fresh)
    BY <2>1, <2>2, <2>3 DEF Passed, Preflighted
  <2>6. PlainTarget => cmd'.at # "shown" /\ cmd'.item.kind = "single"
    BY <2>1, <2>2, <2>4
  <2>7. cmd'.item.kind \in Kinds
    BY <2>1 DEF Kinds
  <2> QED
    BY <2>1, <2>2, <2>3, <2>5, <2>6, <2>7, WithItem DEF PlainTarget
<1>2. CASE ~Loads(Read)
  BY <1>2, EndKeeps DEF ReadSingle, Rejected
<1> QED
  BY <1>1, <1>2

\* A variant or a point of a sweep is validated; a variant may be a sweep itself.
LEMMA CheckItemKeeps ==
  ASSUME IInv, CheckItem
  PROVE  IInv'
<1>0. /\ DOMAIN cmd = CmdFields /\ cmd = [x \in CmdFields |-> cmd[x]]
      /\ \A i \in DOMAIN cmd.variants : cmd.variants[i].kind = "override"
      /\ \A item \in cmd.points : item.kind = "sweep" /\ SweepParams(item.text) = {}
      /\ cmd.at = "check" /\ UNCHANGED <<file, edits, jobs>>
  BY DEF IInv, Shape, CheckItem
<1>1. PICK item \in Upcoming :
         LET nested == item.kind = "override" /\ SweepParams(item.text) # {}
             valid == Valid(IF item.kind = "override" THEN Resolve(item.text) ELSE Load(item.text))
             taken == [cmd EXCEPT !.points = @ \ {item},
                                  !.due = IF item.kind = "override" THEN @ + 1 ELSE @]
         IN  cmd' = IF ~valid \/ (nested /\ (cmd.how.serve \/ ~SweepValid(item.text)))
                      THEN Rejected
                    ELSE IF nested
                      THEN [taken EXCEPT !.points = SweepQueue(item.text)]
                    ELSE [taken EXCEPT !.at = AfterCheck, !.item = item]
  BY DEF CheckItem
<1> DEFINE due == IF item.kind = "override" THEN cmd.due + 1 ELSE cmd.due
           taken == [cmd EXCEPT !.points = @ \ {item}, !.due = due]
           nested == item.kind = "override" /\ SweepParams(item.text) # {}
           valid == Valid(IF item.kind = "override" THEN Resolve(item.text) ELSE Load(item.text))
<1>2. \/ cmd' = Rejected
      \/ nested /\ cmd' = [taken EXCEPT !.points = SweepQueue(item.text)]
      \/ valid /\ ~nested /\ cmd' = [taken EXCEPT !.at = AfterCheck, !.item = item]
  BY <1>0, <1>1
<1>3. item.kind = "override" \/ (item.kind = "sweep" /\ SweepParams(item.text) = {})
  BY <1>0 DEF Upcoming
<1>4. ~PlainTarget
  BY PlainAt DEF Upcoming
<1>5. CASE cmd' = Rejected
  BY <1>0, <1>5, EndKeeps DEF Rejected
<1>6. CASE nested /\ cmd' = [taken EXCEPT !.points = SweepQueue(item.text)]
  <2>1. /\ SameRecipe /\ cmd'.at = "check" /\ cmd'.item = cmd.item
        /\ cmd'.variants = cmd.variants /\ cmd'.points = SweepQueue(item.text)
    BY <1>0, <1>6 DEF SameRecipe, CmdFields
  <2>2. \A i \in cmd'.points : i.kind = "sweep" /\ SweepParams(i.text) = {}
    BY <2>1, QueueOfPoints
  <2> QED
    BY <1>0, <1>4, <2>1, <2>2, OutsideItem DEF AtItem, PlainTarget
<1>7. CASE valid /\ ~nested /\ cmd' = [taken EXCEPT !.at = AfterCheck, !.item = item]
  <2>1. /\ SameRecipe /\ cmd'.nth = cmd.nth /\ cmd'.at = AfterCheck /\ cmd'.item = item
        /\ cmd'.variants = cmd.variants /\ cmd'.points = cmd.points \ {item}
    BY <1>0, <1>7 DEF SameRecipe, CmdFields
  <2>2. /\ AfterCheck \in {"shown", "preflight", "sbatch"}
        /\ AfterCheck = "sbatch" => ~cmd.how.enforce
    BY DEF AfterCheck
  <2>3. /\ cmd'.item.kind \in Kinds /\ cmd'.item.kind # "single"
        /\ Passed(cmd'.item.kind, cmd'.item.text, Fresh)
    BY <1>3, <1>7, <2>1 DEF Kinds, Passed
  <2>4. cmd'.at = "sbatch" => Preflighted(cmd'.item.kind, cmd'.item.text, cmd.how, Fresh)
    BY <2>1, <2>2 DEF Preflighted
  <2> QED
    BY <1>4, <2>1, <2>2, <2>3, <2>4, WithItem DEF PlainTarget
<1> QED
  BY <1>2, <1>5, <1>6, <1>7

\* The preflight looks at what will be submitted: the item, or the file as it is by now.
LEMMA PreflightKeeps ==
  ASSUME IInv, Preflight
  PROVE  IInv'
<1>0. /\ DOMAIN cmd = CmdFields /\ cmd = [x \in CmdFields |-> cmd[x]]
      /\ cmd.at = "preflight" /\ UNCHANGED <<file, edits, jobs>>
  BY DEF IInv, Shape, Preflight, GoesOr
<1>1. CASE PreflightOk
  <2>1. /\ SameRecipe /\ cmd'.nth = cmd.nth /\ cmd'.at = "sbatch" /\ cmd'.item = cmd.item
        /\ cmd'.variants = cmd.variants /\ cmd'.points = cmd.points
    BY <1>0, <1>1 DEF Preflight, GoesOr, SameRecipe, CmdFields
  <2>2. /\ Passed(cmd.item.kind, cmd.item.text, Fresh) /\ cmd.item.kind \in Kinds
        /\ cmd.item.kind = "single" /\ Fresh => Read.top = cmd.item.text /\ ~Read.override
    BY <1>0 DEF IInv, ItemInv, AtItem, Shape
  <2>3. Preflighted(cmd.item.kind, cmd.item.text, cmd.how, Fresh)
    BY <1>1, <2>2 DEF PreflightOk, Preflighted
  <2>4. PlainTarget => cmd.item.kind = "single"
    BY <1>0, PlainAt DEF AtItem
  <2> QED
    BY <2>1, <2>2, <2>3, <2>4, WithItem DEF PlainTarget
<1>2. CASE ~PreflightOk
  BY <1>0, <1>2, EndKeeps DEF Preflight, GoesOr, Rejected
<1> QED
  BY <1>1, <1>2

LEMMA PassKeeps ==
  ASSUME IInv, NothingLeft \/ Show \/ SbatchFails \/ SetupMissing \/ WriteFails
  PROVE  IInv'
<1>1. CASE NothingLeft
  BY <1>1, EndKeeps DEF NothingLeft
<1>2. CASE Show
  <2>1. /\ SameRecipe /\ cmd'.at = "check" /\ cmd'.item = cmd.item
        /\ cmd'.variants = cmd.variants /\ cmd'.points = cmd.points
    BY <1>2 DEF IInv, Shape, Show, SameRecipe, CmdFields
  <2> QED
    <3>1. /\ \A i \in DOMAIN cmd.variants : cmd.variants[i].kind = "override"
          /\ \A item \in cmd.points : item.kind = "sweep" /\ SweepParams(item.text) = {}
      BY DEF IInv, Shape
    <3>2. PlainTarget => cmd.points = {} /\ cmd.variants = <<>>
      BY PlainAt
    <3>3. "check" \notin AtItem /\ "check" \in PlainPlaces
      BY DEF AtItem, PlainPlaces
    <3> QED
      BY <2>1, <3>1, <3>2, <3>3, OutsideItem DEF PlainTarget
<1>3. CASE SbatchFails
  BY <1>3, EndKeeps DEF SbatchFails
<1>4. CASE SetupMissing
  BY <1>4, GoesKeeps DEF SetupMissing, AtItem, PlainPlaces
<1>5. CASE WriteFails
  BY <1>5, EndKeeps DEF WriteFails
<1> QED
  BY <1>1, <1>2, <1>3, <1>4, <1>5

-----------------------------------------------------------------------------
(* A new command, a new file                                               *)

LEMMA ApplyKeeps ==
  ASSUME IInv, Apply
  PROVE  IInv'
<1>1. PICK target \in 0..Len(jobs), sel \in Selectors, how \in Commands \cup {Plainly} :
        /\ \/ cmd.runs = 0 /\ target = 0 /\ how \in Commands /\ ~(how.stdin /\ file.dir)
           \/ /\ cmd.runs = 1 /\ cmd.how = Plainly /\ ~file.dir
              /\ cmd.at \in {"done", "failed"}
              /\ \A j \in DOMAIN jobs : jobs[j].state \in {"done", "failed"}
              /\ target > 0 /\ jobs[target].state = "done" /\ sel = All /\ how = Plainly
        /\ cmd' = [Idle EXCEPT !.at = "dispatch", !.target = target, !.how = how,
                               !.sel = IF target = 0 /\ file.dir THEN All ELSE sel,
                               !.stdin = IF how.stdin THEN file.of[1] ELSE None,
                               !.runs = cmd.runs + 1]
        /\ UNCHANGED <<file, edits, jobs>>
  BY DEF Apply
<1> DEFINE chosen == IF target = 0 /\ file.dir THEN All ELSE sel
           text == IF how.stdin THEN file.of[1] ELSE None
<1>2. /\ DOMAIN cmd' = CmdFields /\ cmd' = [x \in CmdFields |-> cmd'[x]]
      /\ cmd'.at = "dispatch" /\ cmd'.target = target /\ cmd'.how = how /\ cmd'.runs = cmd.runs + 1
      /\ cmd'.variants = <<>> /\ cmd'.points = {} /\ cmd'.item.kind = "single"
  <2>1. cmd' = [Idle EXCEPT !.at = "dispatch", !.target = target, !.how = how,
                            !.sel = chosen, !.stdin = text, !.runs = cmd.runs + 1]
    BY <1>1
  <2> HIDE DEF chosen, text
  <2> QED
    BY <2>1 DEF Idle, Item, CmdFields
<1>3. how \in Command /\ (target # 0 => how = Plainly /\ jobs[target].state = "done")
  <2>1. Plainly \in Command /\ Commands \subseteq Command
    BY CommandsAssumption DEF Plainly, Command
  <2> QED
    BY <1>1, <2>1
<1>4. Shape'
  <2>1. cmd.runs + 1 \in 0..2 /\ UNCHANGED <<edits, jobs>>
    BY <1>1
  <2> QED
    BY <1>2, <1>3, <2>1 DEF IInv, Shape, Kinds
<1>5. ItemInv' /\ LastInv'
  BY <1>2 DEF ItemInv, LastInv, AtItem
<1>6. TargetInv'
  BY <1>1, <1>2, <1>3 DEF TargetInv, AtItem, Reproducible
<1>7. JobInv'
  BY <1>1, JobsStay DEF IInv
<1> QED
  BY <1>4, <1>5, <1>6, <1>7 DEF IInv

\* An edit leaves nothing to be said of a plain recipe.
LEMMA EditKeeps ==
  ASSUME IInv, Edit
  PROVE  IInv'
<1>1. /\ edits' = edits + 1 /\ edits < MaxEdits /\ cmd.target = 0 /\ ~cmd.how.stdin
      /\ UNCHANGED <<cmd, jobs>> /\ edits \in 0..MaxEdits
  BY DEF Edit, IInv, Shape
<1>2. ~Fresh' /\ edits' # 0
  BY <1>1 DEF Fresh
<1>3. Shape'
  <2>1. edits' \in 0..MaxEdits
    BY <1>1, MaxEditsAssumption
  <2> QED
    BY <1>1, <2>1 DEF IInv, Shape
<1>4. ItemInv'
  BY <1>1, <1>2 DEF IInv, ItemInv, Passed, Preflighted
<1>5. LastInv' /\ TargetInv'
  BY <1>1 DEF IInv, LastInv, TargetInv, Job
<1>6. JobInv'
  BY <1>1, <1>2, JobsStay DEF IInv
<1> QED
  BY <1>3, <1>4, <1>5, <1>6 DEF IInv

-----------------------------------------------------------------------------
(* Steps of a job and of its directory                                     *)

\* One job changes that no other was started from.
LEMMA JobChanges ==
  ASSUME IInv, edits' = edits, NEW k \in 1..Len(jobs), NEW job,
         jobs' = [jobs EXCEPT ![k] = job],
         DOMAIN job = JobFields, job = [x \in JobFields |-> job[x]],
         \A j \in 1..Len(jobs) : jobs[j].of # k,
         job.of = jobs[k].of, job.kind = jobs[k].kind, job.how = jobs[k].how,
         job.checked = jobs[k].checked,
         job.state \in {"queued", "running", "done", "failed"},
         job.dir \in {"empty", "copied", "whole"},
         Directory(k)', History(k)',
         job.of # 0 /\ Reproducible(jobs[job.of]) /\ job.dir # "empty"
           => job.source = jobs[job.of].lock
  PROVE  /\ JobInv' /\ Len(jobs') = Len(jobs) /\ jobs' = [j \in 1..Len(jobs') |-> jobs'[j]]
         /\ jobs'[k] = job /\ \A j \in 1..Len(jobs) : j # k => jobs'[j] = jobs[j]
<1>1. Len(jobs) \in Nat /\ jobs = [j \in 1..Len(jobs) |-> jobs[j]]
  BY DEF IInv, Shape
<1>2. /\ Len(jobs') = Len(jobs) /\ jobs' = [j \in 1..Len(jobs') |-> jobs'[j]]
      /\ jobs'[k] = job /\ \A j \in 1..Len(jobs) : j # k => jobs'[j] = jobs[j]
  <2> DEFINE new == [jobs EXCEPT ![k] = job]
  <2>1. /\ Len(new) = Len(jobs) /\ new = [j \in 1..Len(new) |-> new[j]]
        /\ new[k] = job /\ \A j \in 1..Len(jobs) : j # k => new[j] = jobs[j]
    BY <1>1, ChangeJob
  <2>2. jobs' = new
    OBVIOUS
  <2> QED
    BY <2>1, <2>2
<1>3. ASSUME NEW j \in 1..Len(jobs)
      PROVE  Records(j)' /\ Directory(j)' /\ History(j)' /\ Origin(j)'
  <2>1. Records(j) /\ Directory(j) /\ History(j) /\ Origin(j)
    BY DEF IInv, JobInv
  <2>2. jobs[j].of \in 0..(j - 1) /\ jobs[j].of # k
    BY <2>1 DEF Origin
  <2>3. jobs[j].of # 0 => jobs[j].of \in 1..Len(jobs) /\ jobs'[jobs[j].of] = jobs[jobs[j].of]
    BY <1>1, <1>2, <2>2
  <2>4. CASE j = k
    <3>1. Records(k)'
      BY <1>2, <2>1, <2>4 DEF Records, Passed, Preflighted, Steady
    <3>2. Origin(k)'
      <4>1. jobs'[k] = job /\ job.of \in 0..(k - 1) /\ job.of = jobs[k].of /\ Origin(k)
        BY <1>2, <2>1, <2>2, <2>4
      <4>2. job.of # 0 => jobs'[job.of] = jobs[job.of]
        BY <2>3, <2>4
      <4>3. job.of # 0 /\ Reproducible(jobs[job.of]) => jobs[k].kind = "single"
        BY <4>1 DEF Origin
      <4> QED
        BY <4>1, <4>2, <4>3 DEF Origin, Reproducible
    <3> QED
      BY <2>4, <3>1, <3>2
  <2>5. CASE j # k
    <3>1. jobs'[j] = jobs[j] /\ (Steady(jobs[j])' <=> Steady(jobs[j]))
      BY <1>2, <2>5 DEF Steady
    <3>2. Records(j)'
      BY <2>1, <3>1 DEF Records, Passed, Preflighted
    <3>3. Directory(j)'
      BY <2>1, <3>1 DEF Directory
    <3>4. History(j)'
      BY <2>1, <3>1 DEF History
    <3>5. Origin(j)'
      BY <2>1, <2>3, <3>1 DEF Origin
    <3> QED
      BY <3>2, <3>3, <3>4, <3>5
  <2> QED
    BY <2>4, <2>5
<1> QED
  BY <1>2, <1>3 DEF JobInv

\* A step of the command with the same recipe, or of a job, leaves their shape.
LEMMA ShapeStays ==
  ASSUME Shape, edits' = edits,
         DOMAIN cmd' = CmdFields, cmd' = [x \in CmdFields |-> cmd'[x]],
         cmd'.runs = cmd.runs, cmd'.how = cmd.how, cmd'.target = cmd.target,
         cmd'.item = cmd.item, cmd'.variants = cmd.variants, cmd'.points = cmd.points,
         Len(jobs') \in Nat, jobs' = [j \in 1..Len(jobs') |-> jobs'[j]],
         \A j \in 1..Len(jobs') : IsJob(jobs'[j]), cmd.target \in 0..Len(jobs')
  PROVE  Shape'
BY DEF Shape

\* A job that is not over goes on; only what it has left behind changes.
LEMMA JobGoesOn ==
  ASSUME IInv, UNCHANGED <<file, edits, cmd>>, NEW k \in 1..Len(jobs), NEW job,
         jobs' = [jobs EXCEPT ![k] = job],
         DOMAIN job = JobFields, job = [x \in JobFields |-> job[x]],
         jobs[k].state # "done", job.state \in {"running", "done", "failed"},
         \A x \in {"kind", "of", "how", "checked", "dir", "source"} : job[x] = jobs[k][x],
         Directory(k)', History(k)'
  PROVE  IInv'
<1>1. \A j \in 1..Len(jobs) : /\ jobs[j].of # k
                               /\ Records(j) /\ Origin(j)
  BY DEF IInv, JobInv, Origin
<1>2. job.dir \in {"empty", "copied", "whole"}
      /\ (job.of # 0 /\ Reproducible(jobs[job.of]) /\ job.dir # "empty"
            => job.source = jobs[job.of].lock)
  BY <1>1 DEF Records, Origin
<1>3. /\ JobInv' /\ Len(jobs') = Len(jobs) /\ jobs' = [j \in 1..Len(jobs') |-> jobs'[j]]
      /\ jobs'[k] = job /\ \A j \in 1..Len(jobs) : j # k => jobs'[j] = jobs[j]
  BY <1>1, <1>2, JobChanges
<1>4. Len(jobs) \in Nat /\ cmd.target \in 0..Len(jobs)
  BY DEF IInv, Shape
<1>5. cmd.target # 0 => cmd.target \in 1..Len(jobs) /\ jobs'[cmd.target] = jobs[cmd.target]
  BY <1>3, <1>4 DEF IInv, TargetInv
<1>6. Shape'
  <2>1. \A j \in 1..Len(jobs') : IsJob(jobs'[j])
    BY <1>3 DEF IInv, Shape, IsJob
  <2>2. Shape /\ cmd' = cmd /\ edits' = edits
    BY DEF IInv
  <2>3. Len(jobs') \in Nat /\ cmd.target \in 0..Len(jobs')
    BY <1>3, <1>4
  <2>4. jobs' = [j \in 1..Len(jobs') |-> jobs'[j]]
    BY <1>3
  <2>5. DOMAIN cmd' = CmdFields /\ cmd' = [x \in CmdFields |-> cmd'[x]]
    BY <2>2 DEF Shape
  <2> QED
    BY <2>1, <2>2, <2>3, <2>4, <2>5, ShapeStays
<1>7. Read' = Read /\ (Fresh' <=> Fresh)
  BY <1>5 DEF Read, Fresh
<1>8. ItemInv'
  BY <1>7 DEF IInv, ItemInv, Passed, Preflighted
<1>9. LastInv'
  BY <1>3, <1>4 DEF IInv, LastInv, Job
<1>10. TargetInv'
  BY <1>5 DEF IInv, TargetInv
<1> QED
  BY <1>3, <1>6, <1>8, <1>9, <1>10 DEF IInv

LEMMA StartKeeps ==
  ASSUME IInv, NEW k \in DOMAIN jobs, Start(k)
  PROVE  IInv'
<1>1. /\ k \in 1..Len(jobs) /\ Len(jobs) \in Nat /\ jobs[k].state = "queued"
      /\ DOMAIN jobs[k] = JobFields /\ jobs[k] = [x \in JobFields |-> jobs[k][x]]
      /\ UNCHANGED <<file, edits, cmd>>
      /\ Records(k) /\ Directory(k) /\ History(k) /\ Origin(k)
  BY DEF IInv, Shape, JobInv, Start, IsJob
<1> DEFINE old == jobs[k]
           prev == IF old.kind = "override" THEN None ELSE old.source.lock
           lock == Locked(old.source, k, NoPrints)
           up == [old EXCEPT !.state = "running", !.ran = Load(Named(old)),
                             !.prev = prev, !.lock = lock]
           down == [old EXCEPT !.state = "failed", !.early = old.dir # "whole"]
<1>3. CASE Starts(old)
  <2>1. jobs' = [jobs EXCEPT ![k] = up]
    BY <1>3 DEF Start
  <2>2. /\ DOMAIN up = JobFields /\ up = [x \in JobFields |-> up[x]]
        /\ up.state = "running" /\ up.ran = Load(Named(old)) /\ up.prev = prev /\ up.lock = lock
        /\ \A x \in {"kind", "of", "nth", "how", "checked", "dir", "source", "variant", "report"} :
              up[x] = old[x]
    BY <1>1 DEF JobFields
  <2>3. /\ lock.top = old.source.top /\ lock.override = old.source.override
        /\ lock.lock.job = k
    BY DEF Locked, Stripped
  <2>4. There(old) /\ (old.kind # "override" => ~old.source.override)
    BY <1>3 DEF Starts, Loads
  <2> HIDE DEF up, lock
  <2>5. jobs'[k] = up
    BY <1>1, <2>1 DEF IInv, Shape
  <2>6. Directory(k)'
    BY <1>1, <2>2, <2>5 DEF Directory, Steady
  <2>7. History(k)'
    BY <1>1, <2>2, <2>3, <2>4, <2>5 DEF History, Ran, There, Named
  <2> QED
    BY <1>1, <2>1, <2>2, <2>6, <2>7, JobGoesOn
<1>4. CASE ~Starts(old)
  <2>1. jobs' = [jobs EXCEPT ![k] = down]
    BY <1>4 DEF Start
  <2>2. /\ DOMAIN down = JobFields /\ down = [x \in JobFields |-> down[x]]
        /\ down.state = "failed" /\ down.early = (old.dir # "whole")
        /\ \A x \in {"kind", "of", "nth", "how", "checked", "dir", "source", "variant"} :
              down[x] = old[x]
    BY <1>1 DEF JobFields
  <2> HIDE DEF down
  <2>3. jobs'[k] = down
    BY <1>1, <2>1 DEF IInv, Shape
  <2>4. Directory(k)'
    BY <1>1, <2>2, <2>3 DEF Directory, Steady
  \* With its directory whole, what was checked starts.
  <2>5. ASSUME AliasesLookLocal, old.how.enforce, old.kind # "single" \/ Steady(old),
               old.dir = "whole"
        PROVE  FALSE
    <3>1. Available(old.checked)
      BY <1>1, <2>5 DEF Records, Preflighted
    <3>2. Found(Load(old.checked))
      BY <2>5, <3>1, AvailableIsFound
    <3>3. Valid(Load(old.checked))
      BY <1>1, <2>5, ValidLoads DEF Records, Passed, Kinds
    <3>4. Named(old) = old.checked /\ (old.kind # "override" => ~old.source.override)
      BY <1>1, <2>5 DEF Directory, Named, Records, Kinds
    <3>5. There(old)
      BY <2>5 DEF There
    <3>6. Starts(old)
      BY <3>2, <3>3, <3>4, <3>5 DEF Starts, Loads, Named
    <3> QED
      BY <1>4, <3>6
  <2>6. History(k)'
    BY <1>1, <2>2, <2>3, <2>5 DEF History, Ran, Steady
  <2> QED
    BY <1>1, <2>1, <2>2, <2>4, <2>6, JobGoesOn
<1> QED
  BY <1>3, <1>4

LEMMA FinishKeeps ==
  ASSUME IInv, NEW k \in DOMAIN jobs, Finish(k)
  PROVE  IInv'
<1>1. /\ k \in 1..Len(jobs) /\ Len(jobs) \in Nat /\ jobs[k].state = "running"
      /\ DOMAIN jobs[k] = JobFields /\ jobs[k] = [x \in JobFields |-> jobs[k][x]]
      /\ UNCHANGED <<file, edits, cmd>>
      /\ Records(k) /\ Directory(k) /\ History(k) /\ Origin(k)
  BY DEF IInv, Shape, JobInv, Finish, IsJob
<1> DEFINE old == jobs[k]
<1>2. PICK prints \in Prints :
         jobs' = [jobs EXCEPT ![k] = [old EXCEPT !.state = "done", !.prints = prints,
                                                 !.lock = Locked(old.source, k, prints),
                                                 !.report = Report(old.prev, prints)]]
  BY DEF Finish
<1> DEFINE lock == Locked(old.source, k, prints)
           report == Report(old.prev, prints)
           over == [old EXCEPT !.state = "done", !.prints = prints, !.lock = lock, !.report = report]
<1>3. /\ lock.top = old.source.top /\ lock.override = old.source.override
      /\ lock.lock = [job |-> k, prints |-> prints] /\ lock.lock.job = k
  BY DEF Locked, Stripped
<1>4. jobs' = [jobs EXCEPT ![k] = over]
  BY <1>2
<1> HIDE DEF lock, report
<1>5. /\ DOMAIN over = JobFields /\ over = [x \in JobFields |-> over[x]]
      /\ over.state = "done" /\ over.prints = prints /\ over.lock = lock /\ over.report = report
      /\ \A x \in {"kind", "of", "nth", "how", "checked", "dir", "source", "variant", "ran", "prev"} :
            over[x] = old[x]
  BY <1>1 DEF JobFields
<1> HIDE DEF over
<1>6. jobs'[k] = over
  BY <1>1, <1>4 DEF IInv, Shape
<1>7. Directory(k)'
  BY <1>1, <1>5, <1>6 DEF Directory, Steady
<1>8. History(k)'
  BY <1>1, <1>3, <1>5, <1>6 DEF History, Ran, There, Named, report
<1> QED
  BY <1>1, <1>4, <1>5, <1>7, <1>8, JobGoesOn

\* SLURM accepts a job; its directory is empty.
LEMMA SbatchKeeps ==
  ASSUME IInv, Sbatch
  PROVE  IInv'
<1>0. PICK n, job : n = Len(jobs) /\ job = NewJob
  OBVIOUS
<1>1. /\ n \in Nat /\ jobs = [j \in 1..n |-> jobs[j]]
      /\ DOMAIN cmd = CmdFields /\ cmd = [x \in CmdFields |-> cmd[x]]
      /\ cmd.at = "sbatch" /\ UNCHANGED <<file, edits>>
      /\ jobs' = Append(jobs, job) /\ cmd' = [cmd EXCEPT !.at = "copy"]
      /\ cmd.target \in 0..n
  BY <1>0 DEF IInv, Shape, Sbatch
<1>2. /\ DOMAIN cmd' = CmdFields /\ cmd' = [x \in CmdFields |-> cmd'[x]] /\ cmd'.at = "copy"
      /\ \A x \in CmdFields \ {"at"} : cmd'[x] = cmd[x]
  BY <1>1 DEF CmdFields
<1>3. /\ DOMAIN job = JobFields /\ job = [x \in JobFields |-> job[x]]
      /\ job.kind = cmd.item.kind /\ job.of = cmd.target /\ job.how = cmd.how
      /\ job.checked = cmd.item.text /\ job.state = "queued" /\ job.dir = "empty"
      /\ job.report = None
  BY <1>0 DEF NewJob, JobFields
<1>4. /\ jobs' = [j \in 1..(n + 1) |-> jobs'[j]] /\ Len(jobs') = n + 1
      /\ jobs'[n + 1] = job /\ \A j \in 1..n : jobs'[j] = jobs[j]
  <2>1. /\ Len(Append(jobs, job)) = n + 1
        /\ Append(jobs, job) = [j \in 1..(n + 1) |-> Append(jobs, job)[j]]
        /\ Append(jobs, job)[n + 1] = job
        /\ \A j \in 1..n : Append(jobs, job)[j] = jobs[j]
    BY <1>0, <1>1, AppendJob
  <2> QED
    BY <1>1, <2>1
<1>5. Shape'
  <2>1. ASSUME NEW j \in 1..(n + 1) PROVE IsJob(jobs'[j])
    <3>1. CASE j \in 1..n
      BY <1>0, <1>4, <3>1 DEF IInv, Shape
    <3>2. CASE j = n + 1
      BY <1>3, <1>4, <3>2 DEF IsJob
    <3> QED
      BY <1>1, <3>1, <3>2
  <2>2. cmd.target \in 0..(n + 1) /\ n + 1 \in Nat
    BY <1>1
  <2>3. /\ cmd'.runs = cmd.runs /\ cmd'.how = cmd.how /\ cmd'.target = cmd.target
        /\ cmd'.item = cmd.item /\ cmd'.variants = cmd.variants /\ cmd'.points = cmd.points
    BY <1>2 DEF CmdFields
  <2> QED
    BY <1>1, <1>2, <1>4, <2>1, <2>2, <2>3, ShapeStays DEF IInv
<1>6. cmd.target # 0 => cmd.target \in 1..n /\ jobs'[cmd.target] = jobs[cmd.target]
  BY <1>1, <1>4
<1>7. Read' = Read /\ (Fresh' <=> Fresh)
  BY <1>1, <1>2, <1>6 DEF Read, Fresh, CmdFields
<1>8. ItemInv'
  BY <1>1, <1>2, <1>7 DEF IInv, ItemInv, AtItem, Passed, Preflighted, CmdFields
<1>9. LastInv'
  <2>1. Job' = job /\ cmd.target < n + 1
    BY <1>1, <1>4 DEF Job
  <2> QED
    BY <1>2, <1>3, <1>4, <2>1 DEF LastInv, CmdFields
<1>10. TargetInv'
  BY <1>1, <1>2, <1>6 DEF IInv, TargetInv, AtItem, CmdFields, Reproducible
<1>11. ASSUME NEW j \in 1..n
       PROVE  Records(j)' /\ Directory(j)' /\ History(j)' /\ Origin(j)'
  <2>1. Records(j) /\ Directory(j) /\ History(j) /\ Origin(j)
    BY <1>0 DEF IInv, JobInv
  <2>2. jobs[j].of # 0 => jobs[j].of \in 1..n /\ jobs'[jobs[j].of] = jobs[jobs[j].of]
    BY <1>1, <1>4, <2>1 DEF Origin
  <2>3. jobs'[j] = jobs[j] /\ (Steady(jobs[j])' <=> Steady(jobs[j]))
    BY <1>1, <1>4 DEF Steady
  <2>4. Records(j)'
    BY <2>1, <2>3 DEF Records, Passed, Preflighted
  <2>5. Directory(j)'
    BY <2>1, <2>3 DEF Directory
  <2>6. History(j)'
    BY <2>1, <2>3 DEF History
  <2>7. Origin(j)'
    BY <2>1, <2>2, <2>3 DEF Origin
  <2> QED
    BY <2>4, <2>5, <2>6, <2>7
<1>12. Records(n + 1)' /\ Directory(n + 1)' /\ History(n + 1)' /\ Origin(n + 1)'
  <2>1. /\ Passed(cmd.item.kind, cmd.item.text, Fresh) /\ cmd.item.kind \in Kinds
        /\ Preflighted(cmd.item.kind, cmd.item.text, cmd.how, Fresh) /\ cmd.how \in Command
    BY <1>1 DEF IInv, ItemInv, AtItem, Shape
  <2>2. jobs'[n + 1] = job /\ (Steady(jobs[n + 1])' <=> Fresh)
    BY <1>1, <1>3, <1>4 DEF Steady, Fresh
  <2>3. Records(n + 1)'
    BY <1>3, <2>1, <2>2 DEF Records, Passed, Preflighted
  <2>4. Directory(n + 1)'
    BY <1>3, <2>2 DEF Directory
  <2>5. History(n + 1)'
    BY <1>3, <2>2 DEF History, Ran
  <2>6. Origin(n + 1)'
    <3>1. cmd.target \in 0..((n + 1) - 1)
      BY <1>1
    <3>2. cmd.target # 0 => /\ jobs[cmd.target].state = "done"
                            /\ Reproducible(jobs[cmd.target]) => cmd.item.kind = "single"
      BY <1>1 DEF IInv, TargetInv, AtItem
    <3> QED
      BY <1>3, <1>6, <2>2, <3>1, <3>2 DEF Origin, Reproducible
  <2> QED
    BY <2>3, <2>4, <2>5, <2>6
<1>13. JobInv'
  <2>1. 1..(n + 1) = 1..n \cup {n + 1}
    BY <1>1
  <2> QED
    BY <1>4, <1>11, <1>12, <2>1 DEF JobInv
<1> QED
  BY <1>5, <1>8, <1>9, <1>10, <1>13 DEF IInv

\* A step of writing the last job's directory; nobody was started from that job yet.
LEMMA DirectoryGrows ==
  ASSUME IInv, UNCHANGED <<file, edits>>, cmd.at \in {"copy", "write"},
         NEW at \in {"write", "check"}, cmd' = [cmd EXCEPT !.at = at],
         NEW k, k = Len(jobs), NEW job, jobs' = [jobs EXCEPT ![k] = job],
         DOMAIN job = JobFields, job = [x \in JobFields |-> job[x]],
         \A x \in {"kind", "of", "how", "checked", "state"} : job[x] = Job[x],
         job.dir \in {"copied", "whole"}, at = "write" => job.dir = "copied",
         Directory(k)', History(k)',
         job.of # 0 /\ Reproducible(jobs[job.of]) => job.source = jobs[job.of].lock
  PROVE  IInv'
<1>1. /\ k \in Nat /\ cmd.target \in 0..k /\ cmd.target < k
      /\ DOMAIN cmd = CmdFields /\ cmd = [x \in CmdFields |-> cmd[x]]
      /\ Job.kind = cmd.item.kind /\ Job.of = cmd.target /\ Job.how = cmd.how
      /\ Job.checked = cmd.item.text
  BY DEF IInv, Shape, LastInv
<1>2. k \in 1..k /\ Job = jobs[k]
  BY <1>1 DEF Job
<1>3. \A j \in 1..k : jobs[j].of # k
  BY <1>1 DEF IInv, JobInv, Origin
<1>4. Records(k)
  BY <1>2 DEF IInv, JobInv
<1>5. /\ JobInv' /\ Len(jobs') = k /\ jobs' = [j \in 1..Len(jobs') |-> jobs'[j]]
      /\ jobs'[k] = job /\ \A j \in 1..k : j # k => jobs'[j] = jobs[j]
  <2>1. job.state \in {"queued", "running", "done", "failed"}
    BY <1>2, <1>4 DEF Records
  <2>2. edits' = edits /\ k \in 1..Len(jobs) /\ job.dir \in {"empty", "copied", "whole"}
    BY <1>2
  <2>3. job.of = jobs[k].of /\ job.kind = jobs[k].kind /\ job.how = jobs[k].how
        /\ job.checked = jobs[k].checked
    BY <1>2
  <2>4. \A j \in 1..Len(jobs) : jobs[j].of # k
    BY <1>3
  <2>5. job.of # 0 /\ Reproducible(jobs[job.of]) /\ job.dir # "empty" => job.source = jobs[job.of].lock
    OBVIOUS
  <2> QED
    BY <2>4, <2>5, <2>1, <2>2, <2>3, JobChanges
<1>6. /\ DOMAIN cmd' = CmdFields /\ cmd' = [x \in CmdFields |-> cmd'[x]] /\ cmd'.at = at
      /\ \A x \in CmdFields \ {"at"} : cmd'[x] = cmd[x]
  BY <1>1 DEF CmdFields
<1>7. Shape'
  <2>1. \A j \in 1..k : IsJob(jobs'[j])
    BY <1>5 DEF IInv, Shape, IsJob
  <2>2. /\ cmd'.runs = cmd.runs /\ cmd'.how = cmd.how /\ cmd'.target = cmd.target
        /\ cmd'.item = cmd.item /\ cmd'.variants = cmd.variants /\ cmd'.points = cmd.points
    BY <1>6 DEF CmdFields
  <2> QED
    BY <1>1, <1>5, <1>6, <2>1, <2>2, ShapeStays DEF IInv
<1>8. cmd.target # 0 => cmd.target \in 1..k /\ jobs'[cmd.target] = jobs[cmd.target]
  BY <1>1, <1>5
<1>9. Read' = Read /\ (Fresh' <=> Fresh)
  BY <1>6, <1>8 DEF Read, Fresh, CmdFields
<1>10. ItemInv'
  BY <1>6, <1>9 DEF IInv, ItemInv, AtItem, Passed, Preflighted, CmdFields
<1>11. LastInv'
  <2>1. Job' = job
    BY <1>5 DEF Job
  <2> QED
    BY <1>1, <1>5, <1>6, <2>1 DEF LastInv, CmdFields
<1>12. TargetInv'
  <2>1. /\ cmd'.target = cmd.target /\ cmd'.points = cmd.points
        /\ cmd'.variants = cmd.variants /\ cmd'.item = cmd.item
    BY <1>6 DEF CmdFields
  <2>2. cmd.at \in AtItem /\ at \in {"write", "check"}
    BY DEF AtItem
  <2>3. CASE cmd.target = 0
    BY <2>1, <2>3 DEF TargetInv
  <2>4. CASE cmd.target # 0
    <3>1. jobs'[cmd'.target] = jobs[cmd.target] /\ TargetInv
      BY <1>8, <2>1, <2>4 DEF IInv
    <3> QED
      BY <1>6, <2>1, <2>2, <2>4, <3>1 DEF TargetInv, Reproducible
  <2> QED
    BY <2>3, <2>4
<1> QED
  BY <1>5, <1>7, <1>10, <1>11, <1>12 DEF IInv

\* The recipe goes into the job's directory; a job cannot have started before.
LEMMA CopyKeeps ==
  ASSUME IInv, CopySource
  PROVE  IInv'
<1>0. PICK k : k = Len(jobs)
  OBVIOUS
<1> DEFINE source == IF Job.kind = "sweep"
                   THEN [override |-> FALSE, top |-> Job.checked, sections |-> <<>>, lock |-> None]
                   ELSE Read
<1>1. /\ k \in Nat /\ cmd.target < k /\ cmd.target \in 0..k /\ cmd.at = "copy"
      /\ Job.kind = cmd.item.kind /\ Job.of = cmd.target /\ Job.how = cmd.how
      /\ Job.checked = cmd.item.text /\ Job.dir = "empty"
      /\ UNCHANGED <<file, edits>> /\ cmd' = [cmd EXCEPT !.at = "write"]
  BY <1>0 DEF IInv, Shape, LastInv, CopySource
<1>2. k \in 1..k /\ Job = jobs[k]
  BY <1>0, <1>1 DEF Job
<1>a. PICK job : job = [Job EXCEPT !.dir = "copied", !.source = source]
  OBVIOUS
<1>3. jobs' = [jobs EXCEPT ![k] = job]
  BY <1>0, <1>2, <1>a DEF CopySource
<1>4. /\ DOMAIN Job = JobFields /\ Job = [x \in JobFields |-> Job[x]]
      /\ Records(k) /\ Directory(k) /\ History(k) /\ Origin(k)
  BY <1>0, <1>2 DEF IInv, Shape, JobInv, IsJob
<1> HIDE DEF source
<1>5. /\ DOMAIN job = JobFields /\ job = [x \in JobFields |-> job[x]]
      /\ job.dir = "copied" /\ job.source = source
      /\ \A x \in JobFields \ {"dir", "source"} : job[x] = Job[x]
  BY <1>4, <1>a DEF JobFields
<1>6. ~Ran(Job)
  BY <1>1, <1>2, <1>4 DEF History, There
<1>7. jobs'[k] = job
  BY <1>0, <1>2, <1>3 DEF IInv, Shape
<1>8. /\ cmd.item.kind = "single" /\ Fresh => Read.top = cmd.item.text /\ ~Read.override
      /\ Steady(Job) <=> Fresh
  BY <1>1 DEF IInv, ItemInv, AtItem, Steady, Fresh
<1>9. Steady(job)' <=> Steady(Job)
  BY <1>1, <1>5 DEF Steady, JobFields
<1>10. Directory(k)'
  <2>1. /\ job.kind = Job.kind /\ job.checked = Job.checked /\ job.dir = "copied"
        /\ Steady(job)' => Fresh
    BY <1>5, <1>8, <1>9 DEF JobFields
  <2>2. job.kind = "sweep" \/ (job.kind = "single" /\ Steady(job)') =>
           job.source.top = job.checked /\ ~job.source.override
    BY <1>1, <1>5, <1>8, <2>1 DEF source
  <2> QED
    BY <1>7, <2>1, <2>2 DEF Directory
<1>11. History(k)'
  BY <1>1, <1>2, <1>4, <1>5, <1>6, <1>7, <1>9 DEF History, Ran, JobFields
<1>12. ASSUME job.of # 0, Reproducible(jobs[job.of]) PROVE job.source = jobs[job.of].lock
  <2>1. job.of = cmd.target /\ Job.of = cmd.target
    BY <1>1, <1>5 DEF JobFields
  <2>2. Job.kind = "single"
    BY <1>2, <1>4, <1>12, <2>1 DEF Origin
  <2> QED
    BY <1>5, <1>12, <2>1, <2>2 DEF source, Read
<1>13. \A x \in {"kind", "of", "how", "checked", "state"} : job[x] = Job[x]
  BY <1>5 DEF JobFields
<1> QED
  BY <1>0, <1>1, <1>3, <1>5, <1>10, <1>11, <1>12, <1>13, DirectoryGrows

\* With the variant written its directory is whole; a job with a recipe may have started.
LEMMA WriteRestKeeps ==
  ASSUME IInv, WriteRest
  PROVE  IInv'
<1>0. PICK k : k = Len(jobs)
  OBVIOUS
<1> DEFINE variant == IF Job.kind = "override" THEN Job.checked ELSE None
<1>1. /\ k \in Nat /\ cmd.target < k /\ cmd.target \in 0..k /\ cmd.at = "write"
      /\ Job.dir = "copied"
      /\ UNCHANGED <<file, edits>> /\ cmd' = [cmd EXCEPT !.at = "check"]
  BY <1>0 DEF IInv, Shape, LastInv, WriteRest
<1>2. k \in 1..k /\ Job = jobs[k]
  BY <1>0, <1>1 DEF Job
<1>a. PICK job : job = [Job EXCEPT !.dir = "whole", !.variant = variant]
  OBVIOUS
<1>3. jobs' = [jobs EXCEPT ![k] = job]
  BY <1>0, <1>2, <1>a DEF WriteRest
<1>4. /\ DOMAIN Job = JobFields /\ Job = [x \in JobFields |-> Job[x]]
      /\ Records(k) /\ Directory(k) /\ History(k) /\ Origin(k)
  BY <1>0, <1>2 DEF IInv, Shape, JobInv, IsJob
<1> HIDE DEF variant
<1>5. /\ DOMAIN job = JobFields /\ job = [x \in JobFields |-> job[x]]
      /\ job.dir = "whole" /\ job.variant = variant
      /\ \A x \in JobFields \ {"dir", "variant"} : job[x] = Job[x]
  BY <1>4, <1>a DEF JobFields
<1>6. Ran(Job) => Job.kind # "override"
  BY <1>1, <1>2, <1>4 DEF History, There
<1>7. jobs'[k] = job
  BY <1>0, <1>2, <1>3 DEF IInv, Shape
<1>8. Steady(job)' <=> Steady(Job)
  BY <1>1, <1>5 DEF Steady, JobFields
<1>9. Directory(k)'
  BY <1>1, <1>2, <1>4, <1>5, <1>7, <1>8 DEF Directory, variant, JobFields
<1>10. History(k)'
  BY <1>2, <1>4, <1>5, <1>6, <1>7, <1>8 DEF History, Ran, There, Named, JobFields
<1>11. job.of # 0 /\ Reproducible(jobs[job.of]) => job.source = jobs[job.of].lock
  BY <1>1, <1>2, <1>4, <1>5 DEF Origin, JobFields
<1>12. \A x \in {"kind", "of", "how", "checked", "state"} : job[x] = Job[x]
  BY <1>5 DEF JobFields
<1> QED
  BY <1>0, <1>1, <1>3, <1>5, <1>9, <1>10, <1>11, <1>12, DirectoryGrows

-----------------------------------------------------------------------------
(* The theorems                                                            *)

LEMMA InitHolds ==
  ASSUME Init
  PROVE  IInv
<1>1. /\ DOMAIN cmd = CmdFields /\ cmd = [x \in CmdFields |-> cmd[x]]
      /\ cmd.at = "idle" /\ cmd.target = 0 /\ cmd.runs = 0 /\ cmd.how = Plainly
      /\ cmd.points = {} /\ cmd.variants = <<>> /\ cmd.item.kind = "single"
  BY DEF Init, Idle, Item, CmdFields
<1>2. Plainly \in Command
  BY DEF Plainly, Command
<1>3. edits = 0 /\ 0 \in 0..MaxEdits /\ jobs = <<>> /\ Len(jobs) = 0
  BY MaxEditsAssumption DEF Init
<1>4. Shape
  <2>1. jobs = [j \in 1..0 |-> jobs[j]]
    BY <1>3
  <2> QED
    BY <1>1, <1>2, <1>3, <2>1 DEF Shape, Kinds
<1>5. ItemInv /\ LastInv /\ TargetInv
  BY <1>1 DEF ItemInv, LastInv, TargetInv, AtItem
<1>6. JobInv
  BY <1>3 DEF JobInv
<1> QED
  BY <1>4, <1>5, <1>6 DEF IInv

LEMMA StepKeeps ==
  ASSUME IInv, [Next]_vars
  PROVE  IInv'
<1>1. CASE Edit
  BY <1>1, EditKeeps
<1>2. CASE Apply
  BY <1>2, ApplyKeeps
<1>3. CASE RefuseDirectory \/ Dispatch \/ DispatchResolve \/ DispatchPreflight \/ Generate
  BY <1>3, DispatchKeeps
<1>4. CASE NextFile \/ ReadComments \/ ReadPlain \/ WriteOut \/ RenderBash \/ ReadSweep
  BY <1>4, ReadKeeps
<1>5. CASE ReadSingle
  BY <1>5, ReadSingleKeeps
<1>6. CASE NothingLeft \/ Show \/ SbatchFails \/ SetupMissing \/ WriteFails
  BY <1>6, PassKeeps
<1>7. CASE CheckItem
  BY <1>7, CheckItemKeeps
<1>8. CASE Preflight
  BY <1>8, PreflightKeeps
<1>9. CASE Sbatch
  BY <1>9, SbatchKeeps
<1>10. CASE CopySource
  BY <1>10, CopyKeeps
<1>11. CASE WriteRest
  BY <1>11, WriteRestKeeps
<1>12. CASE \E j \in DOMAIN jobs : Start(j) \/ Finish(j)
  BY <1>12, StartKeeps, FinishKeeps
<1>13. CASE UNCHANGED vars
  <2>1. UNCHANGED <<file, edits, cmd, jobs>>
    BY <1>13 DEF vars
  <2>2. JobInv'
    BY <2>1, JobsStay DEF IInv
  <2>3. Shape' /\ ItemInv'
    BY <2>1 DEF IInv, Shape, ItemInv, Fresh, Read, Passed, Preflighted
  <2>4. LastInv' /\ TargetInv'
    BY <2>1 DEF IInv, LastInv, TargetInv, Job, Reproducible
  <2> QED
    BY <2>2, <2>3, <2>4 DEF IInv
<1> QED
  BY <1>1, <1>2, <1>3, <1>4, <1>5, <1>6, <1>7, <1>8, <1>9, <1>10, <1>11, <1>12, <1>13 DEF Next

\* Of every job and of the submission in progress it is known what was checked, what of it
\* is in the directory, what the job ran and which lockfile it came from.
THEOREM SubmissionInvariant == Spec => []IInv
<1>1. Init => IInv
  BY InitHolds
<1>2. IInv /\ [Next]_vars => IInv'
  BY StepKeeps
<1> QED
  BY <1>1, <1>2, PTL DEF Spec

LEMMA SoundNow ==
  ASSUME IInv
  PROVE  JobsSound
<1>1. Len(jobs) \in Nat /\ DOMAIN jobs = 1..Len(jobs)
  BY DEF IInv, Shape
<1>2. TypeOK
  BY <1>1 DEF IInv, Shape, LastInv, JobInv, Records, History, Origin, Kinds, TypeOK
<1>3. ASSUME NEW j \in DOMAIN jobs, jobs[j].kind # "single" \/ Steady(jobs[j])
      PROVE  /\ Ran(jobs[j]) => jobs[j].ran = Load(jobs[j].checked)
             /\ jobs[j].state = "failed" /\ AliasesLookLocal /\ jobs[j].how.enforce => jobs[j].early
  <2>1. Records(j) /\ Directory(j) /\ History(j)
    BY <1>1 DEF IInv, JobInv
  <2>2. Ran(jobs[j]) => Named(jobs[j]) = jobs[j].checked
    BY <1>3, <2>1 DEF History, Directory, Records, There, Named, Kinds
  <2> QED
    BY <1>3, <2>1, <2>2 DEF History
<1>4. RunsWhatWasChecked
  BY <1>3 DEF RunsWhatWasChecked, Steady
<1> QED
  BY <1>2, <1>4 DEF JobsSound

\* A job runs the configuration its submission validated, whatever is done to the recipe
\* meanwhile, for every recipe, cluster configuration and command; it fails to start only
\* when SLURM was faster than the submission or nothing was checked.
THEOREM JobsRunWhatWasChecked == Spec => []JobsSound
<1>1. IInv => JobsSound
  BY SoundNow
<1> QED
  BY <1>1, SubmissionInvariant, PTL

LEMMA ReproducesNow ==
  ASSUME IInv
  PROVE  LockReproduces
<1> SUFFICES ASSUME NEW j \in DOMAIN jobs,
                    jobs[j].of # 0, Reproducible(jobs[jobs[j].of]), Ran(jobs[j])
             PROVE  /\ jobs[j].ran = jobs[jobs[j].of].ran
                    /\ jobs[j].prev # None /\ jobs[j].prev.job = jobs[j].of
                    /\ jobs[j].report # None /\ jobs[j].report.clean =>
                          jobs[j].prints = jobs[j].prev.prints
  BY DEF LockReproduces
<1> DEFINE job == jobs[j]
           k == jobs[j].of
           origin == jobs[k]
<1>1. /\ j \in 1..Len(jobs) /\ Len(jobs) \in Nat
      /\ Records(j) /\ History(j) /\ Origin(j)
  BY DEF IInv, Shape, JobInv
<1>2. k \in 1..Len(jobs) /\ k \in Nat
  BY <1>1 DEF Origin
<1>3. Records(k) /\ History(k)
  BY <1>2 DEF IInv, JobInv
<1>4. origin.state = "done" /\ job.kind = "single" /\ (job.dir # "empty" => job.source = origin.lock)
  BY <1>1 DEF Origin
<1>5. /\ There(job) /\ job.ran = Load(Named(job)) /\ job.prev = job.source.lock
  BY <1>1, <1>4 DEF History
<1>6. job.source = origin.lock /\ Named(job) = job.source.top
  BY <1>4, <1>5 DEF There, Named
<1>7. origin.kind # "override" /\ Ran(origin)
  BY <1>4 DEF Reproducible, Ran
<1>8. /\ origin.ran = Load(Named(origin)) /\ origin.lock.top = origin.source.top
      /\ Named(origin) = origin.source.top
      /\ origin.lock.lock = [job |-> k, prints |-> origin.prints] /\ origin.prints \in Prints
  BY <1>3, <1>4, <1>7 DEF History, Named
<1>9. job.ran = origin.ran
  BY <1>5, <1>6, <1>8
<1>10. job.prev = [job |-> k, prints |-> origin.prints]
  BY <1>5, <1>6, <1>8
<1>11. job.prev # None /\ job.prev.job = k
  BY <1>2, <1>8, <1>10, PrintsAssumption
<1>12. ASSUME job.report # None, job.report.clean
       PROVE  job.prints = job.prev.prints
  <2>1. job.state = "done" /\ job.report = Report(job.prev, job.prints) /\ job.prints \in Prints
    BY <1>1, <1>12 DEF History, Ran
  <2>2. /\ DOMAIN job.prints = DOMAIN job.prev.prints
        /\ \A w \in DOMAIN job.prints : job.prints[w] = job.prev.prints[w]
    BY <1>12, <2>1 DEF Report
  <2>3. job.prev.prints \in Prints
    BY <1>8, <1>10
  <2> DEFINE p == job.prints
             q == job.prev.prints
  <2>4. p = [w \in DOMAIN p |-> p[w]] /\ q = [w \in DOMAIN q |-> q[w]]
    BY <2>1, <2>3, PrintsAssumption
  <2> HIDE DEF p, q
  <2>5. DOMAIN p = DOMAIN q /\ \A w \in DOMAIN p : p[w] = q[w]
    BY <2>2 DEF p, q
  <2>6. p = q
    BY <2>4, <2>5
  <2> QED
    BY <2>6 DEF p, q
<1> QED
  BY <1>9, <1>11, <1>12

\* The lockfile of a plain or sweep job leads to the same configuration and a report without
\* issues means the same fingerprints, for whatever the workers left behind.
THEOREM LockfilesReproduce == Spec => []LockReproduces
<1>1. IInv => LockReproduces
  BY ReproducesNow
<1> QED
  BY <1>1, SubmissionInvariant, PTL

-----------------------------------------------------------------------------
(* The least of some numbers                                               *)

LEMMA LeastNumber ==
  ASSUME NEW T, T \subseteq Nat, T # {}
  PROVE  \E m \in T : \A t \in T : m <= t
<1>1. PICK top \in T : top \in Nat
  OBVIOUS
<1> DEFINE S == 0..top
           C == {0..t : t \in T \cap S}
<1>2. C \subseteq FiniteSubsetsOf(S) /\ C # {}
  <2>1. \A t \in T \cap S : IsFiniteSet(0..t) /\ 0..t \subseteq S
    BY <1>1, FS_Interval
  <2>2. top \in T \cap S
    BY <1>1
  <2> QED
    BY <2>1, <2>2 DEF FiniteSubsetsOf
<1>3. IsWellFoundedOn(StrictSubsetOrdering(S), FiniteSubsetsOf(S))
  BY FS_StrictSubsetOrderingWellFounded
<1> HIDE DEF C
<1>4. PICK X \in C : \A Y \in C : ~(<<Y, X>> \in StrictSubsetOrdering(S))
  BY <1>2, <1>3, WFMin
<1>5. PICK m \in T \cap S : X = 0..m
  BY DEF C
<1>6. \A t \in T : m <= t
  <2> SUFFICES ASSUME NEW t \in T, t < m PROVE FALSE
    BY <1>1, <1>5
  <2>1. m \in Nat /\ t \in Nat /\ t \in T \cap S
    BY <1>1, <1>5
  <2>2. 0..t \in C
    BY <2>1 DEF C
  <2>3. 0..t \subseteq S /\ 0..m \subseteq S /\ 0..t \subseteq 0..m /\ m \notin 0..t /\ m \in 0..m
    BY <1>1, <1>5, <2>1
  <2>4. <<0..t, X>> \in StrictSubsetOrdering(S)
    BY <1>5, <2>3 DEF StrictSubsetOrdering
  <2> QED
    BY <1>4, <2>2, <2>4
<1> QED
  BY <1>6

-----------------------------------------------------------------------------
(* Sequences of variants                                                   *)

\* What FlattenSeq concatenates is there, and it is a sequence of what the parts hold.
LEMMA Flattened ==
  ASSUME NEW S, NEW ss \in Seq(Seq(S))
  PROVE  FlattenSeq(ss) \in Seq(S)
<1> DEFINE n == Len(ss)
           Flat(m) == {f \in [1..m -> Seq(S)] : \A i \in 1..m : f[i] = IF i = 1 THEN ss[i] ELSE f[i - 1] \o ss[i]}
<1>1. n \in Nat /\ \A i \in 1..n : ss[i] \in Seq(S)
  OBVIOUS
<1>2. \A m \in 1..n : Flat(m) # {}
  <2> DEFINE T == {m \in 1..n : Flat(m) = {}}
  <2>1. SUFFICES ASSUME T # {} PROVE FALSE
    OBVIOUS
  <2>0. T \subseteq Nat
    BY <1>1
  <2>2. PICK m \in T : \A t \in T : m <= t
    <3> HIDE DEF T
    <3> QED
      BY <2>0, <2>1, LeastNumber
  <2>3. m \in 1..n /\ Flat(m) = {}
    BY <2>2
  <2>4. CASE m = 1
    <3>1. [i \in 1..1 |-> ss[1]] \in Flat(1)
      BY <1>1, <2>3, <2>4
    <3> QED
      BY <2>3, <2>4, <3>1
  <2>5. CASE m # 1
    <3>1. m - 1 \in 1..n /\ m \in Nat /\ ~(m <= m - 1)
      BY <1>1, <2>3, <2>5
    <3>a. m - 1 \notin T
      BY <2>2, <3>1
    <3>2. PICK f : f \in Flat(m - 1)
      BY <3>1, <3>a
    <3>b. PICK last : last = f[m - 1] \o ss[m]
      OBVIOUS
    <3> DEFINE g == [i \in 1..m |-> IF i = m THEN last ELSE f[i]]
    <3>3. g \in Flat(m)
      <4>1. /\ f \in [1..(m - 1) -> Seq(S)]
            /\ \A i \in 1..(m - 1) : f[i] = IF i = 1 THEN ss[i] ELSE f[i - 1] \o ss[i]
        BY <3>2
      <4>2. ss[m] \in Seq(S) /\ f[m - 1] \in Seq(S) /\ m \in Nat /\ m > 1
        BY <1>1, <2>3, <2>5, <3>1, <4>1
      <4>3. last \in Seq(S)
        BY <3>b, <4>2
      <4>4. g \in [1..m -> Seq(S)]
        BY <4>1, <4>2, <4>3
      <4>5. ASSUME NEW i \in 1..m PROVE g[i] = IF i = 1 THEN ss[i] ELSE g[i - 1] \o ss[i]
        <5>0. g[m] = last /\ \A k \in 1..m : k # m => g[k] = f[k]
          BY <4>2
        <5> HIDE DEF g
        <5>1. CASE i = m
          <6>1. m - 1 \in 1..m /\ m - 1 # m
            BY <4>2
          <6>2. g[m] = last /\ g[m - 1] = f[m - 1] /\ m # 1
            BY <4>2, <5>0, <6>1
          <6>3. g[m] = g[m - 1] \o ss[m]
            BY <3>b, <6>2
          <6> QED
            BY <5>1, <6>2, <6>3
        <5>2. CASE i # m
          <6>1. i \in 1..(m - 1) /\ (i # 1 => i - 1 \in 1..m /\ i - 1 # m)
            BY <4>2, <5>2
          <6> QED
            BY <4>1, <5>0, <5>2, <6>1
        <5> QED
          BY <5>1, <5>2
      <4> QED
        BY <4>4, <4>5
    <3> QED
      BY <2>3, <3>3
  <2> QED
    BY <2>4, <2>5
<1>3. CASE n = 0
  BY <1>3 DEF FlattenSeq
<1>4. CASE n # 0
  <2> DEFINE Is(f) == f = [i \in 1..n |-> IF i = 1 THEN ss[i] ELSE f[i - 1] \o ss[i]]
             flatten == CHOOSE f : Is(f)
  <2>1. FlattenSeq(ss) = flatten[n]
    BY <1>4 DEF FlattenSeq
  <2>a. n \in 1..n
    BY <1>1, <1>4
  <2>2. PICK g : g \in Flat(n)
    BY <1>2, <2>a
  <2>3. Is(g)
    BY <2>2
  <2>4. Is(flatten)
    BY <2>3
  <2> HIDE DEF flatten
  <2>5. DOMAIN flatten = 1..n /\ \A i \in 1..n : flatten[i] = IF i = 1 THEN ss[i] ELSE flatten[i - 1] \o ss[i]
    BY <2>4
  <2>6. \A i \in 1..n : flatten[i] \in Seq(S)
    <3> DEFINE T == {i \in 1..n : flatten[i] \notin Seq(S)}
    <3>1. SUFFICES ASSUME T # {} PROVE FALSE
      OBVIOUS
    <3>0. T \subseteq Nat
      BY <1>1
    <3>2. PICK m \in T : \A t \in T : m <= t
      <4> HIDE DEF T
      <4> QED
        BY <3>0, <3>1, LeastNumber
    <3>3. m \in 1..n /\ flatten[m] \notin Seq(S)
      BY <3>2
    <3>4. m # 1
      BY <1>1, <2>5, <3>3
    <3>5. m - 1 \in 1..n /\ m - 1 \notin T
      BY <1>1, <3>2, <3>3, <3>4
    <3>6. flatten[m - 1] \in Seq(S) /\ ss[m] \in Seq(S)
      BY <1>1, <3>3, <3>5
    <3>7. flatten[m] = flatten[m - 1] \o ss[m]
      BY <2>5, <3>3, <3>4
    <3> QED
      BY <3>3, <3>6, <3>7
  <2> QED
    BY <1>1, <1>4, <2>1, <2>6
<1> QED
  BY <1>3, <1>4

-----------------------------------------------------------------------------
(* The variants of an override file                                        *)

LEMMA ZipLengthIsNat ==
  ASSUME NEW body, \A p \in DOMAIN body : Len(body[p].items) \in Nat
  PROVE  ZipLength(body) \in Nat
<1> DEFINE dims == ListLengths(body) \ {1}
<1>1. dims \subseteq Nat
  BY DEF ListLengths
<1>2. ZipLength(body) \in {0, 1} \/ (dims # {} /\ ZipLength(body) = CHOOSE n \in dims : TRUE)
  BY DEF ZipLength
<1> HIDE DEF dims
<1>3. CASE dims # {} /\ ZipLength(body) = CHOOSE n \in dims : TRUE
  <2>1. ZipLength(body) \in dims
    BY <1>3
  <2> QED
    BY <1>1, <2>1
<1> QED
  BY <1>2, <1>3

\* What the recipe makes of its sections, whatever the selector takes of them.
FromSections(source) == UNION {Range(VariantsOf(source.top, s)) : s \in Range(source.sections)}

LEMMA SectionVariants ==
  ASSUME NEW source, source.override, IsRecipe(source), NEW s \in Range(source.sections)
  PROVE  /\ VariantsOf(source.top, s) \in Seq(FromSections(source))
         /\ s.zip => /\ ZipLength(s.body) \in Nat /\ Len(VariantsOf(source.top, s)) = ZipLength(s.body)
                     /\ VariantsOf(source.top, s) = ZipVariants(source.top, s)
<1> DEFINE found == VariantsOf(source.top, s)
<1>1. IsSection(s)
  BY DEF IsRecipe
<1>2. Range(found) \subseteq FromSections(source)
  BY DEF FromSections
<1>3. CASE s.zip
  <2>1. ZipLength(s.body) \in Nat
    BY <1>1, <1>3, ZipLengthIsNat DEF IsSection
  <2>2. found = ZipVariants(source.top, s)
    BY <1>3 DEF VariantsOf
  <2>3. DOMAIN found = 1..ZipLength(s.body) /\ found = [i \in 1..ZipLength(s.body) |-> found[i]]
    BY <2>2 DEF ZipVariants
  <2> HIDE DEF found
  <2>4. found \in [1..ZipLength(s.body) -> FromSections(source)]
    BY <1>2, <2>3 DEF Range
  <2>5. found \in Seq(FromSections(source)) /\ Len(found) = ZipLength(s.body)
    BY <2>1, <2>4
  <2> QED
    BY <1>3, <2>1, <2>2, <2>5 DEF found
<1>4. CASE ~s.zip
  <2>1. found = <<OverrideVariant(source.top, s)>>
    BY <1>4 DEF VariantsOf
  <2>2. OverrideVariant(source.top, s) \in Range(found)
    BY <2>1 DEF Range
  <2> QED
    BY <1>2, <1>4, <2>1, <2>2
<1> QED
  BY <1>3, <1>4

\* A selection is a sequence of variants of sections, or the base.
LEMMA Generated ==
  ASSUME NEW source, source.override, IsRecipe(source), NEW sel \in Selectors, Expandable(source, sel)
  PROVE  LET plain == generate_override_configs(source, sel) IN
         \/ plain = <<[suffix |-> <<"base">>, config |-> source.top]>>
         \/ plain \in Seq(FromSections(source))
<1> DEFINE chosen == Chosen(source, sel)
           one == CHOOSE s \in chosen : TRUE
           S == FromSections(source)
<1>0. sel.kind \in {"all", "base", "key", "index"}
  BY SelectorsAssumption
<1>1. CASE sel.kind = "base"
  BY <1>1 DEF generate_override_configs
<1>2. CASE sel.kind = "index"
  <2>1. one \in chosen /\ chosen \subseteq Range(source.sections)
    BY <1>2 DEF Expandable, Chosen
  <2>2. one.zip /\ sel.index \in Nat /\ sel.index < ZipLength(one.body)
    BY <1>2, <2>1, SelectorsAssumption DEF Expandable, Chosen, KeyOf
  <2>3. generate_override_configs(source, sel) = <<VariantsOf(source.top, one)[sel.index + 1]>>
    BY <1>2 DEF generate_override_configs
  <2> HIDE DEF one
  <2>4. VariantsOf(source.top, one) \in Seq(S) /\ sel.index + 1 \in 1..Len(VariantsOf(source.top, one))
    BY <2>1, <2>2, SectionVariants
  <2>5. VariantsOf(source.top, one)[sel.index + 1] \in S
    BY <2>4
  <2> QED
    BY <2>3, <2>5
<1>3. CASE sel.kind \in {"all", "key"}
  <2> DEFINE of(s) == IF s \in chosen THEN VariantsOf(source.top, s) ELSE <<>>
             parts == [i \in DOMAIN source.sections |-> of(source.sections[i])]
  <2>1. generate_override_configs(source, sel) = FlattenSeq(parts)
    BY <1>3 DEF generate_override_configs
  <2>2. /\ source.sections \in Seq(Range(source.sections))
        /\ \A s \in Range(source.sections) : of(s) \in Seq(S)
    BY SectionVariants DEF IsRecipe
  <2>3. \A i \in DOMAIN source.sections : of(source.sections[i]) \in Seq(S)
    BY <2>2 DEF Range
  <2> HIDE DEF of
  <2>4. parts \in Seq(Seq(S))
    <3>1. Len(source.sections) \in Nat /\ DOMAIN source.sections = 1..Len(source.sections)
      BY <2>2
    <3> QED
      BY <2>3, <3>1
  <2> HIDE DEF parts, S
  <2> QED
    BY <2>1, <2>4, Flattened DEF S
<1> QED
  BY <1>0, <1>1, <1>2, <1>3

-----------------------------------------------------------------------------
(* The two expansions agree                                                *)

LEMMA FromSection ==
  ASSUME NEW source, NEW v \in FromSections(source)
  PROVE  \E s \in Range(source.sections) :
            \/ ~s.zip /\ v = OverrideVariant(source.top, s)
            \/ s.zip /\ \E i \in 1..ZipLength(s.body) : v = ZipVariants(source.top, s)[i]
<1>1. PICK s \in Range(source.sections) : v \in Range(VariantsOf(source.top, s))
  BY DEF FromSections
<1>2. CASE s.zip
  <2>1. VariantsOf(source.top, s) = ZipVariants(source.top, s)
    BY <1>2 DEF VariantsOf
  <2>2. DOMAIN ZipVariants(source.top, s) = 1..ZipLength(s.body)
    BY DEF ZipVariants
  <2> QED
    BY <1>1, <1>2, <2>1, <2>2 DEF Range
<1>3. CASE ~s.zip
  <2>1. VariantsOf(source.top, s) = <<OverrideVariant(source.top, s)>>
    BY <1>3 DEF VariantsOf
  <2> QED
    BY <1>1, <1>3, <2>1 DEF Range
<1> QED
  BY <1>2, <1>3

\* The second merge, for a variant that has been named and for one with a name of its own.
LEMMA RemergedAlways ==
  ASSUME NEW base, NEW over, IsTree(base), IsTree(over), NEW name, name # None,
         \A p \in DOMAIN base : base[p] # None, \A q \in DOMAIN over : over[q] # None
  PROVE  /\ Merge(base, Merge(base, over)) = Merge(base, over)
         /\ Merge(base, WithName(Merge(base, over), name)) = WithName(Merge(base, over), name)
<1> DEFINE merged == Merge(base, over)
<1>1. /\ DOMAIN base \subseteq Seq(STRING) /\ base = [p \in DOMAIN base |-> base[p]]
      /\ DOMAIN over \subseteq Seq(STRING) /\ over = [p \in DOMAIN over |-> over[p]]
  BY DEF IsTree
<1>2. Merge(base, merged) = merged
  <2>1. merged = [q \in DOMAIN merged |-> merged[q]]
    BY DEF Merge
  <2>2. \A p \in DOMAIN base : \E q \in DOMAIN merged : Meets(p, q)
    BY <1>1, MergeCovers
  <2>3. SetBy(base, over) = DOMAIN over /\ Kept(base, over) \subseteq DOMAIN base
    BY DEF SetBy, Kept
  <2>4. \A q \in DOMAIN merged : merged[q] # None
    BY <2>3 DEF Merge
  <2> HIDE DEF merged
  <2> QED
    BY <2>1, <2>2, <2>4, MergeCovered
<1>3. Merge(base, WithName(merged, name)) = WithName(merged, name)
  <2> DEFINE variant == WithName(merged, name)
  <2>1. DOMAIN variant = DOMAIN merged \cup {NamePath} /\ variant = [q \in DOMAIN variant |-> variant[q]]
    BY DEF WithName
  <2>2. \A p \in DOMAIN base : \E q \in DOMAIN variant : Meets(p, q)
    BY <1>1, <2>1, MergeCovers
  <2>3. SetBy(base, over) = DOMAIN over /\ Kept(base, over) \subseteq DOMAIN base
    BY DEF SetBy, Kept
  <2>4. \A q \in DOMAIN merged : merged[q] # None
    BY <2>3 DEF Merge
  <2>5. \A q \in DOMAIN variant : variant[q] # None
    BY <2>1, <2>4 DEF WithName
  <2> HIDE DEF variant
  <2>6. Merge(base, variant) = variant
    BY <2>1, <2>2, <2>5, MergeCovered
  <2> QED
    BY <2>6 DEF variant
<1> QED
  BY <1>2, <1>3

\* Where names and nulls do not get in the way, the variant merged once more is the variant.
LEMMA CommentedIsGenerated ==
  ASSUME NEW source, source.override, IsRecipe(source), Unambiguous(source),
         NEW v, \/ v = [suffix |-> <<"base">>, config |-> source.top]
                \/ v \in FromSections(source)
  PROVE  Commented(source, v) = v.config
<1> DEFINE own == {t \in Range(source.sections) : ~t.zip /\ t.suffix = v.suffix}
           base == source.top
<1>0. /\ \A s, t \in Range(source.sections) :
             IsSection(s) /\ (s.zip = t.zip /\ s.suffix = t.suffix => s = t)
      /\ IsTree(base)
      /\ NameOf(base) \in Seq(STRING) \/ (NamePath \in DOMAIN base /\ base[NamePath] = None)
  BY DEF IsRecipe
<1>1. CASE v = [suffix |-> <<"base">>, config |-> source.top]
  BY <1>1 DEF Commented
<1>2. ASSUME NEW s \in Range(source.sections), ~s.zip, v = OverrideVariant(base, s)
      PROVE  Commented(source, v) = v.config
  <2> DEFINE merged == Merge(base, s.body)
             name == NameOf(base) \o s.suffix
  <2>1. /\ v.suffix = s.suffix
        /\ v.config = IF NamePath \in DOMAIN s.body THEN merged ELSE WithName(merged, name)
    BY <1>2 DEF OverrideVariant
  <2>2. v.suffix # <<"base">>
    BY <1>2, <2>1 DEF Unambiguous
  <2>3. own = {s}
    BY <1>0, <1>2, <2>1 DEF IsSection
  <2>4. (CHOOSE t \in own : TRUE) = s
    BY <2>3
  <2>5. Commented(source, v) =
           IF NamePath \in DOMAIN v.config THEN WithName(merged, v.config[NamePath]) ELSE merged
    BY <2>2, <2>3, <2>4 DEF Commented
  <2>6. merged = [p \in DOMAIN merged |-> merged[p]]
    BY DEF Merge
  <2> HIDE DEF merged, name
  <2>7. CASE NamePath \in DOMAIN s.body
    <3>1. NamePath \in DOMAIN merged => WithName(merged, merged[NamePath]) = merged
      BY <2>6 DEF WithName
    <3> QED
      BY <2>1, <2>5, <2>7, <3>1
  <2>8. CASE NamePath \notin DOMAIN s.body
    <3>1. NamePath \in DOMAIN WithName(merged, name) /\ WithName(merged, name)[NamePath] = name
      BY DEF WithName
    <3> QED
      BY <2>1, <2>5, <2>8, <3>1
  <2> QED
    BY <2>7, <2>8
<1>3. ASSUME NEW s \in Range(source.sections), s.zip,
             NEW i \in 1..ZipLength(s.body), v = ZipVariants(base, s)[i]
      PROVE  Commented(source, v) = v.config
  <2> DEFINE over == Slice(s.body, i - 1)
             suffix == Append(s.suffix, ToString(i - 1))
             name == NameOf(base) \o suffix
  <2>0. ZipLength(s.body) \in Nat /\ i \in Nat /\ i - 1 \in 0..(ZipLength(s.body) - 1)
    BY <1>3, SectionVariants
  <2>1. /\ v.suffix = suffix
        /\ v.config \in {Merge(base, over), WithName(Merge(base, over), name)}
    BY <1>3 DEF ZipVariants
  <2>2. /\ \A p \in DOMAIN base : base[p] # None
        /\ \A p \in DOMAIN s.body : over[p] # None
        /\ \A t \in Range(source.sections) : ~t.zip => t.suffix # suffix
    BY <1>3, <2>0 DEF Unambiguous
  <2>3. s.suffix \in Seq(STRING) \ {<<>>} /\ ToString(i - 1) \in STRING /\ IsTree(s.body)
    BY <1>0, <1>3, <2>0 DEF IsSection
  <2>4. suffix \in Seq(STRING) /\ suffix # <<"base">>
    <3>1. suffix \in Seq(STRING) /\ Len(suffix) = Len(s.suffix) + 1
      BY <2>3
    <3>2. Len(s.suffix) \in Nat /\ Len(s.suffix) # 0
      BY <2>3
    <3>3. \A x : Len(<<x>>) = 1
      OBVIOUS
    <3> HIDE DEF suffix
    <3>4. Len(suffix) # Len(<<"base">>)
      BY <3>1, <3>2, <3>3
    <3> QED
      BY <3>1, <3>4
  <2>5. own = {}
    BY <2>1, <2>2
  <2>6. Commented(source, v) = Merge(base, v.config)
    BY <2>1, <2>4, <2>5 DEF Commented
  <2>7. name # None
    <3>1. NameOf(base) \in Seq(STRING)
      BY <1>0, <2>2
    <3>2. name \in Seq(STRING)
      BY <2>4, <3>1
    <3> QED
      BY <3>2, FilesAssumption
  <2>8. IsTree(over) /\ \A q \in DOMAIN over : over[q] # None
    BY <2>2, <2>3 DEF IsTree, Slice
  <2> HIDE DEF over, name
  <2>9. /\ Merge(base, Merge(base, over)) = Merge(base, over)
        /\ Merge(base, WithName(Merge(base, over), name)) = WithName(Merge(base, over), name)
    BY <1>0, <2>2, <2>7, <2>8, RemergedAlways
  <2> QED
    BY <2>1, <2>6, <2>9
<1> QED
  BY <1>1, <1>2, <1>3, FromSection

LEMMA LastOfTwo ==
  ASSUME NEW S, NEW a \in Seq(S), NEW b \in Seq(S), NEW x \in S, NEW y \in S,
         Append(a, x) = Append(b, y)
  PROVE  a = b /\ x = y
<1>1. Len(a) + 1 = Len(b) + 1 /\ Len(a) \in Nat /\ Len(b) \in Nat
  OBVIOUS
<1>2. Append(a, x)[Len(a) + 1] = x /\ Append(b, y)[Len(b) + 1] = y
  OBVIOUS
<1>3. \A i \in 1..Len(a) : Append(a, x)[i] = a[i] /\ Append(b, y)[i] = b[i]
  BY <1>1
<1>4. Len(a) = Len(b)
  BY <1>1
<1>5. x = y /\ \A i \in 1..Len(a) : a[i] = b[i]
  BY <1>2, <1>3, <1>4
<1> QED
  BY <1>4, <1>5

\* Variants with the same suffix are the same.
LEMMA SuffixesDiffer ==
  ASSUME NEW source, source.override, IsRecipe(source), Unambiguous(source),
         NEW v \in FromSections(source), NEW w \in FromSections(source), v.suffix = w.suffix
  PROVE  v = w
<1>0. \A s, t \in Range(source.sections) :
             IsSection(s) /\ (s.zip = t.zip /\ s.suffix = t.suffix => s = t)
  BY DEF IsRecipe
<1>1. ASSUME NEW s \in Range(source.sections), s.zip, NEW i \in 1..ZipLength(s.body)
      PROVE  /\ i - 1 \in 0..(ZipLength(s.body) - 1) /\ ToString(i - 1) \in STRING
             /\ s.suffix \in Seq(STRING)
             /\ ZipVariants(source.top, s)[i].suffix = Append(s.suffix, ToString(i - 1))
             /\ \A t \in Range(source.sections) : ~t.zip => t.suffix # Append(s.suffix, ToString(i - 1))
  <2>1. ZipLength(s.body) \in Nat /\ i - 1 \in 0..(ZipLength(s.body) - 1)
    BY <1>1, SectionVariants
  <2> QED
    BY <1>0, <1>1, <2>1 DEF IsSection, Unambiguous, ZipVariants
<1>2. ASSUME NEW s \in Range(source.sections)
      PROVE  OverrideVariant(source.top, s).suffix = s.suffix
  BY DEF OverrideVariant
<1>3. PICK s \in Range(source.sections) :
            \/ ~s.zip /\ v = OverrideVariant(source.top, s)
            \/ s.zip /\ \E i \in 1..ZipLength(s.body) : v = ZipVariants(source.top, s)[i]
  BY FromSection
<1>4. PICK t \in Range(source.sections) :
            \/ ~t.zip /\ w = OverrideVariant(source.top, t)
            \/ t.zip /\ \E i \in 1..ZipLength(t.body) : w = ZipVariants(source.top, t)[i]
  BY FromSection
<1>5. CASE ~s.zip /\ ~t.zip
  <2>1. s.suffix = t.suffix /\ s.zip = t.zip
    BY <1>0, <1>2, <1>3, <1>4, <1>5 DEF IsSection
  <2> QED
    BY <1>0, <1>3, <1>4, <1>5, <2>1
<1>6. CASE s.zip /\ t.zip
  <2>1. PICK i \in 1..ZipLength(s.body) : v = ZipVariants(source.top, s)[i]
    BY <1>3, <1>6
  <2>2. PICK k \in 1..ZipLength(t.body) : w = ZipVariants(source.top, t)[k]
    BY <1>4, <1>6
  <2>3. Append(s.suffix, ToString(i - 1)) = Append(t.suffix, ToString(k - 1))
    BY <1>1, <1>6, <2>1, <2>2
  <2>4. s.suffix = t.suffix /\ ToString(i - 1) = ToString(k - 1)
    <3>1. /\ s.suffix \in Seq(STRING) /\ ToString(i - 1) \in STRING
          /\ t.suffix \in Seq(STRING) /\ ToString(k - 1) \in STRING
      BY <1>1, <1>6
    <3> QED
      BY <2>3, <3>1, LastOfTwo
  <2>5. s = t
    BY <1>0, <1>6, <2>4 DEF IsSection
  <2>6. i = k
    BY <1>0, <1>1, <1>6, <2>4, <2>5 DEF IsSection
  <2> QED
    BY <2>1, <2>2, <2>5, <2>6
<1>7. CASE s.zip /\ ~t.zip
  <2>1. PICK i \in 1..ZipLength(s.body) : v = ZipVariants(source.top, s)[i]
    BY <1>3, <1>7
  <2>2. v.suffix = Append(s.suffix, ToString(i - 1)) /\ w.suffix = t.suffix
    BY <1>1, <1>2, <1>4, <1>7, <2>1
  <2> QED
    BY <1>1, <1>7, <2>2
<1>8. CASE ~s.zip /\ t.zip
  <2>1. PICK i \in 1..ZipLength(t.body) : w = ZipVariants(source.top, t)[i]
    BY <1>4, <1>8
  <2>2. w.suffix = Append(t.suffix, ToString(i - 1)) /\ v.suffix = s.suffix
    BY <1>1, <1>2, <1>3, <1>8, <2>1
  <2> QED
    BY <1>1, <1>8, <2>2
<1> QED
  BY <1>5, <1>6, <1>7, <1>8

-----------------------------------------------------------------------------
(* The invariant of the expansion                                          *)

ItemsOf(source, sel) ==
    LET plain == generate_override_configs(source, sel)
    IN  [i \in DOMAIN plain |-> Item("override", Commented(source, plain[i]), plain[i].suffix)]
TextsOf(source, sel) ==
    IF source.override THEN {ItemsOf(source, sel)[k].text : k \in DOMAIN ItemsOf(source, sel)}
    ELSE {source.top}

Worked == {"check"} \cup AtItem

\* The command and the place agree; what is queued is gone where nothing is submitted.
Placed ==
    /\ cmd.at \in {"generate", "sweep", "single", "next"} \cup Worked => Submits
    /\ cmd.at = "shown" => cmd.how.verb = "dry-run"
    /\ cmd.at \in AtItem \ {"shown"} => cmd.how.verb = "apply"
    /\ cmd.at = "preflight" => cmd.how.enforce
    /\ cmd.at \in {"finish", "write out", "render"} => ~Submits /\ ~InDirectory
    /\ cmd.at = "finish" => cmd.how.verb = "preflight"
    /\ cmd.at = "write out" => cmd.how.verb = "resolve-override"
    /\ cmd.at = "render" => cmd.how.verb = "bash"
    /\ cmd.at \in {"comments", "plain"} =>
         Submits \/ (cmd.how.verb \in {"resolve-override", "bash"} /\ ~InDirectory)
    /\ cmd.at = "next" => InDirectory
    /\ cmd.at = "done" /\ InDirectory => Submits
    /\ cmd.at \notin Worked \cup {"write out", "render", "failed"} =>
         cmd.variants = <<>> /\ cmd.due = 1 /\ cmd.points = {}
    /\ cmd.target # 0 => ~file.dir

\* Where the recipes come from.
Sourced ==
    /\ DOMAIN file = {"dir", "of"} /\ file.dir \in BOOLEAN /\ file.of \in Seq(Recipes)
    /\ file.of # <<>> /\ (file.dir \/ Len(file.of) = 1)
    /\ cmd.nth \in 1..Len(file.of) /\ cmd.sel \in Selectors
    /\ cmd.how.stdin => cmd.stdin \in Recipes /\ ~file.dir
    /\ \A j \in 1..Len(jobs) :
         /\ jobs[j].dir # "empty" => IsRecipe(jobs[j].source)
         /\ Ran(jobs[j]) => IsRecipe(jobs[j].lock)

\* What the command has read of the file is what is in it.
Reading ==
    /\ cmd.at \in {"generate", "comments", "plain", "write out"} => Read.override
    /\ cmd.at = "plain" => cmd.comments = Read
    /\ cmd.at \in {"comments", "plain"} /\ Submits => Expandable(Read, cmd.sel)
    /\ cmd.at = "sweep" => /\ ~Read.override /\ ~cmd.how.serve
                           /\ cmd.how.sweep \/ SweepParams(Read.top) # {}
    /\ cmd.at = "single" => ~Read.override /\ ~cmd.how.sweep /\ SweepParams(Read.top) = {}
    /\ cmd.at \in Worked \cup {"write out", "render"} =>
         IF Read.override
         THEN /\ Expandable(Read, cmd.sel) /\ cmd.variants = ItemsOf(Read, cmd.sel)
              /\ cmd.how.serve \/ cmd.how.verb = "bash" =>
                   Len(generate_override_configs(Read, cmd.sel)) = 1
         ELSE /\ cmd.variants = <<>>
              /\ cmd.at \in Worked /\ cmd.how.sweep => SweepParams(Read.top) # {}

Hand == IF cmd.at \in AtItem THEN {cmd.item.text} ELSE {}
Through(text) == /\ Checked(text, cmd.how)
                 /\ cmd.how.verb = "apply" => Submitted(cmd.nth, text)
Treated(config) ==
    IF SweepParams(config) = {} THEN config \in Hand \/ Through(config)
    ELSE /\ ~cmd.how.serve /\ SweepValid(config) /\ (Read.override => Valid(Resolve(config)))
         /\ cmd.how.verb = "apply" => \A p \in SweepConfigs(config) :
               p \in Hand \/ Through(p) \/ Item("sweep", p, <<>>) \in cmd.points

\* Every configuration before the next variant is through, in hand or queued.
Progress ==
    cmd.at \in Worked =>
        /\ cmd.due \in 1..(Len(cmd.variants) + 1)
        /\ Read.override => \A k \in 1..(cmd.due - 1) : Treated(cmd.variants[k].text)
        /\ ~Read.override => Treated(Read.top)
        /\ \A item \in cmd.points :
             /\ cmd.how.verb = "apply" /\ item = Item("sweep", item.text, <<>>)
             /\ \E c \in TextsOf(Read, cmd.sel) : SweepParams(c) # {} /\ item.text \in SweepConfigs(c)
        /\ cmd.at \in AtItem => \E c \in TextsOf(Read, cmd.sel) : cmd.item.text \in Points(c)
        /\ cmd.at \in {"copy", "write"} => Job.nth = cmd.nth

SourceAt(i) == IF cmd.how.stdin THEN cmd.stdin ELSE file.of[i]
Taken(source, nth) ==
    /\ Good(source, cmd.sel, cmd.how)
    /\ cmd.how.verb = "apply" => \A c \in Meant(source, cmd.sel) : \A p \in Points(c) : Submitted(nth, p)
Verdict(i) ==
    Unambiguous(SourceAt(i)) =>
      /\ cmd.results[i] = "rejected" => ~Good(SourceAt(i), cmd.sel, cmd.how)
      /\ cmd.results[i] = "ok" => Taken(SourceAt(i), i)

Results ==
    /\ cmd.results \in Seq({"ok", "rejected", "not submitted"})
    /\ cmd.at \notin {"next", "done", "failed"} => Len(cmd.results) = cmd.nth - 1
    /\ cmd.at = "next" => Len(cmd.results) = cmd.nth
    /\ cmd.at = "done" => Len(cmd.results) = Len(file.of)
    /\ cmd.target = 0 /\ Submits /\ Fresh => \A i \in 1..Len(cmd.results) : Verdict(i)

Rendered ==
    cmd.at = "done" /\ Fresh /\ Read.override /\ Unambiguous(Read) =>
        LET generated == Range(generate_override_configs(Read, cmd.sel)) IN
        /\ cmd.how.verb = "resolve-override" => \A v \in generated : cmd.out[v.suffix] = v.config
        /\ cmd.how.verb = "bash" => \A v \in generated : Unobserved(v.config) => cmd.out = PlanOf(Load(v.config))

XInv == Placed /\ Sourced /\ (Fresh => Reading /\ Progress) /\ Results /\ Rendered

-----------------------------------------------------------------------------
(* What a recipe stands for                                                *)

LEMMA ReadIsRecipe ==
  ASSUME IInv, Sourced
  PROVE  IsRecipe(Read)
<1>1. \A source \in Recipes : IsRecipe(source)
  BY FilesAssumption
<1>2. CASE cmd.target # 0
  <2>1. cmd.target \in 1..Len(jobs) /\ jobs[cmd.target].state = "done"
    BY <1>2 DEF IInv, Shape, TargetInv
  <2> QED
    BY <1>2, <2>1 DEF Sourced, Ran, Read
<1>3. CASE cmd.target = 0 /\ cmd.how.stdin
  BY <1>1, <1>3 DEF Sourced, Read
<1>4. CASE cmd.target = 0 /\ ~cmd.how.stdin
  <2>1. file.of \in Seq(Recipes) /\ cmd.nth \in 1..Len(file.of)
    BY DEF Sourced
  <2>2. file.of[cmd.nth] \in Recipes
    BY <2>1
  <2> QED
    BY <1>1, <1>4, <2>2 DEF Read
<1> QED
  BY <1>2, <1>3, <1>4

\* What is handed on for a selection, and what it stands for.
LEMMA ItemsAre ==
  ASSUME NEW source, source.override, IsRecipe(source), NEW sel \in Selectors, Expandable(source, sel)
  PROVE  LET plain == generate_override_configs(source, sel)
             items == ItemsOf(source, sel) IN
         /\ Len(plain) \in Nat /\ DOMAIN plain = 1..Len(plain)
         /\ Len(items) = Len(plain) /\ DOMAIN items = 1..Len(plain)
         /\ \A k \in 1..Len(plain) : /\ items[k].kind = "override" /\ items[k].suffix = plain[k].suffix
                                     /\ items[k].text = Commented(source, plain[k])
         /\ Unambiguous(source) =>
              /\ \A k \in 1..Len(plain) :
                    /\ items[k].text = plain[k].config
                    /\ plain[k] = [suffix |-> plain[k].suffix, config |-> plain[k].config]
                    /\ \A l \in 1..Len(plain) : plain[k].suffix = plain[l].suffix => plain[k] = plain[l]
              /\ TextsOf(source, sel) = Meant(source, sel)
<1> DEFINE plain == generate_override_configs(source, sel)
           items == ItemsOf(source, sel)
           base == [suffix |-> <<"base">>, config |-> source.top]
<1>1. plain = <<base>> \/ plain \in Seq(FromSections(source))
  BY Generated
<1>2. items = [i \in DOMAIN plain |-> Item("override", Commented(source, plain[i]), plain[i].suffix)]
  BY DEF ItemsOf
<1>a. Meant(source, sel) = {v.config : v \in Range(plain)}
  BY DEF Meant
<1>b. TextsOf(source, sel) = {items[k].text : k \in DOMAIN items}
  BY DEF TextsOf
<1> HIDE DEF plain, items
<1>3. Len(plain) \in Nat /\ DOMAIN plain = 1..Len(plain)
  BY <1>1
<1>4. Len(items) = Len(plain) /\ DOMAIN items = 1..Len(plain)
  BY <1>2, <1>3
<1>5. \A k \in 1..Len(plain) : /\ items[k].kind = "override" /\ items[k].suffix = plain[k].suffix
                               /\ items[k].text = Commented(source, plain[k])
  BY <1>2, <1>3 DEF Item
<1>6. ASSUME Unambiguous(source)
      PROVE  /\ \A k \in 1..Len(plain) :
                    /\ items[k].text = plain[k].config
                    /\ plain[k] = [suffix |-> plain[k].suffix, config |-> plain[k].config]
                    /\ \A l \in 1..Len(plain) : plain[k].suffix = plain[l].suffix => plain[k] = plain[l]
             /\ TextsOf(source, sel) = Meant(source, sel)
  <2>1. \A k \in 1..Len(plain) : (plain = <<base>> /\ plain[k] = base) \/ plain[k] \in FromSections(source)
    BY <1>1, <1>3
  <2>2. \A k \in 1..Len(plain) : Commented(source, plain[k]) = plain[k].config
    BY <1>6, <2>1, CommentedIsGenerated
  <2>3. ASSUME NEW v \in FromSections(source)
        PROVE  v = [suffix |-> v.suffix, config |-> v.config]
    <3>1. PICK s \in Range(source.sections) :
            \/ ~s.zip /\ v = OverrideVariant(source.top, s)
            \/ s.zip /\ \E i \in 1..ZipLength(s.body) : v = ZipVariants(source.top, s)[i]
      BY FromSection
    <3>2. CASE v = OverrideVariant(source.top, s)
      BY <3>2 DEF OverrideVariant
    <3>3. CASE \E i \in 1..ZipLength(s.body) : v = ZipVariants(source.top, s)[i]
      BY <3>3 DEF ZipVariants
    <3> QED
      BY <3>1, <3>2, <3>3
  <2>4. \A k \in 1..Len(plain) : plain[k] = [suffix |-> plain[k].suffix, config |-> plain[k].config]
    BY <2>1, <2>3
  <2>5. \A k, l \in 1..Len(plain) : plain[k].suffix = plain[l].suffix => plain[k] = plain[l]
    <3>1. CASE plain = <<base>>
      BY <3>1
    <3>2. CASE plain \in Seq(FromSections(source))
      BY <1>3, <1>6, <3>2, SuffixesDiffer
    <3> QED
      BY <1>1, <3>1, <3>2
  <2>6. TextsOf(source, sel) = Meant(source, sel)
    BY <1>3, <1>4, <1>5, <1>a, <1>b, <2>2 DEF Range
  <2> QED
    BY <1>5, <2>2, <2>4, <2>5, <2>6
<1> QED
  BY <1>3, <1>4, <1>5, <1>6 DEF plain, items

-----------------------------------------------------------------------------
(* What a step of the command leaves as it is                              *)

\* The command is the same and at the same recipe.
SameCommand ==
    /\ UNCHANGED <<file, edits>>
    /\ cmd'.how = cmd.how /\ cmd'.target = cmd.target /\ cmd'.sel = cmd.sel
    /\ cmd'.stdin = cmd.stdin /\ cmd'.nth = cmd.nth

Grown == \A j \in DOMAIN jobs : /\ j \in DOMAIN jobs'
                               /\ jobs'[j].nth = jobs[j].nth /\ jobs'[j].checked = jobs[j].checked

LEMMA SubmittedStays ==
  ASSUME Grown, NEW nth, NEW config, Submitted(nth, config)
  PROVE  Submitted(nth, config)'
BY DEF Grown, Submitted

LEMMA SameCommandKeeps ==
  ASSUME SameCommand, cmd.target # 0 => jobs'[cmd.target] = jobs[cmd.target]
  PROVE  Read' = Read /\ (Fresh' <=> Fresh) /\ (InDirectory' <=> InDirectory) /\ (Submits' <=> Submits)
<1>1. Read' = Read
  BY DEF SameCommand, Read
<1>2. (Fresh' <=> Fresh) /\ (InDirectory' <=> InDirectory) /\ (Submits' <=> Submits)
  BY DEF SameCommand, Fresh, InDirectory, Submits
<1> QED
  BY <1>1, <1>2

LEMMA TreatedStays ==
  ASSUME SameCommand, Read' = Read, Grown,
         \A text \in Hand : text \in Hand' \/ Through(text)',
         \A item \in cmd.points : item \in cmd'.points \/ item.text \in Hand',
         NEW config, Treated(config)
  PROVE  Treated(config)'
<1>1. \A text : Through(text) => Through(text)'
  BY SubmittedStays DEF Through, SameCommand
<1>2. \A p : Item("sweep", p, <<>>).text = p
  BY DEF Item
<1>3. CASE SweepParams(config) = {}
  BY <1>1, <1>3 DEF Treated
<1>4. CASE SweepParams(config) # {}
  <2>1. ~cmd.how.serve /\ SweepValid(config) /\ (Read.override => Valid(Resolve(config)))
    BY <1>4 DEF Treated
  <2>2. ASSUME NEW p \in SweepConfigs(config), cmd'.how.verb = "apply"
        PROVE  p \in Hand' \/ Through(p)' \/ Item("sweep", p, <<>>) \in cmd'.points
    <3>1. p \in Hand \/ Through(p) \/ Item("sweep", p, <<>>) \in cmd.points
      BY <1>4, <2>2 DEF Treated, SameCommand
    <3> QED
      BY <1>1, <1>2, <3>1
  <2> QED
    BY <1>4, <2>1, <2>2 DEF Treated, SameCommand
<1> QED
  BY <1>3, <1>4

LEMMA VerdictStays ==
  ASSUME UNCHANGED file, cmd'.how = cmd.how, cmd'.sel = cmd.sel, cmd'.stdin = cmd.stdin, Grown,
         NEW i, cmd'.results[i] = cmd.results[i], Verdict(i)
  PROVE  Verdict(i)'
<1>1. SourceAt(i)' = SourceAt(i)
  BY DEF SourceAt
<1>2. Taken(SourceAt(i), i) => Taken(SourceAt(i), i)'
  BY <1>1, SubmittedStays DEF Taken
<1> QED
  BY <1>1, <1>2 DEF Verdict

-----------------------------------------------------------------------------
(* How a step ends, goes on or works                                       *)

\* A step of the command itself.
OwnStep ==
    /\ UNCHANGED jobs /\ SameCommand
    /\ DOMAIN cmd' = CmdFields /\ cmd' = [x \in CmdFields |-> cmd'[x]]

LEMMA OwnStepKeeps ==
  ASSUME OwnStep
  PROVE  /\ Read' = Read /\ (Fresh' <=> Fresh) /\ (InDirectory' <=> InDirectory) /\ (Submits' <=> Submits)
         /\ Grown /\ Job' = Job
         /\ Sourced => Sourced'
<1>1. /\ Read' = Read /\ (Fresh' <=> Fresh) /\ (InDirectory' <=> InDirectory) /\ (Submits' <=> Submits)
      /\ Grown /\ Job' = Job
  BY SameCommandKeeps DEF OwnStep, Grown, Job
<1>2. Sourced => Sourced'
  BY DEF OwnStep, SameCommand, Sourced
<1> QED
  BY <1>1, <1>2

\* What the end of a recipe makes of the command.
LEMMA EndedAt ==
  ASSUME Shape, NEW result
  PROVE  LET new == Ended(result) IN
         /\ DOMAIN new = CmdFields /\ new = [x \in CmdFields |-> new[x]]
         /\ new.at = IF InDirectory THEN "next" ELSE IF result = "ok" THEN "done" ELSE "failed"
         /\ new.how = cmd.how /\ new.target = cmd.target /\ new.sel = cmd.sel
         /\ new.stdin = cmd.stdin /\ new.nth = cmd.nth
         /\ new.variants = <<>> /\ new.due = 1 /\ new.points = {}
         /\ new.results = Append(cmd.results, result)
<1> DEFINE place == IF InDirectory THEN "next" ELSE IF result = "ok" THEN "done" ELSE "failed"
           results == Append(cmd.results, result)
           new == [cmd EXCEPT !.at = place, !.variants = <<>>, !.due = 1, !.points = {},
                              !.comments = None, !.results = results]
<1>1. Ended(result) = new
  BY DEF Ended
<1>2. DOMAIN cmd = CmdFields
  BY DEF Shape
<1> HIDE DEF place, results
<1>3. /\ DOMAIN new = CmdFields /\ new = [x \in CmdFields |-> new[x]]
      /\ new.at = place
      /\ new.how = cmd.how /\ new.target = cmd.target /\ new.sel = cmd.sel
      /\ new.stdin = cmd.stdin /\ new.nth = cmd.nth
      /\ new.variants = <<>> /\ new.due = 1 /\ new.points = {} /\ new.results = results
  BY <1>2 DEF CmdFields
<1> QED
  BY <1>1, <1>3 DEF place, results

LEMMA Appended ==
  ASSUME NEW R, NEW s \in Seq(R), NEW x \in R
  PROVE  /\ Len(s) \in Nat /\ Append(s, x) \in Seq(R)
         /\ Len(Append(s, x)) = Len(s) + 1 /\ Append(s, x)[Len(s) + 1] = x
         /\ \A i \in 1..Len(s) : Append(s, x)[i] = s[i]
OBVIOUS

LEMMA FirstToLast ==
  ASSUME NEW N \in Nat, NEW k \in 1..N, NEW n, n = k - 1
  PROVE  n \in Nat /\ n + 1 = k /\ (N = 1 => k = N)
OBVIOUS

LEMMA LengthIsNat ==
  ASSUME NEW R, NEW s \in Seq(R)
  PROVE  Len(s) \in Nat /\ DOMAIN s = 1..Len(s)
OBVIOUS

LEMMA UpToNext ==
  ASSUME NEW n \in Nat, NEW i \in 1..(n + 1)
  PROVE  i \in 1..n \/ i = n + 1
OBVIOUS

\* The command is where the end of a recipe takes it.
EndsAs(result) ==
    /\ DOMAIN cmd' = CmdFields /\ cmd' = [x \in CmdFields |-> cmd'[x]]
    /\ InDirectory => cmd'.at = "next"
    /\ ~InDirectory => cmd'.at = IF result = "ok" THEN "done" ELSE "failed"
    /\ cmd'.how = cmd.how /\ cmd'.target = cmd.target /\ cmd'.sel = cmd.sel
    /\ cmd'.stdin = cmd.stdin /\ cmd'.nth = cmd.nth
    /\ cmd'.variants = <<>> /\ cmd'.due = 1 /\ cmd'.points = {}
    /\ cmd'.results = Append(cmd.results, result)

LEMMA EndedEndsAs ==
  ASSUME Shape, NEW result,
         cmd' = Ended(result) \/ \E out : cmd' = [Ended(result) EXCEPT !.out = out]
  PROVE  EndsAs(result)
<1> DEFINE new == Ended(result)
<1>1. /\ DOMAIN new = CmdFields /\ new = [x \in CmdFields |-> new[x]]
      /\ InDirectory => new.at = "next"
      /\ ~InDirectory => new.at = IF result = "ok" THEN "done" ELSE "failed"
      /\ new.how = cmd.how /\ new.target = cmd.target /\ new.sel = cmd.sel
      /\ new.stdin = cmd.stdin /\ new.nth = cmd.nth
      /\ new.variants = <<>> /\ new.due = 1 /\ new.points = {}
      /\ new.results = Append(cmd.results, result)
  BY EndedAt
<1> HIDE DEF new
<1>2. cmd' = new \/ \E out : cmd' = [new EXCEPT !.out = out]
  BY DEF new
<1>3. CASE cmd' = new
  BY <1>1, <1>3 DEF EndsAs
<1>4. CASE \E out : cmd' = [new EXCEPT !.out = out]
  BY <1>1, <1>4 DEF CmdFields, EndsAs
<1> QED
  BY <1>2, <1>3, <1>4

\* A recipe comes to an end: its result is the verdict on it.
Ending(result) ==
    /\ IInv /\ XInv /\ UNCHANGED <<file, edits, jobs>>
    /\ result \in {"ok", "rejected", "not submitted"} /\ EndsAs(result)
    /\ cmd.at \notin {"next", "done", "failed"} /\ (InDirectory => Submits)
    /\ cmd.target = 0 /\ Submits /\ Fresh /\ Unambiguous(Read) =>
         /\ result = "rejected" => ~Good(Read, cmd.sel, cmd.how)
         /\ result = "ok" => Taken(Read, cmd.nth)
    /\ result = "ok" => Rendered'

LEMMA EndsWell ==
  ASSUME NEW result, Ending(result)
  PROVE  XInv'
<1>0. /\ Shape /\ Placed /\ Sourced /\ Results
  BY DEF Ending, IInv, XInv
<1>1. /\ DOMAIN cmd' = CmdFields /\ cmd' = [x \in CmdFields |-> cmd'[x]]
      /\ cmd'.how = cmd.how /\ cmd'.target = cmd.target /\ cmd'.sel = cmd.sel
      /\ cmd'.stdin = cmd.stdin /\ cmd'.nth = cmd.nth
      /\ cmd'.variants = <<>> /\ cmd'.due = 1 /\ cmd'.points = {}
      /\ cmd'.results = Append(cmd.results, result)
  BY DEF Ending, EndsAs
<1>2. OwnStep
  BY <1>1 DEF Ending, OwnStep, SameCommand
<1>3. /\ Read' = Read /\ (Fresh' <=> Fresh) /\ (InDirectory' <=> InDirectory) /\ (Submits' <=> Submits)
      /\ Grown /\ Sourced'
  BY <1>0, <1>2, OwnStepKeeps
<1>4. cmd'.at \in {"next", "done", "failed"} /\ (cmd'.at = "next" <=> InDirectory)
      /\ (cmd'.at = "done" => result = "ok")
  BY DEF Ending, EndsAs
<1>5. Placed'
  BY <1>0, <1>1, <1>3, <1>4 DEF Ending, Placed, Worked, AtItem
<1>6. Fresh' => Reading' /\ Progress'
  BY <1>4 DEF Reading, Progress, Worked, AtItem
<1>7. Rendered'
  BY <1>4 DEF Ending, Rendered
<1>8. Results'
  <2> DEFINE n == Len(cmd.results)
             R == {"ok", "rejected", "not submitted"}
  <2>a. cmd.results \in Seq(R) /\ n = cmd.nth - 1
    BY <1>0 DEF Ending, Results
  <2>b. cmd.nth \in 1..Len(file.of) /\ Len(file.of) \in Nat
    <3>1. file.of \in Seq(Recipes) /\ cmd.nth \in 1..Len(file.of)
      BY <1>0 DEF Sourced
    <3> QED
      BY <3>1, LengthIsNat
  <2>c. /\ Len(Append(cmd.results, result)) = n + 1 /\ n \in Nat
        /\ Append(cmd.results, result) \in Seq(R)
        /\ Append(cmd.results, result)[n + 1] = result
        /\ \A i \in 1..n : Append(cmd.results, result)[i] = cmd.results[i]
    <3> HIDE DEF R
    <3>1. result \in R
      BY DEF Ending, R
    <3>2. cmd.results \in Seq(R)
      BY <2>a
    <3> QED
      BY <3>1, <3>2, Appended
  <2>1. cmd.results \in Seq(R) /\ n = cmd.nth - 1 /\ cmd.nth \in 1..Len(file.of) /\ Len(file.of) \in Nat
    BY <2>a, <2>b
  <2>2. /\ cmd'.results \in Seq(R) /\ Len(cmd'.results) = n + 1 /\ n \in Nat
        /\ cmd'.results[n + 1] = result
        /\ \A i \in 1..n : cmd'.results[i] = cmd.results[i]
    BY <1>1, <2>c
  <2> HIDE DEF n
  <2>3. Len(cmd'.results) = cmd.nth
    <3> DEFINE N == Len(file.of)
    <3>1. N \in Nat /\ cmd.nth \in 1..N
      BY <2>1
    <3> HIDE DEF N
    <3>2. n = cmd.nth - 1
      BY <2>1
    <3>3. n + 1 = cmd.nth
      BY <3>1, <3>2
    <3>4. Len(cmd'.results) = n + 1
      BY <2>2
    <3> QED
      BY <3>3, <3>4
  <2>4. cmd'.at = "done" => cmd.nth = Len(file.of)
    <3>1. cmd'.at = "done" => ~file.dir
      BY <1>0, <1>4 DEF Ending, InDirectory, Placed
    <3>2. file.dir \/ Len(file.of) = 1
      BY <1>0 DEF Sourced
    <3> DEFINE N == Len(file.of)
    <3>3. N \in Nat /\ cmd.nth \in 1..N
      BY <2>b
    <3>a. file.dir \/ N = 1
      BY <3>2
    <3> HIDE DEF N
    <3>4. N = 1 => cmd.nth = N
      BY <3>3
    <3>5. cmd'.at = "done" => N = 1
      BY <3>1, <3>a
    <3> QED
      BY <3>4, <3>5 DEF N
  <2>5. ASSUME cmd.target = 0, Submits, Fresh, NEW i \in 1..(n + 1)
        PROVE  Verdict(i)'
    <3>1. CASE i \in 1..n
      <4>1. Verdict(i)
        BY <1>0, <2>5, <3>1 DEF Results, n
      <4>2. cmd'.results[i] = cmd.results[i]
        BY <2>2, <3>1
      <4> QED
        BY <1>1, <1>3, <4>1, <4>2, VerdictStays DEF Ending
    <3>2. CASE i = n + 1
      <4>1. i = cmd.nth /\ cmd'.results[i] = result
        BY <1>1, <2>2, <2>3, <3>2
      <4>2. SourceAt(i)' = Read
        BY <1>1, <2>5, <4>1 DEF Ending, SourceAt, Read
      <4>3. Taken(Read, cmd.nth) => Taken(Read, cmd.nth)'
        BY <1>1, <1>3, SubmittedStays DEF Taken
      <4>4. Good(Read, cmd.sel, cmd.how)' <=> Good(Read, cmd.sel, cmd.how)
        BY <1>1, <1>3
      <4> QED
        BY <1>1, <1>3, <2>5, <4>1, <4>2, <4>3, <4>4 DEF Ending, Verdict
    <3> QED
      BY <2>2, <2>5, <3>1, <3>2, UpToNext
  <2>6. Len(cmd'.results) = n + 1
    BY <2>2
  <2>7. file' = file /\ cmd'.nth = cmd.nth /\ cmd'.target = cmd.target
    BY <1>1 DEF Ending
  <2>8. cmd'.at = "next" => Len(cmd'.results) = cmd'.nth
    BY <2>3, <2>7
  <2>9. cmd'.at = "done" => Len(cmd'.results) = Len(file'.of)
    BY <2>3, <2>4, <2>7
  <2>10. (cmd.target = 0 /\ Submits /\ Fresh)' => \A i \in 1..Len(cmd'.results) : Verdict(i)'
    BY <1>3, <2>5, <2>6, <2>7
  <2> QED
    BY <1>4, <2>2, <2>8, <2>9, <2>10 DEF Results
<1> QED
  BY <1>3, <1>5, <1>6, <1>7, <1>8 DEF XInv

\* The command moves on, with what it has.
MovesTo(at) ==
    /\ DOMAIN cmd' = CmdFields /\ cmd' = [x \in CmdFields |-> cmd'[x]]
    /\ cmd'.at = at
    /\ \A x \in CmdFields \ {"at", "comments", "item", "out"} : cmd'[x] = cmd[x]

Going(at) ==
    /\ IInv /\ XInv /\ UNCHANGED <<file, edits, jobs>> /\ MovesTo(at)
    /\ at \in {"failed", "generate", "sweep", "single", "comments", "plain", "render", "finish"}
    /\ cmd.at \notin {"next", "done", "failed"}
    /\ at # "failed" => cmd.at \notin Worked \cup {"write out", "render"}
    /\ at \in {"generate", "sweep", "single"} => Submits
    /\ at \in {"render", "finish"} => ~Submits /\ ~InDirectory
    /\ at = "render" => cmd.how.verb = "bash"
    /\ at = "finish" => cmd.how.verb = "preflight"
    /\ at \in {"comments", "plain"} =>
         Submits \/ (cmd.how.verb \in {"resolve-override", "bash"} /\ ~InDirectory)
    /\ Fresh => Reading'

LEMMA MovesKeeps ==
  ASSUME NEW at, MovesTo(at), UNCHANGED <<file, edits, jobs>>
  PROVE  /\ OwnStep /\ cmd'.at = at
         /\ cmd'.how = cmd.how /\ cmd'.target = cmd.target /\ cmd'.sel = cmd.sel
         /\ cmd'.stdin = cmd.stdin /\ cmd'.nth = cmd.nth
         /\ cmd'.variants = cmd.variants /\ cmd'.due = cmd.due /\ cmd'.points = cmd.points
         /\ cmd'.results = cmd.results
BY DEF MovesTo, OwnStep, SameCommand, CmdFields

LEMMA Moved ==
  ASSUME Shape, NEW at, cmd' = [cmd EXCEPT !.at = at]
  PROVE  MovesTo(at)
BY DEF Shape, MovesTo, CmdFields

\* A step of the command that is not the end of a recipe leaves the verdicts as they are.
LEMMA ResultsStay ==
  ASSUME Results, Grown, UNCHANGED file, Fresh' => Fresh, Submits' => Submits,
         cmd'.how = cmd.how, cmd'.target = cmd.target, cmd'.sel = cmd.sel,
         cmd'.stdin = cmd.stdin, cmd'.nth = cmd.nth, cmd'.results = cmd.results,
         cmd.at \notin {"next", "done", "failed"}, cmd'.at \notin {"next", "done"}
  PROVE  Results'
<1>1. ASSUME cmd.target = 0, Submits, Fresh, NEW i \in 1..Len(cmd.results)
      PROVE  Verdict(i)'
  BY <1>1, VerdictStays DEF Results
<1> QED
  BY <1>1 DEF Results

\* The command goes on to a place where there is nothing queued, shown or submitted yet.
LEMMA GoesWell ==
  ASSUME NEW at, Going(at)
  PROVE  XInv'
<1>0. /\ Placed /\ Sourced /\ Results
  BY DEF Going, XInv
<1>1. /\ OwnStep /\ cmd'.at = at
      /\ cmd'.how = cmd.how /\ cmd'.target = cmd.target /\ cmd'.sel = cmd.sel
      /\ cmd'.stdin = cmd.stdin /\ cmd'.nth = cmd.nth
      /\ cmd'.variants = cmd.variants /\ cmd'.due = cmd.due /\ cmd'.points = cmd.points
      /\ cmd'.results = cmd.results
  BY MovesKeeps DEF Going
<1>2. /\ Read' = Read /\ (Fresh' <=> Fresh) /\ (InDirectory' <=> InDirectory) /\ (Submits' <=> Submits)
      /\ Grown /\ Sourced' /\ file' = file
  BY <1>0, <1>1, OwnStepKeeps DEF Going
<1>a. at \notin Worked \cup {"write out", "next", "done"}
  BY DEF Going, Worked, AtItem
<1>3. Placed'
  <2>1. at # "failed" => cmd'.variants = <<>> /\ cmd'.due = 1 /\ cmd'.points = {}
    BY <1>0, <1>1 DEF Going, Placed
  <2> QED
    BY <1>0, <1>1, <1>2, <1>a, <2>1 DEF Going, Placed, Worked, AtItem
<1>4. Progress' /\ Rendered'
  BY <1>1, <1>a DEF Progress, Rendered
<1>5. Results'
  BY <1>0, <1>1, <1>2, <1>a, ResultsStay DEF Going
<1>6. Fresh' => Reading'
  BY <1>2 DEF Going
<1> QED
  BY <1>2, <1>3, <1>4, <1>5, <1>6 DEF XInv

\* The command goes on to a place where it deals with what the recipe stands for.
Working(at) ==
    /\ IInv /\ XInv /\ UNCHANGED <<file, edits>> /\ Grown /\ SameCommand
    /\ DOMAIN cmd' = CmdFields /\ cmd' = [x \in CmdFields |-> cmd'[x]]
    /\ cmd.target # 0 => jobs'[cmd.target] = jobs[cmd.target]
    /\ cmd'.at = at /\ cmd'.results = cmd.results
    /\ cmd.at \notin {"next", "done", "failed"}
    /\ at \in Worked \cup {"write out", "render"}
    /\ at \in Worked => Submits
    /\ at = "shown" => cmd.how.verb = "dry-run"
    /\ at \in AtItem \ {"shown"} => cmd.how.verb = "apply"
    /\ at = "preflight" => cmd.how.enforce
    /\ at \in {"write out", "render"} => ~Submits /\ ~InDirectory
    /\ at = "write out" => cmd.how.verb = "resolve-override"
    /\ at = "render" => cmd.how.verb = "bash"
    /\ Sourced' /\ (Fresh => Reading' /\ Progress')

LEMMA WorksWell ==
  ASSUME NEW at, Working(at)
  PROVE  XInv'
<1>0. /\ Placed /\ Sourced /\ Results
  BY DEF Working, XInv
<1>1. /\ cmd'.at = at /\ file' = file
      /\ cmd'.how = cmd.how /\ cmd'.target = cmd.target /\ cmd'.sel = cmd.sel
      /\ cmd'.stdin = cmd.stdin /\ cmd'.nth = cmd.nth
      /\ cmd'.results = cmd.results
  BY DEF Working, SameCommand
<1>2. /\ (Fresh' <=> Fresh) /\ (InDirectory' <=> InDirectory) /\ (Submits' <=> Submits)
  BY SameCommandKeeps DEF Working
<1>a. at \notin {"next", "done", "failed", "finish", "comments", "plain", "generate", "sweep", "single"}
  BY DEF Working, Worked, AtItem
<1>3. Placed'
  BY <1>0, <1>1, <1>2, <1>a DEF Working, Placed, Worked, AtItem
<1>4. Rendered'
  BY <1>1, <1>a DEF Rendered
<1>5. Results'
  BY <1>0, <1>1, <1>2, <1>a, ResultsStay DEF Working
<1> QED
  BY <1>2, <1>3, <1>4, <1>5 DEF Working, XInv

-----------------------------------------------------------------------------
(* The steps of the expansion: editing, applying, dispatching              *)

LEMMA EditIsKept ==
  ASSUME IInv, XInv, Edit
  PROVE  XInv'
<1>1. /\ cmd.target = 0 /\ ~file.dir /\ ~cmd.how.stdin /\ edits' = edits + 1
      /\ UNCHANGED <<cmd, jobs>>
  BY DEF Edit
<1>2. PICK new \in Edits \ Range(file.of) : file' = [file EXCEPT !.of[1] = new]
  BY DEF Edit
<1>3. Placed /\ Sourced /\ Results
  BY DEF XInv
<1>4. file.of \in Seq(Recipes) /\ file.of # <<>> /\ DOMAIN file = {"dir", "of"}
  BY <1>3 DEF Sourced
<1> DEFINE of == [file.of EXCEPT ![1] = new]
<1>5. new \in Recipes
  BY DEF Recipes
<1>6. of \in Seq(Recipes) /\ Len(of) = Len(file.of) /\ of # <<>>
  BY <1>4, <1>5
<1>7. file'.dir = file.dir /\ file'.of = of /\ DOMAIN file' = {"dir", "of"}
  BY <1>2, <1>4
<1> HIDE DEF of
<1>8. ~Fresh'
  <2>1. edits \in Nat
    BY DEF IInv, Shape
  <2> QED
    BY <1>1, <2>1 DEF Fresh
<1>9. Placed'
  BY <1>1, <1>3, <1>7 DEF Placed, InDirectory, Submits, Worked, AtItem
<1>10. Sourced'
  BY <1>1, <1>3, <1>6, <1>7 DEF Sourced, Ran
<1>11. Results' /\ Rendered'
  BY <1>1, <1>3, <1>6, <1>7, <1>8 DEF Results, Rendered
<1> QED
  BY <1>8, <1>9, <1>10, <1>11 DEF XInv

LEMMA ApplyIsKept ==
  ASSUME IInv, XInv, Apply
  PROVE  XInv'
<1>0. Sourced
  BY DEF XInv
<1>1. PICK target \in 0..Len(jobs), sel \in Selectors, how \in Commands \cup {Plainly} :
        /\ how.stdin => ~file.dir
        /\ target # 0 => ~file.dir
        /\ cmd' = [Idle EXCEPT !.at = "dispatch", !.target = target, !.how = how,
                               !.sel = IF target = 0 /\ file.dir THEN All ELSE sel,
                               !.stdin = IF how.stdin THEN file.of[1] ELSE None,
                               !.runs = cmd.runs + 1]
        /\ UNCHANGED <<file, edits, jobs>>
  BY DEF Apply, Plainly
<1>2. /\ cmd'.at = "dispatch" /\ cmd'.target = target /\ cmd'.how = how /\ cmd'.nth = 1
      /\ cmd'.sel \in Selectors /\ (how.stdin => cmd'.stdin = file.of[1])
      /\ cmd'.variants = <<>> /\ cmd'.due = 1 /\ cmd'.points = {} /\ cmd'.results = <<>>
  BY <1>1, SelectorsAssumption DEF Idle
<1>3. Placed'
  BY <1>1, <1>2 DEF Placed, Worked, AtItem
<1>4. Sourced'
  <2>1. Len(file.of) \in Nat \ {0} /\ file.of[1] \in Recipes
    BY <1>0 DEF Sourced
  <2> DEFINE N == Len(file.of)
  <2>2. N \in Nat \ {0}
    BY <2>1
  <2>3. 1 \in 1..Len(file.of)
    <3> HIDE DEF N
    <3>1. 1 \in 1..N
      BY <2>2
    <3> QED
      BY <3>1 DEF N
  <2>4. cmd'.nth \in 1..Len(file'.of)
    BY <1>1, <1>2, <2>3
  <2>5. cmd'.how.stdin => cmd'.stdin \in Recipes /\ ~file.dir
    BY <1>1, <1>2, <2>1
  <2> QED
    BY <1>0, <1>1, <1>2, <2>4, <2>5 DEF Sourced, Ran
<1>5. Reading' /\ Progress' /\ Rendered'
  BY <1>2 DEF Reading, Progress, Rendered, Worked, AtItem
<1>6. Results'
  BY <1>2 DEF Results
<1> QED
  BY <1>3, <1>4, <1>5, <1>6 DEF XInv

LEMMA RefuseDirectoryIsKept ==
  ASSUME IInv, XInv, RefuseDirectory
  PROVE  XInv'
<1>1. cmd.at = "dispatch" /\ cmd' = [cmd EXCEPT !.at = "failed"] /\ UNCHANGED <<file, edits, jobs>>
  BY DEF RefuseDirectory, Goes
<1>2. MovesTo("failed")
  BY <1>1, Moved DEF IInv
<1>3. Reading'
  BY <1>2 DEF MovesTo, Reading, Worked, AtItem
<1>4. Going("failed")
  BY <1>1, <1>2, <1>3 DEF Going
<1> QED
  BY <1>4, GoesWell

\* A sweep is not for --serve-only, and --sweep is for sweeps.
LEMMA NoServedSweep ==
  ASSUME NEW source, NEW sel, NEW how, ~source.override, how.serve, how.sweep \/ SweepParams(source.top) # {}
  PROVE  ~Good(source, sel, how)
<1>1. Meant(source, sel) = {source.top}
  BY DEF Meant
<1>2. SweepParams(source.top) = {} => ~Good(source, sel, how)
  BY DEF Good
<1>3. SweepParams(source.top) # {} => ~Good(source, sel, how)
  BY <1>1 DEF Good, Fit
<1> QED
  BY <1>2, <1>3

LEMMA DispatchIsKept ==
  ASSUME IInv, XInv, Dispatch
  PROVE  XInv'
<1>0. cmd.at = "dispatch" /\ Submits /\ Shape
  BY DEF Dispatch, IInv
<1>1. CASE Read.override
  <2>1. cmd' = [cmd EXCEPT !.at = "generate"] /\ UNCHANGED <<file, edits, jobs>>
    BY <1>1 DEF Dispatch, Goes
  <2>2. MovesTo("generate")
    BY <1>0, <2>1, Moved
  <2>3. Read' = Read
    BY <2>1, <2>2, MovesKeeps, OwnStepKeeps
  <2>4. Reading'
    BY <1>1, <2>2, <2>3 DEF MovesTo, Reading, Worked, AtItem
  <2>5. Going("generate")
    BY <1>0, <2>1, <2>2, <2>4 DEF Going, Worked, AtItem
  <2> QED
    BY <2>5, GoesWell
<1>2. CASE ~Read.override /\ (cmd.how.sweep \/ SweepParams(Read.top) # {})
  <2>1. UNCHANGED <<file, edits, jobs>> /\
        cmd' = IF ~cmd.how.serve THEN [cmd EXCEPT !.at = "sweep"] ELSE Rejected
    BY <1>2 DEF Dispatch, GoesOr
  <2>2. CASE cmd.how.serve
    <3>1. EndsAs("rejected")
      BY <1>0, <2>1, <2>2, EndedEndsAs DEF Rejected
    <3>2. ~Good(Read, cmd.sel, cmd.how)
      BY <1>2, <2>2, NoServedSweep
    <3>3. Ending("rejected")
      BY <1>0, <2>1, <3>1, <3>2 DEF Ending
    <3> QED
      BY <3>3, EndsWell
  <2>3. CASE ~cmd.how.serve
    <3>1. cmd' = [cmd EXCEPT !.at = "sweep"]
      BY <2>1, <2>3
    <3>2. MovesTo("sweep")
      BY <1>0, <3>1, Moved
    <3>3. Read' = Read /\ cmd'.how = cmd.how
      BY <2>1, <3>2, MovesKeeps, OwnStepKeeps
    <3>4. Reading'
      BY <1>2, <2>3, <3>2, <3>3 DEF MovesTo, Reading, Worked, AtItem
    <3>5. Going("sweep")
      BY <1>0, <2>1, <3>2, <3>4 DEF Going, Worked, AtItem
    <3> QED
      BY <3>5, GoesWell
  <2> QED
    BY <2>2, <2>3
<1>3. CASE ~Read.override /\ ~(cmd.how.sweep \/ SweepParams(Read.top) # {})
  <2>1. cmd' = [cmd EXCEPT !.at = "single"] /\ UNCHANGED <<file, edits, jobs>>
    BY <1>3 DEF Dispatch, Goes
  <2>2. MovesTo("single")
    BY <1>0, <2>1, Moved
  <2>3. Read' = Read /\ cmd'.how = cmd.how
    BY <2>1, <2>2, MovesKeeps, OwnStepKeeps
  <2>4. Reading'
    BY <1>3, <2>2, <2>3 DEF MovesTo, Reading, Worked, AtItem
  <2>5. Going("single")
    BY <1>0, <2>1, <2>2, <2>4 DEF Going, Worked, AtItem
  <2> QED
    BY <2>5, GoesWell
<1> QED
  BY <1>1, <1>2, <1>3

-----------------------------------------------------------------------------
(* Resolving, preflighting, the next file, generating                      *)

LEMMA DispatchResolveIsKept ==
  ASSUME IInv, XInv, DispatchResolve
  PROVE  XInv'
<1>0. /\ cmd.at = "dispatch" /\ Shape /\ Placed /\ ~InDirectory /\ ~Submits
      /\ cmd.how.verb \in {"resolve-override", "bash"}
  BY DEF DispatchResolve, IInv, XInv, Submits
<1>1. CASE Read.override
  <2>1. cmd' = [cmd EXCEPT !.at = "comments"] /\ UNCHANGED <<file, edits, jobs>>
    BY <1>1 DEF DispatchResolve, Goes
  <2>2. MovesTo("comments")
    BY <1>0, <2>1, Moved
  <2>3. Read' = Read /\ (Submits' <=> Submits)
    BY <2>1, <2>2, MovesKeeps, OwnStepKeeps
  <2>4. Reading'
    BY <1>0, <1>1, <2>2, <2>3 DEF MovesTo, Reading, Worked, AtItem
  <2>5. Going("comments")
    BY <1>0, <2>1, <2>2, <2>4 DEF Going, Worked, AtItem
  <2> QED
    BY <2>5, GoesWell
<1>2. CASE ~Read.override
  <2>1. UNCHANGED <<file, edits, jobs>> /\
        cmd' = IF cmd.how.verb = "bash" THEN [cmd EXCEPT !.at = "render"] ELSE Rejected
    BY <1>2 DEF DispatchResolve, GoesOr
  <2>2. CASE cmd.how.verb # "bash"
    <3>1. EndsAs("rejected")
      BY <1>0, <2>1, <2>2, EndedEndsAs DEF Rejected
    <3>2. Ending("rejected")
      BY <1>0, <2>1, <3>1 DEF Ending
    <3> QED
      BY <3>2, EndsWell
  <2>3. CASE cmd.how.verb = "bash"
    <3>1. cmd' = [cmd EXCEPT !.at = "render"]
      BY <2>1, <2>3
    <3>2. MovesTo("render")
      BY <1>0, <3>1, Moved
    <3>3. Read' = Read /\ cmd'.how = cmd.how /\ cmd'.variants = cmd.variants
      BY <2>1, <3>2, MovesKeeps, OwnStepKeeps
    <3>4. cmd.variants = <<>>
      BY <1>0 DEF Placed, Worked, AtItem
    <3>5. Reading'
      BY <1>2, <3>2, <3>3, <3>4 DEF MovesTo, Reading, Worked, AtItem
    <3>6. Going("render")
      BY <1>0, <2>1, <2>3, <3>2, <3>5 DEF Going, Worked, AtItem
    <3> QED
      BY <3>6, GoesWell
  <2> QED
    BY <2>2, <2>3
<1> QED
  BY <1>1, <1>2

LEMMA DispatchPreflightIsKept ==
  ASSUME IInv, XInv, DispatchPreflight
  PROVE  XInv'
<1>0. cmd.at = "dispatch" /\ Shape /\ ~InDirectory /\ ~Submits /\ cmd.how.verb = "preflight"
  BY DEF DispatchPreflight, IInv, Submits
<1>1. /\ UNCHANGED <<file, edits, jobs>>
      /\ cmd' = [cmd EXCEPT !.at = "finish"] \/ cmd' = Rejected
  BY DEF DispatchPreflight, GoesOr
<1>2. CASE cmd' = Rejected
  <2>1. EndsAs("rejected")
    BY <1>0, <1>2, EndedEndsAs DEF Rejected
  <2>2. Ending("rejected")
    BY <1>0, <1>1, <2>1 DEF Ending
  <2> QED
    BY <2>2, EndsWell
<1>3. CASE cmd' = [cmd EXCEPT !.at = "finish"]
  <2>1. MovesTo("finish")
    BY <1>0, <1>3, Moved
  <2>2. Reading'
    BY <2>1 DEF MovesTo, Reading, Worked, AtItem
  <2>3. Going("finish")
    BY <1>0, <1>1, <2>1, <2>2 DEF Going, Worked, AtItem
  <2> QED
    BY <2>3, GoesWell
<1> QED
  BY <1>1, <1>2, <1>3

LEMMA NotYetTheLast ==
  ASSUME NEW N \in Nat, NEW k \in 1..N
  PROVE  /\ k < N => k + 1 \in 1..N
         /\ ~(k < N) => k = N
         /\ k = (k + 1) - 1
OBVIOUS

LEMMA NextFileIsKept ==
  ASSUME IInv, XInv, NextFile
  PROVE  XInv'
<1>0. /\ cmd.at = "next" /\ Placed /\ Sourced /\ Results /\ UNCHANGED <<file, edits, jobs>>
      /\ DOMAIN cmd = CmdFields
  BY DEF NextFile, IInv, Shape, XInv
<1>1. InDirectory /\ Submits /\ cmd.variants = <<>> /\ cmd.due = 1 /\ cmd.points = {}
  BY <1>0 DEF Placed, Worked, AtItem
<1> DEFINE N == Len(file.of)
           more == cmd.nth < N
<1>2. N \in Nat /\ cmd.nth \in 1..N
  BY <1>0, LengthIsNat DEF Sourced
<1>3. cmd' = IF more THEN [cmd EXCEPT !.at = "dispatch", !.nth = @ + 1] ELSE [cmd EXCEPT !.at = "done"]
  BY DEF NextFile
<1> HIDE DEF N, more
<1>4. /\ cmd'.how = cmd.how /\ cmd'.target = cmd.target /\ cmd'.sel = cmd.sel
      /\ cmd'.stdin = cmd.stdin /\ cmd'.results = cmd.results
      /\ cmd'.variants = <<>> /\ cmd'.due = 1 /\ cmd'.points = {}
      /\ more => cmd'.at = "dispatch" /\ cmd'.nth = cmd.nth + 1
      /\ ~more => cmd'.at = "done" /\ cmd'.nth = cmd.nth
  BY <1>0, <1>1, <1>3 DEF CmdFields
<1>5. /\ more => cmd.nth + 1 \in 1..N
      /\ ~more => cmd.nth = N
      /\ cmd.nth = (cmd.nth + 1) - 1
  BY <1>2, NotYetTheLast DEF more
<1>6. cmd'.nth \in 1..N
  BY <1>2, <1>4, <1>5
<1>7. (Fresh' <=> Fresh) /\ (InDirectory' <=> InDirectory) /\ (Submits' <=> Submits) /\ Grown
  BY <1>0, <1>4 DEF Fresh, InDirectory, Submits, Grown
<1>a. cmd'.at \in {"dispatch", "done"}
  BY <1>4
<1>8. Placed'
  BY <1>0, <1>1, <1>4, <1>7, <1>a DEF Placed, Worked, AtItem
<1>9. Sourced'
  <2>1. cmd'.nth \in 1..Len(file'.of)
    BY <1>0, <1>6 DEF N
  <2> QED
    BY <1>0, <1>4, <2>1 DEF Sourced, Ran
<1>10. Reading' /\ Progress'
  BY <1>a DEF Reading, Progress, Worked, AtItem
<1>11. Rendered'
  BY <1>1, <1>4 DEF Rendered, Submits
<1>12. Results'
  <2>1. Len(cmd.results) = cmd.nth /\ cmd.results \in Seq({"ok", "rejected", "not submitted"})
    BY <1>0 DEF Results
  <2>2. cmd'.at = "dispatch" => Len(cmd'.results) = cmd'.nth - 1
    BY <1>4, <1>5, <2>1
  <2>3. cmd'.at = "done" => Len(cmd'.results) = Len(file'.of)
    BY <1>0, <1>4, <1>5, <2>1 DEF N
  <2>4. ASSUME cmd.target = 0, Submits, Fresh, NEW i \in 1..Len(cmd.results)
        PROVE  Verdict(i)'
    BY <1>0, <1>4, <1>7, <2>4, VerdictStays DEF Results
  <2> QED
    BY <1>4, <1>7, <1>a, <2>1, <2>2, <2>3, <2>4 DEF Results
<1> QED
  BY <1>8, <1>9, <1>10, <1>11, <1>12 DEF XInv

LEMMA GenerateIsKept ==
  ASSUME IInv, XInv, Generate
  PROVE  XInv'
<1>0. /\ cmd.at = "generate" /\ Shape /\ Submits /\ (Fresh => Read.override)
      /\ UNCHANGED <<file, edits, jobs>>
      /\ cmd' = IF Expandable(Read, cmd.sel) THEN [cmd EXCEPT !.at = "comments"] ELSE Rejected
  BY DEF Generate, GoesOr, IInv, XInv, Placed, Reading
<1>1. CASE ~Expandable(Read, cmd.sel)
  <2>1. EndsAs("rejected")
    BY <1>0, <1>1, EndedEndsAs DEF Rejected
  <2>2. Fresh => ~Good(Read, cmd.sel, cmd.how)
    BY <1>0, <1>1 DEF Good
  <2>3. Ending("rejected")
    BY <1>0, <2>1, <2>2 DEF Ending
  <2> QED
    BY <2>3, EndsWell
<1>2. CASE Expandable(Read, cmd.sel)
  <2>1. cmd' = [cmd EXCEPT !.at = "comments"]
    BY <1>0, <1>2
  <2>2. MovesTo("comments")
    BY <1>0, <2>1, Moved
  <2>3. Read' = Read /\ cmd'.sel = cmd.sel
    BY <1>0, <2>2, MovesKeeps, OwnStepKeeps
  <2>4. Fresh => Reading'
    BY <1>0, <1>2, <2>2, <2>3 DEF MovesTo, Reading, Worked, AtItem
  <2>5. Going("comments")
    BY <1>0, <2>2, <2>4 DEF Going, Worked, AtItem
  <2> QED
    BY <2>5, GoesWell
<1> QED
  BY <1>1, <1>2

LEMMA ReadCommentsIsKept ==
  ASSUME IInv, XInv, ReadComments
  PROVE  XInv'
<1>0. /\ cmd.at = "comments" /\ Shape /\ (Fresh => Reading) /\ UNCHANGED <<file, edits, jobs>>
      /\ Submits \/ (cmd.how.verb \in {"resolve-override", "bash"} /\ ~InDirectory)
      /\ cmd' = IF Read.override THEN [cmd EXCEPT !.at = "plain", !.comments = Read] ELSE Rejected
  BY DEF ReadComments, IInv, XInv, Placed
<1>1. CASE ~Read.override
  <2>1. EndsAs("rejected")
    BY <1>0, <1>1, EndedEndsAs DEF Rejected
  <2>2. ~Fresh
    BY <1>0, <1>1 DEF Reading
  <2>3. Ending("rejected")
    BY <1>0, <2>1, <2>2 DEF Ending
  <2> QED
    BY <2>3, EndsWell
<1>2. CASE Read.override
  <2>1. cmd' = [cmd EXCEPT !.at = "plain", !.comments = Read]
    BY <1>0, <1>2
  <2>2. MovesTo("plain") /\ cmd'.comments = Read
    BY <1>0, <2>1 DEF Shape, MovesTo, CmdFields
  <2>3. Read' = Read /\ cmd'.sel = cmd.sel /\ (Submits' <=> Submits)
    BY <1>0, <2>2, MovesKeeps, OwnStepKeeps
  <2>4. Fresh => Reading'
    BY <1>0, <1>2, <2>2, <2>3 DEF MovesTo, Reading, Worked, AtItem
  <2>5. Going("plain")
    BY <1>0, <2>2, <2>4 DEF Going, Worked, AtItem
  <2> QED
    BY <2>5, GoesWell
<1> QED
  BY <1>1, <1>2

-----------------------------------------------------------------------------
(* Reading the plain file, writing out, rendering                          *)

LEMMA LargestNumber ==
  ASSUME NEW L \in Nat, NEW I, I \subseteq 1..L, I # {}
  PROVE  Max(I) \in I
<1> DEFINE T == {L - i : i \in I}
<1>1. T \subseteq Nat /\ T # {}
  <2>1. \A i \in 1..L : L - i \in Nat
    OBVIOUS
  <2>2. \A i \in I : L - i \in Nat
    BY <2>1
  <2> QED
    BY <2>2
<1>2. PICK m \in T : \A t \in T : m <= t
  BY <1>1, LeastNumber
<1>3. PICK x \in I : m = L - x
  BY <1>2
<1>4. \A y \in I : x >= y
  <2> SUFFICES ASSUME NEW y \in I PROVE x >= y
    OBVIOUS
  <2>1. L - x <= L - y
    BY <1>2, <1>3
  <2>2. x \in Nat /\ y \in Nat
    OBVIOUS
  <2> QED
    BY <2>1, <2>2
<1> QED
  BY <1>3, <1>4 DEF Max

\* The items a command has read, one by one.
LEMMA ReadPlainItems ==
  ASSUME NEW source, NEW sel, NEW comments, comments = source,
         NEW variants,
         variants = [i \in DOMAIN generate_override_configs(source, sel) |->
                        Item("override", Commented(comments, generate_override_configs(source, sel)[i]),
                             generate_override_configs(source, sel)[i].suffix)]
  PROVE  variants = ItemsOf(source, sel)
BY DEF ItemsOf

LEMMA ReadPlainIsKept ==
  ASSUME IInv, XInv, ReadPlain
  PROVE  XInv'
<1> DEFINE plain == generate_override_configs(Read, cmd.sel)
           single == cmd.how.serve \/ cmd.how.verb = "bash"
           place == CASE Submits -> "check"
                      [] cmd.how.verb = "resolve-override" -> "write out"
                      [] OTHER -> "render"
           items == [i \in DOMAIN plain |-> Item("override", Commented(cmd.comments, plain[i]), plain[i].suffix)]
<1>0. /\ cmd.at = "plain" /\ Shape /\ (Fresh => Reading) /\ UNCHANGED <<file, edits, jobs>> /\ Sourced
      /\ Submits \/ (cmd.how.verb \in {"resolve-override", "bash"} /\ ~InDirectory)
      /\ cmd.due = 1 /\ cmd.points = {}
  BY DEF ReadPlain, IInv, XInv, Placed, Worked, AtItem
<1>1. cmd' = IF ~Expandable(Read, cmd.sel) \/ (single /\ Len(plain) # 1) THEN Rejected
             ELSE [cmd EXCEPT !.at = place, !.variants = items]
  BY DEF ReadPlain
<1>2. Fresh => Read.override /\ cmd.comments = Read
  BY <1>0 DEF Reading
<1>3. Fresh => items = ItemsOf(Read, cmd.sel)
  BY <1>2, ReadPlainItems
<1>4. Submits <=> cmd.how.verb \notin {"resolve-override", "bash"}
  BY <1>0 DEF Submits
<1>5. /\ Submits => place = "check"
      /\ cmd.how.verb = "resolve-override" => place = "write out"
      /\ cmd.how.verb = "bash" => place = "render"
  BY <1>4
<1> HIDE DEF place, items
<1>6. CASE ~Expandable(Read, cmd.sel) \/ (single /\ Len(plain) # 1)
  <2>1. EndsAs("rejected")
    BY <1>0, <1>1, <1>6, EndedEndsAs DEF Rejected
  <2>2. Submits /\ Fresh => ~Good(Read, cmd.sel, cmd.how)
    BY <1>2, <1>4, <1>6 DEF Good
  <2>3. Ending("rejected")
    BY <1>0, <2>1, <2>2 DEF Ending
  <2> QED
    BY <2>3, EndsWell
<1>7. CASE ~(~Expandable(Read, cmd.sel) \/ (single /\ Len(plain) # 1))
  <2>1. cmd' = [cmd EXCEPT !.at = place, !.variants = items]
    BY <1>1, <1>7
  <2>2. /\ DOMAIN cmd' = CmdFields /\ cmd' = [x \in CmdFields |-> cmd'[x]]
        /\ cmd'.at = place /\ cmd'.variants = items /\ cmd'.due = 1 /\ cmd'.points = {}
        /\ cmd'.how = cmd.how /\ cmd'.target = cmd.target /\ cmd'.sel = cmd.sel
        /\ cmd'.stdin = cmd.stdin /\ cmd'.nth = cmd.nth /\ cmd'.results = cmd.results
    BY <1>0, <2>1 DEF Shape, CmdFields
  <2>3. OwnStep /\ SameCommand
    BY <1>0, <2>2 DEF OwnStep, SameCommand
  <2>4. Read' = Read /\ (Fresh' <=> Fresh) /\ (InDirectory' <=> InDirectory) /\ Grown /\ Sourced'
    BY <1>0, <2>3, OwnStepKeeps
  <2>5. place \in {"check", "write out", "render"} /\ (place = "check" <=> Submits)
        /\ (place = "write out" => cmd.how.verb = "resolve-override") /\ (place = "render" => cmd.how.verb = "bash")
    BY <1>0, <1>4, <1>5
  <2>6. ASSUME Fresh PROVE Reading' /\ Progress'
    <3>1. Read.override /\ Expandable(Read, cmd.sel) /\ items = ItemsOf(Read, cmd.sel)
      BY <1>2, <1>3, <1>7, <2>6
    <3>2. single => Len(plain) = 1
      BY <1>7
    <3>3. Reading'
      BY <2>2, <2>4, <2>5, <3>1, <3>2 DEF Reading, Worked, AtItem
    <3>4. IsRecipe(Read) /\ cmd.sel \in Selectors
      BY <1>0, ReadIsRecipe DEF Sourced
    <3>5. Len(items) \in Nat
      BY <3>1, <3>4, ItemsAre
    <3>6. 1 \in 1..(Len(items) + 1)
      BY <3>5
    <3>7. \A k \in 1..(1 - 1) : FALSE
      OBVIOUS
    <3>8. place \notin AtItem
      BY <2>5 DEF AtItem
    <3>9. cmd'.due \in 1..(Len(cmd'.variants) + 1)
      BY <2>2, <3>6
    <3>10. \A k \in 1..(cmd'.due - 1) : FALSE
      BY <2>2, <3>7
    <3>11. Progress'
      BY <2>2, <2>4, <3>1, <3>8, <3>9, <3>10 DEF Progress, AtItem
    <3> QED
      BY <3>3, <3>11
  <2>7. place # "check" => ~InDirectory
    BY <1>0, <2>5
  <2>8. Working(place)
    BY <1>0, <2>2, <2>3, <2>4, <2>5, <2>6, <2>7 DEF Working, Worked, AtItem
  <2> QED
    BY <2>8, WorksWell
<1> QED
  BY <1>6, <1>7

\* Each resolved file is the last variant of its suffix, and there is but one.
LEMMA WrittenOut ==
  ASSUME NEW source, source.override, IsRecipe(source), NEW sel \in Selectors, Expandable(source, sel),
         Unambiguous(source), NEW variants, variants = ItemsOf(source, sel),
         NEW v \in Range(generate_override_configs(source, sel))
  PROVE  /\ \E i \in DOMAIN variants : variants[i].suffix = v.suffix
         /\ variants[Max({i \in DOMAIN variants : variants[i].suffix = v.suffix})].text = v.config
<1> DEFINE plain == generate_override_configs(source, sel)
           L == Len(plain)
           I == {i \in DOMAIN variants : variants[i].suffix = v.suffix}
<1>1. /\ L \in Nat /\ DOMAIN plain = 1..L /\ DOMAIN variants = 1..L
      /\ \A k \in 1..L : variants[k].suffix = plain[k].suffix /\ variants[k].text = plain[k].config
      /\ \A k, l \in 1..L : plain[k].suffix = plain[l].suffix => plain[k] = plain[l]
  BY ItemsAre
<1>2. PICK k \in DOMAIN plain : v = plain[k]
  BY DEF Range
<1> HIDE DEF plain, L
<1>3. I \subseteq 1..L /\ k \in I
  BY <1>1, <1>2
<1>4. Max(I) \in I
  BY <1>1, <1>3, LargestNumber
<1> QED
  BY <1>1, <1>2, <1>3, <1>4

LEMMA WriteOutIsKept ==
  ASSUME IInv, XInv, WriteOut
  PROVE  XInv'
<1> DEFINE suffixes == {cmd.variants[i].suffix : i \in DOMAIN cmd.variants}
           LastOf(s) == Max({i \in DOMAIN cmd.variants : cmd.variants[i].suffix = s})
           out == [s \in suffixes |-> cmd.variants[LastOf(s)].text]
<1>0. /\ cmd.at = "write out" /\ Shape /\ (Fresh => Reading) /\ UNCHANGED <<file, edits, jobs>> /\ Sourced
      /\ ~Submits /\ ~InDirectory /\ cmd.how.verb = "resolve-override"
  BY DEF WriteOut, IInv, XInv, Placed
<1>1. cmd' = [Ended("ok") EXCEPT !.out = out]
  BY DEF WriteOut
<1>2. cmd'.out = out
  <2>1. DOMAIN Ended("ok") = CmdFields
    BY <1>0, EndedAt
  <2> HIDE DEF out
  <2> QED
    BY <1>1, <2>1 DEF CmdFields
<1>3. EndsAs("ok")
  <2> HIDE DEF out
  <2> QED
    BY <1>0, <1>1, EndedEndsAs
<1>4. SameCommand /\ Read' = Read /\ (Fresh' <=> Fresh) /\ cmd'.sel = cmd.sel /\ cmd'.how = cmd.how
  <2>1. OwnStep
    BY <1>0, <1>3 DEF EndsAs, OwnStep, SameCommand
  <2> QED
    BY <1>3, <2>1, OwnStepKeeps DEF OwnStep, EndsAs
<1>5. Rendered'
  <2>1. ASSUME Fresh, Read.override, Unambiguous(Read),
               NEW v \in Range(generate_override_configs(Read, cmd.sel))
        PROVE  out[v.suffix] = v.config
    <3>1. cmd.variants = ItemsOf(Read, cmd.sel) /\ Expandable(Read, cmd.sel)
      BY <1>0, <2>1 DEF Reading
    <3>2. IsRecipe(Read) /\ cmd.sel \in Selectors
      BY <1>0, ReadIsRecipe DEF Sourced
    <3>3. /\ \E i \in DOMAIN cmd.variants : cmd.variants[i].suffix = v.suffix
          /\ cmd.variants[Max({i \in DOMAIN cmd.variants : cmd.variants[i].suffix = v.suffix})].text = v.config
      BY <2>1, <3>1, <3>2, WrittenOut
    <3>4. v.suffix \in suffixes
      BY <3>3
    <3> QED
      BY <3>3, <3>4
  <2>2. cmd.how.verb # "bash"
    BY <1>0
  <2> HIDE DEF out
  <2> QED
    BY <1>2, <1>4, <2>1, <2>2 DEF Rendered
<1>6. Ending("ok")
  BY <1>0, <1>3, <1>5 DEF Ending
<1> QED
  BY <1>6, EndsWell

LEMMA HeadOfOne ==
  ASSUME NEW S, NEW s \in Seq(S), Len(s) = 1
  PROVE  s # <<>> /\ Head(s) = s[1]
OBVIOUS

LEMMA OneItem ==
  ASSUME NEW source, source.override, IsRecipe(source), NEW sel \in Selectors, Expandable(source, sel),
         Unambiguous(source), NEW variants, variants = ItemsOf(source, sel),
         Len(generate_override_configs(source, sel)) = 1,
         NEW v \in Range(generate_override_configs(source, sel))
  PROVE  variants # <<>> /\ Head(variants).text = v.config
<1> DEFINE plain == generate_override_configs(source, sel)
           L == Len(plain)
<1>1. /\ DOMAIN plain = 1..L /\ DOMAIN variants = 1..L
      /\ \A k \in 1..L : variants[k].text = plain[k].config
  BY ItemsAre
<1>2. PICK k \in DOMAIN plain : v = plain[k]
  BY DEF Range
<1>3. L = 1
  OBVIOUS
<1>4. variants = [i \in DOMAIN variants |-> variants[i]]
  BY DEF ItemsOf
<1> HIDE DEF plain, L
<1>5. k = 1 /\ DOMAIN variants = 1..1 /\ variants[1].text = v.config
  BY <1>1, <1>2, <1>3
<1> DEFINE S == {variants[1]}
<1>a. variants \in [1..1 -> S]
  <2>1. \A i \in 1..1 : i = 1
    OBVIOUS
  <2> QED
    BY <1>4, <1>5, <2>1
<1>b. variants \in Seq(S) /\ Len(variants) = 1
  <2> DEFINE n == 1
  <2>1. n \in Nat /\ variants \in [1..n -> S]
    BY <1>a
  <2>2. n = 1
    OBVIOUS
  <2> HIDE DEF n, S
  <2>3. variants \in Seq(S) /\ Len(variants) = n
    BY <2>1
  <2> QED
    BY <2>2, <2>3
<1> HIDE DEF S
<1>6. variants # <<>> /\ Head(variants) = variants[1]
  BY <1>b, HeadOfOne
<1> QED
  BY <1>5, <1>6

LEMMA RenderBashIsKept ==
  ASSUME IInv, XInv, RenderBash
  PROVE  XInv'
<1> DEFINE variant == cmd.variants # <<>>
           config == IF variant THEN Head(cmd.variants).text ELSE Read.top
           loaded == IF variant THEN Resolve(config) ELSE Load(config)
           out == PlanOf(loaded)
<1>0. /\ cmd.at = "render" /\ Shape /\ (Fresh => Reading) /\ UNCHANGED <<file, edits, jobs>> /\ Sourced
      /\ ~Submits /\ ~InDirectory /\ cmd.how.verb = "bash"
  BY DEF RenderBash, IInv, XInv, Placed
<1>1. cmd' = Rejected \/ cmd' = [Ended("ok") EXCEPT !.out = out]
  BY DEF RenderBash
<1>2. CASE cmd' = Rejected
  <2>1. EndsAs("rejected")
    BY <1>0, <1>2, EndedEndsAs DEF Rejected
  <2>2. Ending("rejected")
    BY <1>0, <2>1 DEF Ending
  <2> QED
    BY <2>2, EndsWell
<1>3. CASE cmd' = [Ended("ok") EXCEPT !.out = out]
  <2>1. ASSUME Fresh, Read.override, Unambiguous(Read), NEW v \in Range(generate_override_configs(Read, cmd.sel)),
               Unobserved(v.config)
        PROVE  out = PlanOf(Load(v.config))
    <3> DEFINE plain == generate_override_configs(Read, cmd.sel)
    <3>1. cmd.variants = ItemsOf(Read, cmd.sel) /\ Expandable(Read, cmd.sel) /\ Len(plain) = 1
      BY <1>0, <2>1 DEF Reading
    <3>2. IsRecipe(Read) /\ cmd.sel \in Selectors
      BY <1>0, ReadIsRecipe DEF Sourced
    <3>5. cmd.variants # <<>> /\ Head(cmd.variants).text = v.config
      BY <2>1, <3>1, <3>2, OneItem
    <3>6. config = v.config
      BY <3>5
    <3>7. loaded = Resolve(v.config)
      BY <3>5, <3>6
    <3>8. Load(v.config) = Resolve(v.config)
      BY <2>1 DEF Load, Observed, Unobserved
    <3> QED
      BY <3>7, <3>8
  <2> HIDE DEF out
  <2>2. cmd'.out = out
    <3>1. DOMAIN Ended("ok") = CmdFields
      BY <1>0, EndedAt
    <3> QED
      BY <1>3, <3>1 DEF CmdFields
  <2>3. EndsAs("ok")
    BY <1>0, <1>3, EndedEndsAs
  <2>4. Read' = Read /\ (Fresh' <=> Fresh) /\ cmd'.sel = cmd.sel /\ cmd'.how = cmd.how
    <3>1. OwnStep
      BY <1>0, <2>3 DEF EndsAs, OwnStep, SameCommand
    <3> QED
      BY <2>3, <3>1, OwnStepKeeps DEF EndsAs
  <2>5. Rendered'
    BY <1>0, <2>1, <2>2, <2>4 DEF Rendered
  <2>6. Ending("ok")
    BY <1>0, <2>3, <2>5 DEF Ending
  <2> QED
    BY <2>6, EndsWell
<1> QED
  BY <1>1, <1>2, <1>3

-----------------------------------------------------------------------------
(* The end of a recipe, sweeps and plain recipes                           *)

\* What a command works through is what the recipe stands for.
LEMMA TextsAreMeant ==
  ASSUME IInv, XInv, Fresh, cmd.at \in Worked, Unambiguous(Read)
  PROVE  TextsOf(Read, cmd.sel) = Meant(Read, cmd.sel)
<1>1. Sourced /\ Reading
  BY DEF XInv
<1>2. CASE Read.override
  <2>1. Expandable(Read, cmd.sel) /\ IsRecipe(Read) /\ cmd.sel \in Selectors
    BY <1>1, <1>2, ReadIsRecipe DEF Reading, Sourced
  <2> QED
    BY <1>2, <2>1, ItemsAre
<1>3. CASE ~Read.override
  BY <1>3 DEF TextsOf, Meant
<1> QED
  BY <1>2, <1>3

\* What has been dealt with to the end is fit and, when it is applied, submitted.
LEMMA TreatedIsFit ==
  ASSUME NEW config, Treated(config), Hand = {}, cmd.points = {}
  PROVE  /\ Fit(Read, config, cmd.how)
         /\ cmd.how.verb = "apply" => \A p \in Points(config) : Submitted(cmd.nth, p)
<1>1. CASE SweepParams(config) = {}
  BY <1>1 DEF Treated, Through, Fit, Points
<1>2. CASE SweepParams(config) # {}
  <2>1. cmd.how.verb = "apply" => \A p \in SweepConfigs(config) : Through(p)
    BY <1>2 DEF Treated
  <2>2. Points(config) = SweepConfigs(config)
    BY <1>2 DEF Points
  <2> QED
    BY <1>2, <2>1, <2>2 DEF Treated, Through, Fit
<1> QED
  BY <1>1, <1>2

LEMMA PastTheEnd ==
  ASSUME NEW L \in Nat, NEW due \in 1..(L + 1), due \notin 1..L
  PROVE  due - 1 = L
OBVIOUS

LEMMA AllTaken ==
  ASSUME IInv, XInv, cmd.at = "check", Upcoming = {}, Fresh, Submits, Unambiguous(Read)
  PROVE  Taken(Read, cmd.nth)
<1>1. Sourced /\ Reading /\ Progress
  BY DEF XInv
<1>2. cmd.points = {} /\ cmd.due \notin DOMAIN cmd.variants
  BY DEF Upcoming
<1>3. Hand = {} /\ cmd.at \in Worked
  BY DEF Hand, AtItem, Worked
<1>4. TextsOf(Read, cmd.sel) = Meant(Read, cmd.sel)
  BY <1>3, TextsAreMeant
<1>5. ASSUME NEW c \in Meant(Read, cmd.sel) PROVE Treated(c)
  <2>1. CASE ~Read.override
    BY <1>1, <1>3, <1>5, <2>1 DEF Meant, Progress
  <2>2. CASE Read.override
    <3>1. Expandable(Read, cmd.sel) /\ IsRecipe(Read) /\ cmd.sel \in Selectors /\ cmd.variants = ItemsOf(Read, cmd.sel)
      BY <1>1, <1>3, <2>2, ReadIsRecipe DEF Reading, Sourced
    <3> DEFINE L == Len(cmd.variants)
    <3>2. L \in Nat /\ DOMAIN cmd.variants = 1..L
      BY <2>2, <3>1, ItemsAre
    <3>3. cmd.due \in 1..(L + 1) /\ \A k \in 1..(cmd.due - 1) : Treated(cmd.variants[k].text)
      BY <1>1, <1>3, <2>2 DEF Progress
    <3> HIDE DEF L
    <3>4. cmd.due - 1 = L
      BY <1>2, <3>2, <3>3, PastTheEnd
    <3>5. PICK k \in DOMAIN ItemsOf(Read, cmd.sel) : c = ItemsOf(Read, cmd.sel)[k].text
      BY <1>4, <1>5, <2>2 DEF TextsOf
    <3>6. k \in 1..L /\ c = cmd.variants[k].text
      BY <3>1, <3>2, <3>5
    <3> QED
      BY <3>3, <3>4, <3>6
  <2> QED
    BY <2>1, <2>2
<1>6. \A c \in Meant(Read, cmd.sel) :
        /\ Fit(Read, c, cmd.how)
        /\ cmd.how.verb = "apply" => \A p \in Points(c) : Submitted(cmd.nth, p)
  BY <1>2, <1>3, <1>5, TreatedIsFit
<1>7. Good(Read, cmd.sel, cmd.how)
  <2>1. Read.override => /\ Expandable(Read, cmd.sel)
                         /\ cmd.how.serve => Len(generate_override_configs(Read, cmd.sel)) = 1
    BY <1>1, <1>3 DEF Reading
  <2>2. cmd.how.sweep /\ ~Read.override => SweepParams(Read.top) # {}
    BY <1>1, <1>3 DEF Reading
  <2> QED
    BY <1>6, <2>1, <2>2 DEF Good
<1> QED
  BY <1>6, <1>7 DEF Taken

LEMMA NothingLeftIsKept ==
  ASSUME IInv, XInv, NothingLeft
  PROVE  XInv'
<1>0. /\ Shape /\ Placed /\ UNCHANGED <<file, edits, jobs>> /\ cmd' = Ended("ok")
      /\ cmd.at = "finish" \/ (cmd.at = "check" /\ Upcoming = {})
  BY DEF NothingLeft, IInv, XInv
<1>1. EndsAs("ok")
  BY <1>0, EndedEndsAs
<1>2. cmd.at = "check" => Submits
  BY <1>0 DEF Placed, Worked
<1>3. cmd.at = "finish" => ~Submits /\ ~InDirectory /\ cmd.how.verb = "preflight"
  BY <1>0 DEF Placed
<1>4. cmd'.how = cmd.how /\ cmd.how.verb \notin {"resolve-override", "bash"}
  BY <1>0, <1>1, <1>2, <1>3 DEF EndsAs, Submits
<1>5. Rendered'
  BY <1>4 DEF Rendered
<1>6. cmd.target = 0 /\ Submits /\ Fresh /\ Unambiguous(Read) => Taken(Read, cmd.nth)
  BY <1>0, <1>3, AllTaken
<1>7. Ending("ok")
  BY <1>0, <1>1, <1>2, <1>3, <1>5, <1>6 DEF Ending
<1> QED
  BY <1>7, EndsWell

\* A sweep is taken up: its points are queued, and in a dry run that is all.
LEMMA TakenUp ==
  ASSUME NEW config, SweepValid(config), cmd'.how = cmd.how, ~cmd.how.serve, Submits,
         Read' = Read, Read.override => Valid(Resolve(config)),
         cmd'.points = SweepQueue(config)
  PROVE  /\ Treated(config)'
         /\ \A item \in cmd'.points :
              /\ cmd.how.verb = "apply" /\ item = Item("sweep", item.text, <<>>)
              /\ SweepParams(config) # {} /\ item.text \in SweepConfigs(config)
<1>1. SweepParams(config) # {}
  BY DEF SweepValid
<1>2. cmd.how.verb = "apply" => cmd'.points = SweepItems(config)
  BY DEF SweepQueue
<1>3. cmd.how.verb # "apply" => cmd'.points = {}
  BY DEF SweepQueue, Submits
<1>4. \A p \in SweepConfigs(config) : Item("sweep", p, <<>>) \in SweepItems(config)
  BY DEF SweepItems
<1>5. \A item \in SweepItems(config) : item = Item("sweep", item.text, <<>>) /\ item.text \in SweepConfigs(config)
  BY DEF SweepItems, Item
<1>6. Treated(config)'
  BY <1>1, <1>2, <1>4 DEF Treated
<1> QED
  BY <1>1, <1>2, <1>3, <1>5, <1>6

LEMMA ReadSweepIsKept ==
  ASSUME IInv, XInv, ReadSweep
  PROVE  XInv'
<1>0. /\ cmd.at = "sweep" /\ Shape /\ Submits /\ (Fresh => Reading) /\ UNCHANGED <<file, edits, jobs>> /\ Sourced
      /\ cmd.variants = <<>> /\ cmd.due = 1
  BY DEF ReadSweep, IInv, XInv, Placed, Worked, AtItem
<1>1. cmd' = IF ~Read.override /\ SweepValid(Read.top)
               THEN [cmd EXCEPT !.at = "check", !.points = SweepQueue(Read.top)] ELSE Rejected
  BY DEF ReadSweep
<1>2. Fresh => ~Read.override /\ ~cmd.how.serve /\ (cmd.how.sweep \/ SweepParams(Read.top) # {})
  BY <1>0 DEF Reading
<1>3. CASE ~(~Read.override /\ SweepValid(Read.top))
  <2>1. EndsAs("rejected")
    BY <1>0, <1>1, <1>3, EndedEndsAs DEF Rejected
  <2>2. Fresh => ~Good(Read, cmd.sel, cmd.how)
    <3> SUFFICES ASSUME Fresh, Good(Read, cmd.sel, cmd.how) PROVE FALSE
      OBVIOUS
    <3>1. SweepParams(Read.top) # {}
      BY <1>2 DEF Good
    <3>2. Fit(Read, Read.top, cmd.how)
      BY <1>2 DEF Good, Meant
    <3> QED
      BY <1>2, <1>3, <3>1, <3>2 DEF Fit
  <2>3. Ending("rejected")
    BY <1>0, <2>1, <2>2 DEF Ending
  <2> QED
    BY <2>3, EndsWell
<1>4. CASE ~Read.override /\ SweepValid(Read.top)
  <2> DEFINE queue == SweepQueue(Read.top)
  <2>1. cmd' = [cmd EXCEPT !.at = "check", !.points = queue]
    BY <1>1, <1>4
  <2> HIDE DEF queue
  <2>2. /\ DOMAIN cmd' = CmdFields /\ cmd' = [x \in CmdFields |-> cmd'[x]]
        /\ cmd'.at = "check" /\ cmd'.variants = <<>> /\ cmd'.due = 1 /\ cmd'.points = queue
        /\ cmd'.how = cmd.how /\ cmd'.target = cmd.target /\ cmd'.sel = cmd.sel
        /\ cmd'.stdin = cmd.stdin /\ cmd'.nth = cmd.nth /\ cmd'.results = cmd.results
    BY <1>0, <2>1 DEF Shape, CmdFields
  <2>3. OwnStep /\ SameCommand
    BY <1>0, <2>2 DEF OwnStep, SameCommand
  <2>4. Read' = Read /\ (Fresh' <=> Fresh) /\ Grown /\ Sourced'
    BY <1>0, <2>3, OwnStepKeeps
  <2>5. ASSUME Fresh PROVE Reading' /\ Progress'
    <3>0. SweepParams(Read.top) # {}
      BY <1>4 DEF SweepValid
    <3>1. Reading'
      BY <1>4, <2>2, <2>4, <3>0 DEF Reading, Worked, AtItem
    <3>2. /\ Treated(Read.top)'
          /\ \A item \in cmd'.points :
              /\ cmd.how.verb = "apply" /\ item = Item("sweep", item.text, <<>>)
              /\ SweepParams(Read.top) # {} /\ item.text \in SweepConfigs(Read.top)
      BY <1>0, <1>2, <1>4, <2>2, <2>4, <2>5, TakenUp DEF queue
    <3>3. TextsOf(Read, cmd.sel) = {Read.top}
      BY <1>4 DEF TextsOf
    <3>4. "check" \notin AtItem
      BY DEF AtItem
    <3>5. cmd'.due \in 1..(Len(cmd'.variants) + 1)
      BY <2>2
    <3>6. Progress'
      BY <1>4, <2>2, <2>4, <3>2, <3>3, <3>4, <3>5 DEF Progress, AtItem
    <3> QED
      BY <3>1, <3>6
  <2>6. Working("check")
    BY <1>0, <2>2, <2>3, <2>4, <2>5 DEF Working, Worked, AtItem
  <2> QED
    BY <2>6, WorksWell
<1> QED
  BY <1>3, <1>4

LEMMA AfterCheckIs ==
  ASSUME Shape, Submits
  PROVE  /\ AfterCheck \in AtItem
         /\ AfterCheck = "shown" => cmd.how.verb = "dry-run"
         /\ AfterCheck \in AtItem \ {"shown"} => cmd.how.verb = "apply"
         /\ AfterCheck = "preflight" => cmd.how.enforce
         /\ AfterCheck \notin {"copy", "write"}
BY DEF AfterCheck, AtItem, Submits

LEMMA ReadSingleIsKept ==
  ASSUME IInv, XInv, ReadSingle
  PROVE  XInv'
<1>0. /\ cmd.at = "single" /\ Shape /\ Submits /\ (Fresh => Reading) /\ UNCHANGED <<file, edits, jobs>> /\ Sourced
      /\ cmd.variants = <<>> /\ cmd.due = 1 /\ cmd.points = {}
  BY DEF ReadSingle, IInv, XInv, Placed, Worked, AtItem
<1>1. cmd' = IF Loads(Read) THEN [cmd EXCEPT !.at = AfterCheck, !.item = Item("single", Read.top, <<>>)]
             ELSE Rejected
  BY DEF ReadSingle
<1>2. Fresh => ~Read.override /\ ~cmd.how.sweep /\ SweepParams(Read.top) = {}
  BY <1>0 DEF Reading
<1>3. CASE ~Loads(Read)
  <2>1. EndsAs("rejected")
    BY <1>0, <1>1, <1>3, EndedEndsAs DEF Rejected
  <2>2. Fresh => ~Good(Read, cmd.sel, cmd.how)
    BY <1>2, <1>3 DEF Good, Meant, Fit, Checked, Loads
  <2>3. Ending("rejected")
    BY <1>0, <2>1, <2>2 DEF Ending
  <2> QED
    BY <2>3, EndsWell
<1>4. CASE Loads(Read)
  <2> DEFINE item == Item("single", Read.top, <<>>)
             place == AfterCheck
  <2>1. cmd' = [cmd EXCEPT !.at = place, !.item = item]
    BY <1>1, <1>4
  <2>2. item.text = Read.top
    BY DEF Item
  <2>3. /\ place \in AtItem
        /\ place = "shown" => cmd.how.verb = "dry-run"
        /\ place \in AtItem \ {"shown"} => cmd.how.verb = "apply"
        /\ place = "preflight" => cmd.how.enforce
        /\ place \notin {"copy", "write"}
    BY <1>0, AfterCheckIs
  <2> HIDE DEF item, place
  <2>4. /\ DOMAIN cmd' = CmdFields /\ cmd' = [x \in CmdFields |-> cmd'[x]]
        /\ cmd'.at = place /\ cmd'.variants = <<>> /\ cmd'.due = 1 /\ cmd'.points = {} /\ cmd'.item = item
        /\ cmd'.how = cmd.how /\ cmd'.target = cmd.target /\ cmd'.sel = cmd.sel
        /\ cmd'.stdin = cmd.stdin /\ cmd'.nth = cmd.nth /\ cmd'.results = cmd.results
    BY <1>0, <2>1 DEF Shape, CmdFields
  <2>5. OwnStep /\ SameCommand
    BY <1>0, <2>4 DEF OwnStep, SameCommand
  <2>6. Read' = Read /\ (Fresh' <=> Fresh) /\ Grown /\ Sourced'
    BY <1>0, <2>5, OwnStepKeeps
  <2>7. place \in Worked /\ ~Read.override
    BY <1>4, <2>3 DEF Worked, Loads
  <2>8. ASSUME Fresh PROVE Reading' /\ Progress'
    <3>1. Reading'
      BY <1>2, <2>3, <2>4, <2>6, <2>7, <2>8 DEF Reading, Worked, AtItem
    <3>2. Treated(Read.top)' /\ Read.top \in Points(Read.top)
      BY <1>2, <2>2, <2>3, <2>4, <2>6, <2>8 DEF Treated, Hand, Points
    <3>3. TextsOf(Read, cmd.sel) = {Read.top}
      BY <2>7 DEF TextsOf
    <3>5. cmd'.due \in 1..(Len(cmd'.variants) + 1)
      BY <2>4
    <3>6. Progress'
      BY <2>2, <2>3, <2>4, <2>6, <2>7, <3>2, <3>3, <3>5 DEF Progress
    <3> QED
      BY <3>1, <3>6
  <2>9. Working(place)
    BY <1>0, <2>3, <2>4, <2>5, <2>6, <2>7, <2>8 DEF Working, Worked, AtItem
  <2> QED
    BY <2>9, WorksWell
<1> QED
  BY <1>3, <1>4

-----------------------------------------------------------------------------
(* What a check makes of a variant                                         *)

\* What observability switches on is neither required nor the name.
LEMMA LoadedWasValid ==
  ASSUME NEW config, Valid(Load(config))
  PROVE  Valid(Resolve(config))
<1>1. \A p \in DOMAIN Resolve(config) : p[1] \in KnownKeys
  BY LoadKeeps DEF Valid
<1>2. ASSUME NEW p \in {NamePath} \cup Required
      PROVE  p \in DOMAIN Resolve(config) /\ Resolve(config)[p] # None
  <2>1. p \in DOMAIN Load(config) /\ Load(config)[p] # None
    BY DEF Valid
  <2>2. p \notin DOMAIN Analytics
    BY AnalyticsAssumption
  <2> QED
    BY <2>1, <2>2, LoadKeeps
<1> QED
  BY <1>1, <1>2 DEF Valid

LEMMA GoodPoint ==
  ASSUME NEW source, NEW sel, NEW how, Good(source, sel, how), how.verb = "apply",
         NEW c \in Meant(source, sel), NEW p \in Points(c)
  PROVE  Checked(p, how)
<1>1. Fit(source, c, how)
  BY DEF Good
<1> QED
  BY <1>1 DEF Fit, Points

LEMMA GoodVariant ==
  ASSUME NEW source, NEW sel, NEW how, Good(source, sel, how), source.override, NEW c \in Meant(source, sel)
  PROVE  Valid(Resolve(c)) /\ (SweepParams(c) # {} => ~how.serve /\ SweepValid(c))
<1>1. Fit(source, c, how)
  BY DEF Good
<1> QED
  BY <1>1, LoadedWasValid DEF Fit, Checked

\* The variant that is due.
LEMMA VariantDue ==
  ASSUME IInv, XInv, cmd.at = "check", Fresh, cmd.due \in DOMAIN cmd.variants
  PROVE  /\ Read.override
         /\ cmd.variants[cmd.due].text \in TextsOf(Read, cmd.sel)
         /\ \E L \in Nat : /\ Len(cmd.variants) = L /\ DOMAIN cmd.variants = 1..L
                           /\ cmd.due \in 1..L
<1>1. Sourced /\ Reading
  BY DEF XInv
<1>2. "check" \in Worked
  BY DEF Worked
<1>3. Read.override
  BY <1>1, <1>2 DEF Reading
<1>4. Expandable(Read, cmd.sel) /\ IsRecipe(Read) /\ cmd.sel \in Selectors /\ cmd.variants = ItemsOf(Read, cmd.sel)
  BY <1>1, <1>2, <1>3, ReadIsRecipe DEF Reading, Sourced
<1>5. Len(cmd.variants) \in Nat /\ DOMAIN cmd.variants = 1..Len(cmd.variants)
  BY <1>3, <1>4, ItemsAre
<1>6. cmd.variants[cmd.due].text \in TextsOf(Read, cmd.sel)
  BY <1>3, <1>4 DEF TextsOf
<1> QED
  BY <1>3, <1>5, <1>6

LEMMA CheckRejects ==
  ASSUME IInv, XInv, cmd.at = "check", Fresh, Unambiguous(Read), NEW item \in Upcoming,
         \/ ~Valid(IF item.kind = "override" THEN Resolve(item.text) ELSE Load(item.text))
         \/ item.kind = "override" /\ SweepParams(item.text) # {} /\ (cmd.how.serve \/ ~SweepValid(item.text))
  PROVE  ~Good(Read, cmd.sel, cmd.how)
<1> SUFFICES ASSUME Good(Read, cmd.sel, cmd.how) PROVE FALSE
  OBVIOUS
<1>1. Progress /\ Shape /\ cmd.at \in Worked
  BY DEF XInv, IInv, Worked
<1>2. TextsOf(Read, cmd.sel) = Meant(Read, cmd.sel)
  BY <1>1, TextsAreMeant
<1>3. CASE cmd.points # {}
  <2>1. item \in cmd.points
    BY <1>3 DEF Upcoming
  <2>2. item.kind = "sweep"
    BY <1>1, <2>1 DEF Shape
  <2>3. /\ cmd.how.verb = "apply"
        /\ \E c \in TextsOf(Read, cmd.sel) : SweepParams(c) # {} /\ item.text \in SweepConfigs(c)
    BY <1>1, <2>1 DEF Progress
  <2>4. PICK c \in Meant(Read, cmd.sel) : item.text \in Points(c)
    BY <1>2, <2>3 DEF Points
  <2>5. Checked(item.text, cmd.how)
    BY <2>3, <2>4, GoodPoint
  <2> QED
    BY <2>2, <2>5 DEF Checked
<1>4. CASE cmd.points = {}
  <2>1. cmd.due \in DOMAIN cmd.variants /\ item = cmd.variants[cmd.due]
    BY <1>4 DEF Upcoming
  <2>2. Read.override /\ item.text \in Meant(Read, cmd.sel)
    BY <1>2, <2>1, VariantDue
  <2>3. item.kind = "override"
    BY <1>1, <2>1 DEF Shape
  <2> QED
    BY <2>2, <2>3, GoodVariant
<1> QED
  BY <1>3, <1>4

LEMMA DueNext ==
  ASSUME NEW L \in Nat, NEW due \in 1..L
  PROVE  /\ due + 1 \in 1..(L + 1)
         /\ \A k \in 1..((due + 1) - 1) : k \in 1..(due - 1) \/ k = due
OBVIOUS

\* A variant is taken off the queue.
LEMMA VariantTaken ==
  ASSUME IInv, XInv, cmd.at = "check", Fresh, cmd.due \in DOMAIN cmd.variants,
         cmd'.variants = cmd.variants, cmd'.due = cmd.due + 1, 
         \A config : Treated(config) => Treated(config)',
         NEW text, text = cmd.variants[cmd.due].text, Treated(text)'
  PROVE  /\ cmd'.due \in 1..(Len(cmd'.variants) + 1)
         /\ (\A k \in 1..(cmd.due - 1) : Treated(cmd.variants[k].text))'
<1>1. PICK L \in Nat : Len(cmd.variants) = L /\ cmd.due \in 1..L
  BY VariantDue
<1>2. /\ cmd.due + 1 \in 1..(L + 1)
      /\ \A k \in 1..((cmd.due + 1) - 1) : k \in 1..(cmd.due - 1) \/ k = cmd.due
  BY <1>1, DueNext
<1>3. \A k \in 1..(cmd.due - 1) : Treated(cmd.variants[k].text)
  <2>1. Progress /\ Read.override /\ "check" \in Worked
    BY VariantDue DEF XInv, Worked
  <2> QED
    BY <2>1 DEF Progress
<1>4. ASSUME NEW k \in 1..(cmd'.due - 1), NEW c, c = cmd.variants[k].text PROVE Treated(c)'
  <2>1. k \in 1..(cmd.due - 1) \/ k = cmd.due
    BY <1>2
  <2>2. CASE k \in 1..(cmd.due - 1)
    <3>1. Treated(c)
      BY <1>3, <1>4, <2>2
    <3> QED
      BY <3>1
  <2>3. CASE k = cmd.due
    <3>1. c = text
      BY <1>4, <2>3
    <3> QED
      BY <3>1
  <2> QED
    BY <2>1, <2>2, <2>3
<1>5. (\A k \in 1..(cmd.due - 1) : Treated(cmd.variants[k].text))'
  BY <1>4 DEF Treated
<1> QED
  BY <1>1, <1>2, <1>5

-----------------------------------------------------------------------------
(* Checking an item                                                        *)

LEMMA ReadingStays ==
  ASSUME Reading, cmd.at \in Worked, cmd'.at \in Worked, Read' = Read,
         cmd'.how = cmd.how, cmd'.sel = cmd.sel, cmd'.variants = cmd.variants
  PROVE  Reading'
BY DEF Reading, Worked, AtItem

\* Taking an item leaves all but the queue and the place as it is.
Taking(at) ==
    /\ IInv /\ XInv /\ OwnStep /\ cmd.at = "check" /\ cmd'.at = at /\ Submits
    /\ cmd'.results = cmd.results /\ cmd'.variants = cmd.variants
    /\ at = "check" \/ at = AfterCheck
    /\ Fresh => Progress'

LEMMA TakesWell ==
  ASSUME NEW at, Taking(at)
  PROVE  XInv'
<1>0. Shape /\ Sourced
  BY DEF Taking, IInv, XInv
<1>1. OwnStep /\ SameCommand /\ Grown /\ Read' = Read /\ Sourced'
  BY <1>0, OwnStepKeeps DEF Taking, OwnStep
<1>2. /\ at = "check" \/ at \in AtItem
      /\ at = "shown" => cmd.how.verb = "dry-run"
      /\ at \in AtItem \ {"shown"} => cmd.how.verb = "apply"
      /\ at = "preflight" => cmd.how.enforce
      /\ "check" \notin AtItem
  BY <1>0, AfterCheckIs DEF Taking, AtItem
<1>3. at \in Worked /\ "check" \in Worked
  BY <1>2 DEF Worked
<1>4. Fresh => Reading'
  <2>1. Fresh => Reading
    BY DEF Taking, XInv
  <2> QED
    BY <1>1, <1>3, <2>1, ReadingStays DEF Taking, SameCommand
<1>a. at \notin {"write out", "render"}
  BY <1>2 DEF AtItem
<1>b. "check" \notin {"next", "done", "failed"}
  OBVIOUS
<1>c. IInv /\ XInv /\ cmd.at = "check" /\ cmd'.at = at /\ Submits /\ cmd'.results = cmd.results /\ (Fresh => Progress')
  BY DEF Taking
<1>d. /\ UNCHANGED <<file, edits, jobs>> /\ DOMAIN cmd' = CmdFields /\ cmd' = [x \in CmdFields |-> cmd'[x]]
  BY <1>1 DEF OwnStep, SameCommand
<1>5. Working(at)
  BY <1>1, <1>2, <1>3, <1>4, <1>a, <1>b, <1>c, <1>d DEF Working
<1> QED
  BY <1>5, WorksWell

LEMMA CheckItemIsKept ==
  ASSUME IInv, XInv, CheckItem
  PROVE  XInv'
<1>0. /\ cmd.at = "check" /\ Shape /\ Submits /\ UNCHANGED <<file, edits, jobs>> /\ "check" \in Worked
      /\ Hand = {} /\ "check" \notin AtItem
  BY DEF CheckItem, IInv, XInv, Placed, Worked, Hand, AtItem
<1> DEFINE nested(item) == item.kind = "override" /\ SweepParams(item.text) # {}
           valid(item) == Valid(IF item.kind = "override" THEN Resolve(item.text) ELSE Load(item.text))
           bad(item) == ~valid(item) \/ (nested(item) /\ (cmd.how.serve \/ ~SweepValid(item.text)))
           rest(item) == cmd.points \ {item}
           due(item) == IF item.kind = "override" THEN cmd.due + 1 ELSE cmd.due
           taken(item) == [cmd EXCEPT !.points = rest(item), !.due = due(item)]
<1>1. PICK item \in Upcoming :
        cmd' = IF bad(item) THEN Rejected
               ELSE IF nested(item) THEN [taken(item) EXCEPT !.points = SweepQueue(item.text)]
               ELSE [taken(item) EXCEPT !.at = AfterCheck, !.item = item]
  BY DEF CheckItem
<1>2. \/ cmd.points # {} /\ item \in cmd.points /\ item.kind = "sweep"
      \/ cmd.points = {} /\ cmd.due \in DOMAIN cmd.variants /\ item = cmd.variants[cmd.due] /\ item.kind = "override"
  BY <1>0 DEF Upcoming, Shape
<1>3. CASE bad(item)
  <2>1. cmd' = Rejected
    BY <1>1, <1>3
  <2>2. EndsAs("rejected")
    BY <1>0, <2>1, EndedEndsAs DEF Rejected
  <2>3. Fresh /\ Unambiguous(Read) => ~Good(Read, cmd.sel, cmd.how)
    BY <1>0, <1>3, CheckRejects
  <2>4. Ending("rejected")
    BY <1>0, <2>2, <2>3 DEF Ending
  <2> QED
    BY <2>4, EndsWell
<1>4. CASE ~bad(item) /\ nested(item)
  <2> DEFINE queue == SweepQueue(item.text)
             taken2 == taken(item)
  <2>1. cmd' = [taken2 EXCEPT !.points = queue]
    BY <1>1, <1>4
  <2>2. taken2 = [cmd EXCEPT !.points = rest(item), !.due = cmd.due + 1]
    BY <1>4
  <2>a. item.kind = "override" /\ SweepParams(item.text) # {}
    BY <1>4
  <2>b. Valid(Resolve(item.text)) /\ ~cmd.how.serve /\ SweepValid(item.text)
    BY <1>4
  <2> HIDE DEF queue, taken2, taken, rest, due, bad, nested, valid
  <2>3. cmd.points = {} /\ cmd.due \in DOMAIN cmd.variants /\ item = cmd.variants[cmd.due]
    BY <1>2, <2>a
  <2>4. /\ DOMAIN cmd' = CmdFields /\ cmd' = [x \in CmdFields |-> cmd'[x]]
        /\ cmd'.at = "check" /\ cmd'.variants = cmd.variants /\ cmd'.due = cmd.due + 1 /\ cmd'.points = queue
        /\ cmd'.how = cmd.how /\ cmd'.target = cmd.target /\ cmd'.sel = cmd.sel
        /\ cmd'.stdin = cmd.stdin /\ cmd'.nth = cmd.nth /\ cmd'.results = cmd.results
    BY <1>0, <2>1, <2>2 DEF Shape, CmdFields
  <2>5. OwnStep /\ SameCommand
    BY <1>0, <2>4 DEF OwnStep, SameCommand
  <2>6. Read' = Read /\ Grown /\ Hand' = {}
    BY <1>0, <2>4, <2>5, OwnStepKeeps DEF Hand
  <2>7. ASSUME Fresh PROVE Progress'
    <3>1. Read.override /\ item.text \in TextsOf(Read, cmd.sel)
      BY <1>0, <2>3, <2>7, VariantDue
    <3>2. ASSUME NEW config, Treated(config) PROVE Treated(config)'
      BY <1>0, <2>3, <2>5, <2>6, <3>2, TreatedStays
    <3>3. /\ Treated(item.text)'
          /\ \A x \in cmd'.points :
              /\ cmd.how.verb = "apply" /\ x = Item("sweep", x.text, <<>>)
              /\ SweepParams(item.text) # {} /\ x.text \in SweepConfigs(item.text)
      BY <1>0, <2>4, <2>6, <2>b, TakenUp DEF queue
    <3>4. /\ cmd'.due \in 1..(Len(cmd'.variants) + 1)
          /\ (\A k \in 1..(cmd.due - 1) : Treated(cmd.variants[k].text))'
      BY <1>0, <2>3, <2>4, <2>7, <3>2, <3>3, VariantTaken
    <3>5. \A x \in cmd'.points : \E c \in TextsOf(Read, cmd.sel) : SweepParams(c) # {} /\ x.text \in SweepConfigs(c)
      BY <3>1, <3>3
    <3> QED
      BY <1>0, <2>4, <2>6, <3>1, <3>3, <3>4, <3>5 DEF Progress, AtItem
  <2>8. Taking("check")
    BY <1>0, <2>4, <2>5, <2>7 DEF Taking
  <2> QED
    BY <2>8, TakesWell
<1>5. CASE ~bad(item) /\ ~nested(item)
  <2> DEFINE place == AfterCheck
             points == rest(item)
             next == due(item)
             taken2 == taken(item)
  <2>1. cmd' = [taken2 EXCEPT !.at = place, !.item = item]
    BY <1>1, <1>5
  <2>2. taken2 = [cmd EXCEPT !.points = points, !.due = next]
    OBVIOUS
  <2>a. item.kind = "override" => SweepParams(item.text) = {} /\ next = cmd.due + 1
    BY <1>5
  <2>b. item.kind = "sweep" => next = cmd.due
    OBVIOUS
  <2>c. points = cmd.points \ {item}
    OBVIOUS
  <2>3. place \in AtItem /\ place \in Worked /\ place \notin {"copy", "write"}
    BY <1>0, AfterCheckIs DEF Worked
  <2>d. place = AfterCheck
    OBVIOUS
  <2> HIDE DEF place, points, next, taken2, taken, rest, due, bad, nested, valid
  <2>4. /\ DOMAIN cmd' = CmdFields /\ cmd' = [x \in CmdFields |-> cmd'[x]]
        /\ cmd'.at = place /\ cmd'.variants = cmd.variants /\ cmd'.due = next /\ cmd'.points = points /\ cmd'.item = item
        /\ cmd'.how = cmd.how /\ cmd'.target = cmd.target /\ cmd'.sel = cmd.sel
        /\ cmd'.stdin = cmd.stdin /\ cmd'.nth = cmd.nth /\ cmd'.results = cmd.results
    BY <1>0, <2>1, <2>2 DEF Shape, CmdFields
  <2>5. OwnStep /\ SameCommand
    BY <1>0, <2>4 DEF OwnStep, SameCommand
  <2>6. Read' = Read /\ Grown /\ Hand' = {item.text}
    BY <1>0, <2>3, <2>4, <2>5, OwnStepKeeps DEF Hand
  <2>7. ASSUME Fresh PROVE Progress'
    <3>0. Progress
      BY <2>7 DEF XInv
    <3>1. \A x \in cmd.points : x \in cmd'.points \/ x.text \in Hand'
      BY <2>4, <2>6, <2>c
    <3>2. ASSUME NEW config, Treated(config) PROVE Treated(config)'
      BY <1>0, <2>5, <2>6, <3>1, <3>2, TreatedStays
    <3>3. CASE cmd.points # {} /\ item \in cmd.points /\ item.kind = "sweep"
      <4>1. PICK c \in TextsOf(Read, cmd.sel) : SweepParams(c) # {} /\ item.text \in SweepConfigs(c)
        BY <1>0, <3>0, <3>3 DEF Progress
      <4>2. item.text \in Points(c)
        BY <4>1 DEF Points
      <4>3. \A x \in cmd'.points : x \in cmd.points
        BY <2>4, <2>c
      <4>4. cmd'.due = cmd.due
        BY <2>4, <2>b, <3>3
      <4>5. /\ cmd'.due \in 1..(Len(cmd'.variants) + 1)
            /\ Read.override => (\A k \in 1..(cmd.due - 1) : Treated(cmd.variants[k].text))'
            /\ ~Read.override => Treated(Read.top)'
        <5>1. cmd.due \in 1..(Len(cmd.variants) + 1)
          BY <1>0, <3>0 DEF Progress
        <5>2. ~Read.override => Treated(Read.top)'
          <6>1. \A c1 : c1 = Read.top /\ ~Read.override => Treated(c1)'
            BY <1>0, <3>0, <3>2 DEF Progress
          <6> QED
            BY <2>6, <6>1 DEF Treated
        <5>3. Read.override => (\A k \in 1..(cmd.due - 1) : Treated(cmd.variants[k].text))'
          <6>1. ASSUME Read.override, NEW k \in 1..(cmd.due - 1), NEW c1, c1 = cmd.variants[k].text
                PROVE  Treated(c1)'
            <7>1. Treated(c1)
              BY <1>0, <3>0, <6>1 DEF Progress
            <7> QED
              BY <3>2, <7>1
          <6> QED
            BY <2>4, <4>4, <6>1 DEF Treated
        <5> QED
          BY <2>4, <4>4, <5>1, <5>2, <5>3
      <4>6. \A x \in cmd'.points :
              /\ cmd.how.verb = "apply" /\ x = Item("sweep", x.text, <<>>)
              /\ \E c1 \in TextsOf(Read, cmd.sel) : SweepParams(c1) # {} /\ x.text \in SweepConfigs(c1)
        BY <1>0, <3>0, <4>3 DEF Progress
      <4> QED
        BY <2>3, <2>4, <2>6, <4>2, <4>5, <4>6 DEF Progress
    <3>4. CASE cmd.points = {} /\ cmd.due \in DOMAIN cmd.variants /\ item = cmd.variants[cmd.due] /\ item.kind = "override"
      <4>1. Read.override /\ item.text \in TextsOf(Read, cmd.sel)
        BY <1>0, <2>7, <3>4, VariantDue
      <4>2. SweepParams(item.text) = {} /\ item.text \in Points(item.text) /\ cmd'.due = cmd.due + 1
        BY <2>4, <2>a, <3>4 DEF Points
      <4>3. Treated(item.text)'
        <5>1. \A c1 : c1 = item.text => Treated(c1)'
          BY <2>6, <4>2 DEF Treated
        <5> QED
          BY <5>1
      <4>4. /\ cmd'.due \in 1..(Len(cmd'.variants) + 1)
            /\ (\A k \in 1..(cmd.due - 1) : Treated(cmd.variants[k].text))'
        BY <1>0, <2>4, <2>7, <3>2, <3>4, <4>2, <4>3, VariantTaken
      <4>5. cmd'.points = {}
        BY <2>4, <2>c, <3>4
      <4> QED
        BY <2>3, <2>4, <2>6, <4>1, <4>2, <4>4, <4>5 DEF Progress
    <3> QED
      BY <1>2, <3>3, <3>4
  <2>8. Taking(place)
    BY <1>0, <2>4, <2>5, <2>7, <2>d DEF Taking
  <2> QED
    BY <2>8, TakesWell
<1> QED
  BY <1>3, <1>4, <1>5

-----------------------------------------------------------------------------
(* Showing, preflighting and failing                                       *)

\* What is in hand was found valid, and, where it is asked for, available.
LEMMA HandIsValid ==
  ASSUME IInv, Fresh, cmd.at \in AtItem
  PROVE  /\ Valid(Load(cmd.item.text))
         /\ cmd.at \in {"sbatch", "copy", "write"} /\ cmd.how.enforce => Available(cmd.item.text)
<1>1. /\ Passed(cmd.item.kind, cmd.item.text, Fresh) /\ cmd.item.kind \in Kinds
      /\ cmd.at \in {"sbatch", "copy", "write"} => Preflighted(cmd.item.kind, cmd.item.text, cmd.how, Fresh)
  BY DEF IInv, Shape, ItemInv
<1>2. Valid(Load(cmd.item.text))
  BY <1>1, ValidLoads DEF Passed, Kinds
<1> QED
  BY <1>1, <1>2 DEF Preflighted

\* The item goes on, or is through.
Passing(at) ==
    /\ IInv /\ XInv /\ SameCommand /\ Grown /\ Sourced' /\ cmd.at \in AtItem
    /\ DOMAIN cmd' = CmdFields /\ cmd' = [x \in CmdFields |-> cmd'[x]]
    /\ cmd.target # 0 => jobs'[cmd.target] = jobs[cmd.target]
    /\ cmd'.at = at /\ cmd'.results = cmd.results /\ cmd'.variants = cmd.variants
    /\ cmd'.due = cmd.due /\ cmd'.points = cmd.points /\ cmd'.item = cmd.item
    /\ at \in {"sbatch", "copy", "write", "check"}
    /\ at \in AtItem => cmd.how.verb = "apply"
    /\ at = "check" /\ Fresh => \A text : text = cmd.item.text => Through(text)'
    /\ at \in {"copy", "write"} => Job'.nth = cmd.nth

LEMMA PassesWell ==
  ASSUME NEW at, Passing(at)
  PROVE  XInv'
<1>1. /\ Read' = Read /\ (Fresh' <=> Fresh) /\ Placed /\ at \in Worked /\ cmd.at \in Worked
      /\ cmd'.how = cmd.how /\ cmd'.target = cmd.target /\ cmd'.sel = cmd.sel
      /\ cmd'.stdin = cmd.stdin /\ cmd'.nth = cmd.nth
  BY SameCommandKeeps DEF Passing, XInv, SameCommand, Worked, AtItem
<1>2. Submits
  BY <1>1 DEF Placed
<1>3. ASSUME Fresh PROVE Reading' /\ Progress'
  <2>1. Reading /\ Progress
    BY <1>3 DEF Passing, XInv
  <2>2. Reading'
    BY <1>1, <2>1, ReadingStays DEF Passing
  <2>3. ASSUME NEW text \in Hand PROVE text \in Hand' \/ Through(text)'
    <3>1. text = cmd.item.text
      BY DEF Passing, Hand
    <3>2. CASE at = "check"
      BY <1>3, <3>1, <3>2 DEF Passing
    <3>3. CASE at # "check"
      BY <3>1, <3>3 DEF Passing, Hand, AtItem
    <3> QED
      BY <3>2, <3>3
  <2>4. \A config : Treated(config) => Treated(config)'
    BY <1>1, <2>3, TreatedStays DEF Passing
  <2>5. /\ cmd'.due \in 1..(Len(cmd'.variants) + 1)
        /\ Read.override => (\A k \in 1..(cmd.due - 1) : Treated(cmd.variants[k].text))'
        /\ ~Read.override => Treated(Read.top)'
    <3>1. cmd.due \in 1..(Len(cmd.variants) + 1)
      BY <1>1, <2>1 DEF Progress
    <3>2. ~Read.override => Treated(Read.top)'
      <4>1. \A c : c = Read.top /\ ~Read.override => Treated(c)'
        BY <1>1, <2>1, <2>4 DEF Progress
      <4> QED
        BY <1>1, <4>1 DEF Treated
    <3>3. Read.override => (\A k \in 1..(cmd.due - 1) : Treated(cmd.variants[k].text))'
      <4>1. ASSUME Read.override, NEW k \in 1..(cmd.due - 1), NEW c, c = cmd.variants[k].text
            PROVE  Treated(c)'
        <5>1. Treated(c)
          BY <1>1, <2>1, <4>1 DEF Progress
        <5> QED
          BY <2>4, <5>1
      <4>2. cmd'.variants = cmd.variants /\ cmd'.due = cmd.due
        BY DEF Passing
      <4> QED
        BY <4>1, <4>2 DEF Treated
    <3> QED
      BY <3>1, <3>2, <3>3 DEF Passing
  <2>6. /\ \A item \in cmd'.points :
              /\ cmd.how.verb = "apply" /\ item = Item("sweep", item.text, <<>>)
              /\ \E c \in TextsOf(Read, cmd.sel) : SweepParams(c) # {} /\ item.text \in SweepConfigs(c)
        /\ \E c \in TextsOf(Read, cmd.sel) : cmd'.item.text \in Points(c)
    BY <1>1, <2>1 DEF Passing, Progress
  <2>7. cmd'.at = at /\ (at \in {"copy", "write"} => Job'.nth = cmd.nth)
    BY DEF Passing
  <2>8. Progress'
    BY <1>1, <2>5, <2>6, <2>7 DEF Progress
  <2> QED
    BY <2>2, <2>8
<1>4. /\ at \notin {"write out", "render", "shown", "preflight"}
      /\ cmd.at \notin {"next", "done", "failed"}
      /\ at \in AtItem \ {"shown"} => cmd.how.verb = "apply"
  BY DEF Passing, AtItem
<1>a. /\ IInv /\ XInv /\ UNCHANGED <<file, edits>> /\ Grown /\ SameCommand /\ Sourced'
      /\ DOMAIN cmd' = CmdFields /\ cmd' = [x \in CmdFields |-> cmd'[x]]
      /\ cmd.target # 0 => jobs'[cmd.target] = jobs[cmd.target]
      /\ cmd'.at = at /\ cmd'.results = cmd.results
  BY DEF Passing, SameCommand
<1>5. Working(at)
  BY <1>1, <1>2, <1>3, <1>4, <1>a DEF Working
<1> QED
  BY <1>5, WorksWell

LEMMA ShowIsKept ==
  ASSUME IInv, XInv, Show
  PROVE  XInv'
<1>0. cmd.at = "shown" /\ Shape /\ cmd' = [cmd EXCEPT !.at = "check"] /\ UNCHANGED <<file, edits, jobs>>
      /\ Sourced /\ cmd.how.verb = "dry-run" /\ cmd.at \in AtItem
  BY DEF Show, IInv, XInv, Placed, AtItem
<1>1. /\ DOMAIN cmd' = CmdFields /\ cmd' = [x \in CmdFields |-> cmd'[x]]
      /\ cmd'.at = "check" /\ cmd'.variants = cmd.variants /\ cmd'.due = cmd.due
      /\ cmd'.points = cmd.points /\ cmd'.item = cmd.item
      /\ cmd'.how = cmd.how /\ cmd'.target = cmd.target /\ cmd'.sel = cmd.sel
      /\ cmd'.stdin = cmd.stdin /\ cmd'.nth = cmd.nth /\ cmd'.results = cmd.results
  BY <1>0 DEF Shape, CmdFields
<1>2. OwnStep /\ SameCommand
  BY <1>0, <1>1 DEF OwnStep, SameCommand
<1>3. Grown /\ Sourced'
  BY <1>0, <1>2, OwnStepKeeps
<1>4. Fresh => \A text : text = cmd.item.text => Through(text)'
  BY <1>0, <1>1, HandIsValid DEF Through, Checked
<1>5. Passing("check")
  BY <1>0, <1>1, <1>2, <1>3, <1>4 DEF Passing, AtItem
<1> QED
  BY <1>5, PassesWell

LEMMA PreflightIsKept ==
  ASSUME IInv, XInv, Preflight
  PROVE  XInv'
<1>0. cmd.at = "preflight" /\ Shape /\ UNCHANGED <<file, edits, jobs>> /\ ItemInv
      /\ Sourced /\ cmd.how.verb = "apply" /\ cmd.how.enforce /\ cmd.at \in AtItem /\ Submits
      /\ cmd' = IF PreflightOk THEN [cmd EXCEPT !.at = "sbatch"] ELSE Rejected
  BY DEF Preflight, GoesOr, IInv, XInv, Placed, AtItem, Worked
<1>1. CASE PreflightOk
  <2>0. cmd' = [cmd EXCEPT !.at = "sbatch"]
    BY <1>0, <1>1
  <2>1. /\ DOMAIN cmd' = CmdFields /\ cmd' = [x \in CmdFields |-> cmd'[x]]
        /\ cmd'.at = "sbatch" /\ cmd'.variants = cmd.variants /\ cmd'.due = cmd.due
        /\ cmd'.points = cmd.points /\ cmd'.item = cmd.item
        /\ cmd'.how = cmd.how /\ cmd'.target = cmd.target /\ cmd'.sel = cmd.sel
        /\ cmd'.stdin = cmd.stdin /\ cmd'.nth = cmd.nth /\ cmd'.results = cmd.results
    BY <1>0, <2>0 DEF Shape, CmdFields
  <2>2. OwnStep /\ SameCommand
    BY <1>0, <2>1 DEF OwnStep, SameCommand
  <2>3. Grown /\ Sourced'
    BY <1>0, <2>2, OwnStepKeeps
  <2>4. Passing("sbatch")
    BY <1>0, <2>1, <2>2, <2>3 DEF Passing
  <2> QED
    BY <2>4, PassesWell
<1>2. CASE ~PreflightOk
  <2>1. EndsAs("rejected")
    BY <1>0, <1>2, EndedEndsAs DEF Rejected
  <2>2. ASSUME Fresh, Unambiguous(Read), Good(Read, cmd.sel, cmd.how) PROVE FALSE
    <3>1. ~Available(cmd.item.text)
      BY <1>0, <1>2, <2>2 DEF PreflightOk, ItemInv
    <3>2. TextsOf(Read, cmd.sel) = Meant(Read, cmd.sel)
      BY <1>0, <2>2, TextsAreMeant DEF Worked
    <3>3. Progress /\ cmd.at \in Worked
      BY <1>0, <2>2 DEF XInv, Worked
    <3>4. PICK c \in Meant(Read, cmd.sel) : cmd.item.text \in Points(c)
      BY <1>0, <3>2, <3>3 DEF Progress
    <3>5. Checked(cmd.item.text, cmd.how)
      BY <1>0, <2>2, <3>4, GoodPoint
    <3> QED
      BY <1>0, <3>1, <3>5 DEF Checked
  <2>3. Ending("rejected")
    BY <1>0, <2>1, <2>2 DEF Ending
  <2> QED
    BY <2>3, EndsWell
<1> QED
  BY <1>1, <1>2

\* A submission that SLURM or the disk refuses ends the recipe without a verdict.
LEMMA FailsIsKept ==
  ASSUME IInv, XInv, SbatchFails \/ WriteFails
  PROVE  XInv'
<1>0. cmd.at \in {"sbatch", "copy", "write"} /\ Shape /\ UNCHANGED <<file, edits, jobs>> /\ Submits
      /\ cmd' = Ended("not submitted")
  BY DEF SbatchFails, WriteFails, IInv, XInv, Placed, Worked, AtItem
<1>1. EndsAs("not submitted")
  BY <1>0, EndedEndsAs
<1>2. Ending("not submitted")
  BY <1>0, <1>1 DEF Ending
<1> QED
  BY <1>2, EndsWell

LEMMA SetupMissingIsKept ==
  ASSUME IInv, XInv, SetupMissing
  PROVE  XInv'
<1>1. cmd.at = "sbatch" /\ cmd' = [cmd EXCEPT !.at = "failed"] /\ UNCHANGED <<file, edits, jobs>>
  BY DEF SetupMissing, Goes
<1>2. MovesTo("failed")
  BY <1>1, Moved DEF IInv
<1>3. Reading'
  BY <1>2 DEF MovesTo, Reading, Worked, AtItem
<1>4. Going("failed")
  BY <1>1, <1>2, <1>3 DEF Going
<1> QED
  BY <1>4, GoesWell

-----------------------------------------------------------------------------
(* Submitting, the directory and the jobs                                  *)

\* One job changes, and remains the job of its recipe and configuration.
LEMMA JobChanged ==
  ASSUME IInv, NEW k \in 1..Len(jobs), NEW job, jobs' = [jobs EXCEPT ![k] = job],
         job.nth = jobs[k].nth, job.checked = jobs[k].checked
  PROVE  /\ Grown /\ Len(jobs') = Len(jobs) /\ Job'.nth = Job.nth
         /\ jobs'[k] = job /\ \A j \in 1..Len(jobs) : j # k => jobs'[j] = jobs[j]
<1>1. Len(jobs) \in Nat /\ jobs = [j \in 1..Len(jobs) |-> jobs[j]]
  BY DEF IInv, Shape
<1>2. /\ Len(jobs') = Len(jobs) /\ jobs' = [j \in 1..Len(jobs') |-> jobs'[j]]
      /\ jobs'[k] = job /\ \A j \in 1..Len(jobs) : j # k => jobs'[j] = jobs[j]
  BY <1>1, ChangeJob
<1>3. DOMAIN jobs = 1..Len(jobs) /\ DOMAIN jobs' = 1..Len(jobs)
  BY <1>1, <1>2
<1>4. \A j \in 1..Len(jobs) : jobs'[j].nth = jobs[j].nth /\ jobs'[j].checked = jobs[j].checked
  BY <1>2
<1>5. Grown
  BY <1>3, <1>4 DEF Grown
<1>6. Len(jobs) \in 1..Len(jobs)
  <2> DEFINE n == Len(jobs)
  <2>1. n \in Nat /\ k \in 1..n
    BY <1>1
  <2> HIDE DEF n
  <2>2. n \in 1..n
    BY <2>1
  <2> QED
    BY <2>2 DEF n
<1>7. Job'.nth = Job.nth
  BY <1>2, <1>4, <1>6 DEF Job
<1> QED
  BY <1>2, <1>5, <1>7

LEMMA SourcedStays ==
  ASSUME Sourced, UNCHANGED file, cmd'.nth = cmd.nth, cmd'.sel = cmd.sel, cmd'.how = cmd.how, cmd'.stdin = cmd.stdin,
         \A j \in 1..Len(jobs') :
            \/ j \in 1..Len(jobs) /\ jobs'[j] = jobs[j]
            \/ /\ jobs'[j].dir # "empty" => IsRecipe(jobs'[j].source)
               /\ Ran(jobs'[j]) => IsRecipe(jobs'[j].lock)
  PROVE  Sourced'
<1>1. \A j \in 1..Len(jobs') :
         /\ jobs'[j].dir # "empty" => IsRecipe(jobs'[j].source)
         /\ Ran(jobs'[j]) => IsRecipe(jobs'[j].lock)
  BY DEF Sourced
<1>2. (\A j \in 1..Len(jobs) : /\ jobs[j].dir # "empty" => IsRecipe(jobs[j].source)
                               /\ Ran(jobs[j]) => IsRecipe(jobs[j].lock))'
  BY <1>1 DEF Ran
<1> QED
  BY <1>2 DEF Sourced

LEMMA SbatchIsKept ==
  ASSUME IInv, XInv, Sbatch
  PROVE  XInv'
<1>0. PICK n, job : n = Len(jobs) /\ job = NewJob
  OBVIOUS
<1>1. /\ n \in Nat /\ jobs = [j \in 1..n |-> jobs[j]] /\ Shape /\ Sourced
      /\ cmd.at = "sbatch" /\ UNCHANGED <<file, edits>> /\ cmd.how.verb = "apply"
      /\ jobs' = Append(jobs, job) /\ cmd' = [cmd EXCEPT !.at = "copy"]
      /\ cmd.target \in 0..n
  BY <1>0 DEF IInv, Shape, Sbatch, XInv, Placed, AtItem
<1>2. /\ DOMAIN cmd' = CmdFields /\ cmd' = [x \in CmdFields |-> cmd'[x]]
      /\ cmd'.at = "copy" /\ cmd'.variants = cmd.variants /\ cmd'.due = cmd.due
      /\ cmd'.points = cmd.points /\ cmd'.item = cmd.item
      /\ cmd'.how = cmd.how /\ cmd'.target = cmd.target /\ cmd'.sel = cmd.sel
      /\ cmd'.stdin = cmd.stdin /\ cmd'.nth = cmd.nth /\ cmd'.results = cmd.results
  BY <1>1 DEF Shape, CmdFields
<1>3. job.nth = cmd.nth /\ job.dir = "empty" /\ job.state = "queued"
  BY <1>0 DEF NewJob
<1>4. /\ jobs' = [j \in 1..(n + 1) |-> jobs'[j]] /\ Len(jobs') = n + 1
      /\ jobs'[n + 1] = job /\ \A j \in 1..n : jobs'[j] = jobs[j]
  <2>1. /\ Len(Append(jobs, job)) = n + 1
        /\ Append(jobs, job) = [j \in 1..(n + 1) |-> Append(jobs, job)[j]]
        /\ Append(jobs, job)[n + 1] = job
        /\ \A j \in 1..n : Append(jobs, job)[j] = jobs[j]
    BY <1>0, <1>1, AppendJob
  <2> QED
    BY <1>1, <2>1
<1>5. \A j \in 1..(n + 1) : j \in 1..n \/ j = n + 1
  BY <1>1
<1>6. Grown
  <2>1. DOMAIN jobs = 1..n /\ DOMAIN jobs' = 1..(n + 1)
    BY <1>1, <1>4
  <2>2. \A j \in 1..n : j \in 1..(n + 1)
    BY <1>1
  <2> QED
    BY <1>4, <2>1, <2>2 DEF Grown
<1>7. cmd.target # 0 => cmd.target \in 1..n /\ jobs'[cmd.target] = jobs[cmd.target]
  BY <1>1, <1>4
<1>8. Sourced'
  <2>1. \A j \in 1..Len(jobs') :
            \/ j \in 1..Len(jobs) /\ jobs'[j] = jobs[j]
            \/ /\ jobs'[j].dir # "empty" => IsRecipe(jobs'[j].source)
               /\ Ran(jobs'[j]) => IsRecipe(jobs'[j].lock)
    BY <1>0, <1>3, <1>4, <1>5 DEF Ran
  <2> QED
    BY <1>1, <1>2, <2>1, SourcedStays
<1>9. Job'.nth = cmd.nth
  BY <1>3, <1>4 DEF Job
<1>10. SameCommand
  BY <1>1, <1>2 DEF SameCommand
<1>11. Passing("copy")
  BY <1>1, <1>2, <1>6, <1>7, <1>8, <1>9, <1>10 DEF Passing, AtItem
<1> QED
  BY <1>11, PassesWell

\* A step of the last job's directory.
LEMMA DirectoryStep ==
  ASSUME IInv, XInv, UNCHANGED <<file, edits>>, cmd.at \in {"copy", "write"},
         NEW at \in {"write", "check"}, cmd' = [cmd EXCEPT !.at = at],
         NEW k, k = Len(jobs), NEW job, jobs' = [jobs EXCEPT ![k] = job],
         job.nth = Job.nth, job.checked = Job.checked,
         job.dir # "empty" => IsRecipe(job.source), Ran(job) => IsRecipe(job.lock),
         at = "check" => cmd.at = "write"
  PROVE  XInv'
<1>1. /\ k \in 1..k /\ cmd.target < k /\ cmd.target \in 0..k /\ k \in Nat
  <2>1. cmd.target < k /\ cmd.target \in 0..k /\ k \in Nat
    BY DEF IInv, Shape, LastInv
  <2> QED
    BY <2>1
<1>2. Job = jobs[k] /\ Shape /\ Sourced /\ cmd.how.verb = "apply" /\ Job.checked = cmd.item.text
  BY DEF Job, IInv, XInv, Placed, AtItem, LastInv
<1>3. /\ Grown /\ Len(jobs') = k /\ Job'.nth = Job.nth
      /\ jobs'[k] = job /\ \A j \in 1..k : j # k => jobs'[j] = jobs[j]
  <2>1. k \in 1..Len(jobs) /\ job.nth = jobs[k].nth /\ job.checked = jobs[k].checked
    <3>1. job.nth = jobs[k].nth /\ job.checked = jobs[k].checked
      BY <1>2
    <3> QED
      BY <1>1, <3>1
  <2>2. /\ Grown /\ Len(jobs') = Len(jobs) /\ Job'.nth = Job.nth
        /\ jobs'[k] = job /\ \A j \in 1..Len(jobs) : j # k => jobs'[j] = jobs[j]
    BY <2>1, JobChanged
  <2> QED
    BY <2>2
<1>4. /\ DOMAIN cmd' = CmdFields /\ cmd' = [x \in CmdFields |-> cmd'[x]]
      /\ cmd'.at = at /\ cmd'.variants = cmd.variants /\ cmd'.due = cmd.due
      /\ cmd'.points = cmd.points /\ cmd'.item = cmd.item
      /\ cmd'.how = cmd.how /\ cmd'.target = cmd.target /\ cmd'.sel = cmd.sel
      /\ cmd'.stdin = cmd.stdin /\ cmd'.nth = cmd.nth /\ cmd'.results = cmd.results
  BY <1>2 DEF Shape, CmdFields
<1>5. SameCommand
  BY <1>4 DEF SameCommand
<1>6. cmd.target # 0 => jobs'[cmd.target] = jobs[cmd.target]
  <2>1. cmd.target # 0 => cmd.target \in 1..k /\ cmd.target # k
    BY <1>1
  <2> QED
    BY <1>3, <2>1
<1>7. Sourced'
  <2>1. \A j \in 1..Len(jobs') :
            \/ j \in 1..Len(jobs) /\ jobs'[j] = jobs[j]
            \/ /\ jobs'[j].dir # "empty" => IsRecipe(jobs'[j].source)
               /\ Ran(jobs'[j]) => IsRecipe(jobs'[j].lock)
    BY <1>3
  <2> QED
    BY <1>2, <1>4, <2>1, SourcedStays
<1>8. Fresh => Job.nth = cmd.nth
  <2>1. cmd.at \in Worked
    BY DEF Worked, AtItem
  <2> QED
    BY <2>1 DEF XInv, Progress
<1>9. at = "check" /\ Fresh => \A text : text = cmd.item.text => Through(text)'
  <2> SUFFICES ASSUME Fresh, NEW text, text = cmd.item.text PROVE Through(text)'
    OBVIOUS
  <2>1. Valid(Load(text)) /\ (cmd.how.enforce => Available(text))
    BY HandIsValid DEF AtItem
  <2>2. Checked(text, cmd'.how)
    BY <1>4, <2>1 DEF Checked
  <2>3. DOMAIN jobs = 1..k
    BY <1>2 DEF Shape
  <2>4. k \in DOMAIN jobs' /\ jobs'[k].nth = cmd'.nth /\ jobs'[k].checked = text
    BY <1>1, <1>2, <1>3, <1>4, <1>8, <2>3 DEF Grown
  <2>5. Submitted(cmd.nth, text)'
    BY <2>4 DEF Submitted
  <2> QED
    BY <2>2, <2>5 DEF Through
<1> QED
  <2>1. CASE Fresh
    <3>1. Job'.nth = cmd.nth
      BY <1>3, <1>8, <2>1
    <3>2. Passing(at)
      BY <1>2, <1>3, <1>4, <1>5, <1>6, <1>7, <1>9, <3>1 DEF Passing, AtItem
    <3> QED
      BY <3>2, PassesWell
  <2>2. CASE ~Fresh
    <3>1. at \in Worked /\ Submits /\ at \notin {"shown", "preflight", "write out", "render"}
      BY <1>2 DEF Worked, AtItem, Submits
    <3>2. Working(at)
      BY <1>2, <1>3, <1>4, <1>5, <1>6, <1>7, <2>2, <3>1 DEF Working
    <3> QED
      BY <3>2, WorksWell
  <2> QED
    BY <2>1, <2>2

LEMMA CopySourceIsKept ==
  ASSUME IInv, XInv, CopySource
  PROVE  XInv'
<1>0. PICK k : k = Len(jobs)
  OBVIOUS
<1> DEFINE source == IF Job.kind = "sweep"
                   THEN [override |-> FALSE, top |-> Job.checked, sections |-> <<>>, lock |-> None]
                   ELSE Read
<1>1. /\ cmd.at = "copy" /\ UNCHANGED <<file, edits>> /\ cmd' = [cmd EXCEPT !.at = "write"]
      /\ Sourced /\ k \in Nat /\ cmd.target < k /\ cmd.target \in 0..k
  BY <1>0 DEF IInv, Shape, LastInv, CopySource, XInv
<1>2. k \in 1..Len(jobs) /\ Job = jobs[k]
  BY <1>0, <1>1 DEF Job
<1>a. PICK job : job = [Job EXCEPT !.dir = "copied", !.source = source]
  OBVIOUS
<1>3. jobs' = [jobs EXCEPT ![k] = job]
  BY <1>0, <1>2, <1>a DEF CopySource
<1>4. /\ DOMAIN Job = JobFields /\ Job = [x \in JobFields |-> Job[x]]
      /\ Ran(Job) => IsRecipe(Job.lock)
  BY <1>0, <1>1, <1>2 DEF IInv, Shape, IsJob, Sourced
<1>5. IsRecipe(source)
  <2>1. IsRecipe(Read)
    BY <1>1, ReadIsRecipe
  <2>2. CASE Job.kind = "sweep"
    BY <2>2 DEF IsRecipe
  <2> QED
    BY <2>1, <2>2
<1> HIDE DEF source
<1>6. /\ job.nth = Job.nth /\ job.checked = Job.checked /\ job.source = source
      /\ job.lock = Job.lock /\ job.state = Job.state
  BY <1>4, <1>a DEF JobFields
<1>7. Ran(job) => IsRecipe(job.lock)
  BY <1>4, <1>6 DEF Ran
<1> QED
  BY <1>0, <1>1, <1>3, <1>5, <1>6, <1>7, DirectoryStep

LEMMA WriteRestIsKept ==
  ASSUME IInv, XInv, WriteRest
  PROVE  XInv'
<1>0. PICK k : k = Len(jobs)
  OBVIOUS
<1> DEFINE variant == IF Job.kind = "override" THEN Job.checked ELSE None
<1>1. /\ cmd.at = "write" /\ UNCHANGED <<file, edits>> /\ cmd' = [cmd EXCEPT !.at = "check"]
      /\ Sourced /\ k \in Nat /\ cmd.target < k /\ cmd.target \in 0..k /\ Job.dir = "copied"
  BY <1>0 DEF IInv, Shape, LastInv, WriteRest, XInv
<1>2. k \in 1..Len(jobs) /\ Job = jobs[k]
  BY <1>0, <1>1 DEF Job
<1>a. PICK job : job = [Job EXCEPT !.dir = "whole", !.variant = variant]
  OBVIOUS
<1>3. jobs' = [jobs EXCEPT ![k] = job]
  BY <1>0, <1>2, <1>a DEF WriteRest
<1>4. /\ DOMAIN Job = JobFields /\ Job = [x \in JobFields |-> Job[x]]
      /\ Ran(Job) => IsRecipe(Job.lock)
      /\ IsRecipe(Job.source)
  BY <1>0, <1>1, <1>2 DEF IInv, Shape, IsJob, Sourced
<1> HIDE DEF variant
<1>6. /\ job.nth = Job.nth /\ job.checked = Job.checked /\ job.source = Job.source
      /\ job.lock = Job.lock /\ job.state = Job.state
  BY <1>4, <1>a DEF JobFields
<1>7. /\ Ran(job) => IsRecipe(job.lock)
      /\ IsRecipe(job.source)
  BY <1>4, <1>6 DEF Ran
<1> QED
  BY <1>0, <1>1, <1>3, <1>6, <1>7, DirectoryStep

\* A job that goes on is none that the command is at work on or reads.
LEMMA JobStep ==
  ASSUME IInv, XInv, UNCHANGED <<file, edits, cmd>>,
         NEW k \in 1..Len(jobs), jobs[k].state # "done", NEW job, jobs' = [jobs EXCEPT ![k] = job],
         job.nth = jobs[k].nth, job.checked = jobs[k].checked,
         job.dir # "empty" => IsRecipe(job.source), Ran(job) => IsRecipe(job.lock)
  PROVE  XInv'
<1>1. Shape /\ Placed /\ Sourced /\ Results /\ Rendered /\ (Fresh => Reading /\ Progress)
  BY DEF IInv, XInv
<1>2. /\ Grown /\ Len(jobs') = Len(jobs) /\ Job'.nth = Job.nth
      /\ jobs'[k] = job /\ \A j \in 1..Len(jobs) : j # k => jobs'[j] = jobs[j]
  BY JobChanged
<1>3. cmd.target # 0 => jobs'[cmd.target] = jobs[cmd.target]
  <2>1. cmd.target # 0 => cmd.target \in 1..Len(jobs) /\ jobs[cmd.target].state = "done"
    BY DEF IInv, Shape, TargetInv
  <2> QED
    BY <1>2, <2>1
<1>4. SameCommand
  BY DEF SameCommand
<1>5. /\ Read' = Read /\ (Fresh' <=> Fresh) /\ (InDirectory' <=> InDirectory) /\ (Submits' <=> Submits)
      /\ Hand' = Hand
  BY <1>3, <1>4, SameCommandKeeps DEF Hand
<1>6. Placed'
  BY <1>1, <1>5 DEF Placed
<1>7. Sourced'
  <2>1. \A j \in 1..Len(jobs') :
            \/ j \in 1..Len(jobs) /\ jobs'[j] = jobs[j]
            \/ /\ jobs'[j].dir # "empty" => IsRecipe(jobs'[j].source)
               /\ Ran(jobs'[j]) => IsRecipe(jobs'[j].lock)
    BY <1>2
  <2> QED
    BY <1>1, <2>1, SourcedStays
<1>8. ASSUME Fresh PROVE Reading' /\ Progress'
  <2>1. Reading'
    BY <1>1, <1>5, <1>8 DEF Reading
  <2>2. \A config : Treated(config) => Treated(config)'
    BY <1>2, <1>4, <1>5, TreatedStays
  <2>3. Read.override => \A k1 \in 1..(cmd.due - 1) : \A c : cmd.at \in Worked /\ c = cmd.variants[k1].text => Treated(c)'
    BY <1>1, <1>8, <2>2 DEF Progress
  <2>4. ~Read.override => \A c : cmd.at \in Worked /\ c = Read.top => Treated(c)'
    BY <1>1, <1>8, <2>2 DEF Progress
  <2>5. cmd.at \in Worked /\ Read.override => (\A k1 \in 1..(cmd.due - 1) : Treated(cmd.variants[k1].text))'
    BY <2>3 DEF Treated
  <2>6. cmd.at \in Worked /\ ~Read.override => Treated(Read.top)'
    BY <1>5, <2>4 DEF Treated
  <2>7. Progress'
    BY <1>1, <1>2, <1>5, <1>8, <2>5, <2>6 DEF Progress
  <2> QED
    BY <2>1, <2>7
<1>9. Results'
  <2>1. ASSUME cmd.target = 0, Submits, Fresh, NEW i \in 1..Len(cmd.results)
        PROVE  Verdict(i)'
    BY <1>1, <1>2, <2>1, VerdictStays DEF Results
  <2> QED
    BY <1>1, <1>5, <2>1 DEF Results
<1>10. Rendered'
  BY <1>1, <1>5 DEF Rendered
<1> QED
  BY <1>5, <1>6, <1>7, <1>8, <1>9, <1>10 DEF XInv

LEMMA LockIsRecipe ==
  ASSUME NEW source, IsRecipe(source), NEW j, NEW prints
  PROVE  IsRecipe(Locked(source, j, prints))
<1> DEFINE lock == Locked(source, j, prints)
<1>1. lock.override = source.override /\ lock.top = source.top /\ lock.sections = source.sections
  BY DEF Locked, Stripped
<1> HIDE DEF lock
<1>2. IsRecipe(lock)
  BY <1>1 DEF IsRecipe
<1> QED
  BY <1>2 DEF lock

LEMMA JobIsKept ==
  ASSUME IInv, XInv, NEW k \in DOMAIN jobs, Start(k) \/ Finish(k)
  PROVE  XInv'
<1> DEFINE old == jobs[k]
<1>1. /\ k \in 1..Len(jobs) /\ UNCHANGED <<file, edits, cmd>> /\ Sourced
      /\ DOMAIN old = JobFields /\ old = [x \in JobFields |-> old[x]]
      /\ old.dir # "empty" => IsRecipe(old.source)
  BY DEF IInv, Shape, IsJob, XInv, Sourced, Start, Finish
<1>2. CASE Start(k) /\ Starts(old)
  <2> DEFINE lock == Locked(old.source, k, NoPrints)
             prev == IF old.kind = "override" THEN None ELSE old.source.lock
             ran == Load(Named(old))
             up == [old EXCEPT !.state = "running", !.ran = ran, !.prev = prev, !.lock = lock]
  <2>1. jobs' = [jobs EXCEPT ![k] = up] /\ old.state = "queued"
    BY <1>2 DEF Start
  <2>2. old.dir # "empty"
    BY <1>2 DEF Starts, There
  <2>3. IsRecipe(lock)
    BY <1>1, <2>2, LockIsRecipe
  <2> HIDE DEF lock, prev, ran
  <2>4. /\ up.lock = lock /\ up.source = old.source /\ up.dir = old.dir
        /\ up.nth = old.nth /\ up.checked = old.checked
    BY <1>1 DEF JobFields
  <2> HIDE DEF up
  <2> QED
    BY <1>1, <2>1, <2>3, <2>4, JobStep
<1>3. CASE Start(k) /\ ~Starts(old)
  <2> DEFINE early == old.dir # "whole"
             down == [old EXCEPT !.state = "failed", !.early = early]
  <2>1. jobs' = [jobs EXCEPT ![k] = down] /\ old.state = "queued"
    BY <1>3 DEF Start
  <2> HIDE DEF early
  <2>2. /\ down.state = "failed" /\ down.source = old.source /\ down.dir = old.dir
        /\ down.nth = old.nth /\ down.checked = old.checked
    BY <1>1 DEF JobFields
  <2> HIDE DEF down
  <2>3. ~Ran(down)
    BY <2>2 DEF Ran
  <2> QED
    BY <1>1, <2>1, <2>2, <2>3, JobStep
<1>4. CASE Finish(k)
  <2>1. PICK prints \in Prints :
         jobs' = [jobs EXCEPT ![k] = [old EXCEPT !.state = "done", !.prints = prints,
                                                 !.lock = Locked(old.source, k, prints),
                                                 !.report = Report(old.prev, prints)]]
    BY <1>4 DEF Finish
  <2> DEFINE lock == Locked(old.source, k, prints)
             report == Report(old.prev, prints)
             over == [old EXCEPT !.state = "done", !.prints = prints, !.lock = lock, !.report = report]
  <2>2. old.state = "running" /\ jobs' = [jobs EXCEPT ![k] = over]
    BY <1>4, <2>1 DEF Finish
  <2>3. old.dir # "empty"
    <3>1. History(k)
      BY <1>1 DEF IInv, JobInv
    <3> QED
      BY <2>2, <3>1 DEF History, Ran, There
  <2>4. IsRecipe(lock)
    BY <1>1, <2>3, LockIsRecipe
  <2> HIDE DEF lock, report
  <2>5. /\ over.lock = lock /\ over.source = old.source /\ over.dir = old.dir
        /\ over.nth = old.nth /\ over.checked = old.checked
    BY <1>1 DEF JobFields
  <2> HIDE DEF over
  <2> QED
    BY <1>1, <2>2, <2>4, <2>5, JobStep
<1> QED
  BY <1>2, <1>3, <1>4

-----------------------------------------------------------------------------
(* Recipes are expanded exactly                                            *)

LEMMA ExpansionStarts ==
  ASSUME Init
  PROVE  XInv
<1>1. /\ cmd.at = "idle" /\ cmd.how = Plainly /\ cmd.target = 0 /\ cmd.sel = All /\ cmd.nth = 1
      /\ cmd.variants = <<>> /\ cmd.due = 1 /\ cmd.points = {} /\ cmd.results = <<>>
  BY DEF Init, Idle
<1>2. Placed
  BY <1>1 DEF Placed, Worked, AtItem, Plainly
<1>3. Sourced
  <2>1. file \in [dir: BOOLEAN, of: Seq(Recipes)] /\ file.of # <<>> /\ (file.dir \/ Len(file.of) = 1)
    BY FilesAssumption DEF Init
  <2>2. file.of \in Seq(Recipes) /\ Len(file.of) \in Nat /\ 1 \in 1..Len(file.of)
    BY <2>1
  <2>3. ~cmd.how.stdin /\ Len(jobs) = 0
    BY <1>1 DEF Init, Plainly
  <2> QED
    BY <1>1, <2>1, <2>2, <2>3, SelectorsAssumption DEF Sourced
<1>4. Reading /\ Progress
  BY <1>1 DEF Reading, Progress, Worked, AtItem
<1>5. Results
  <2>1. Len(cmd.results) = 0 /\ cmd.results \in Seq({"ok", "rejected", "not submitted"})
    BY <1>1
  <2> QED
    BY <1>1, <2>1 DEF Results
<1>6. Rendered
  BY <1>1 DEF Rendered
<1> QED
  BY <1>2, <1>3, <1>4, <1>5, <1>6 DEF XInv

LEMMA ExpansionStutters ==
  ASSUME XInv, UNCHANGED vars
  PROVE  XInv'
<1>1. /\ file' = file /\ edits' = edits /\ cmd' = cmd /\ jobs' = jobs
  BY DEF vars
<1>2. Read' = Read /\ (Fresh' <=> Fresh)
  BY <1>1 DEF Read, Fresh
<1>3. Placed'
  BY <1>1 DEF XInv, Placed, Submits, InDirectory
<1>4. Sourced'
  BY <1>1 DEF XInv, Sourced
<1>5. Fresh => Reading'
  BY <1>1, <1>2 DEF XInv, Reading, Submits
<1>6. Fresh => Progress'
  <2>1. ASSUME NEW config, Treated(config) PROVE Treated(config)'
    BY <1>1, <1>2, <2>1 DEF Treated, Hand, Through, Submitted
  <2> QED
    BY <1>1, <1>2, <2>1 DEF XInv, Progress, Job
<1>7. Results'
  <2>1. \A i : Verdict(i) => Verdict(i)'
    BY <1>1 DEF Verdict, SourceAt, Taken, Submitted
  <2> QED
    BY <1>1, <1>2, <2>1 DEF XInv, Results, Submits
<1>8. Rendered'
  BY <1>1, <1>2 DEF XInv, Rendered
<1> QED
  BY <1>2, <1>3, <1>4, <1>5, <1>6, <1>7, <1>8 DEF XInv

LEMMA ExpansionIsKept ==
  ASSUME IInv, XInv, [Next]_vars
  PROVE  XInv'
<1>1. CASE Edit
  BY <1>1, EditIsKept
<1>2. CASE Apply
  BY <1>2, ApplyIsKept
<1>3. CASE RefuseDirectory
  BY <1>3, RefuseDirectoryIsKept
<1>4. CASE Dispatch
  BY <1>4, DispatchIsKept
<1>5. CASE DispatchResolve
  BY <1>5, DispatchResolveIsKept
<1>6. CASE DispatchPreflight
  BY <1>6, DispatchPreflightIsKept
<1>7. CASE NextFile
  BY <1>7, NextFileIsKept
<1>8. CASE Generate
  BY <1>8, GenerateIsKept
<1>9. CASE ReadComments
  BY <1>9, ReadCommentsIsKept
<1>10. CASE ReadPlain
  BY <1>10, ReadPlainIsKept
<1>11. CASE WriteOut
  BY <1>11, WriteOutIsKept
<1>12. CASE RenderBash
  BY <1>12, RenderBashIsKept
<1>13. CASE ReadSweep
  BY <1>13, ReadSweepIsKept
<1>14. CASE ReadSingle
  BY <1>14, ReadSingleIsKept
<1>15. CASE NothingLeft
  BY <1>15, NothingLeftIsKept
<1>16. CASE CheckItem
  BY <1>16, CheckItemIsKept
<1>17. CASE Show
  BY <1>17, ShowIsKept
<1>18. CASE Preflight
  BY <1>18, PreflightIsKept
<1>19. CASE Sbatch
  BY <1>19, SbatchIsKept
<1>20. CASE SbatchFails \/ WriteFails
  BY <1>20, FailsIsKept
<1>21. CASE SetupMissing
  BY <1>21, SetupMissingIsKept
<1>22. CASE CopySource
  BY <1>22, CopySourceIsKept
<1>23. CASE WriteRest
  BY <1>23, WriteRestIsKept
<1>24. CASE \E k \in DOMAIN jobs : Start(k) \/ Finish(k)
  BY <1>24, JobIsKept
<1>25. CASE UNCHANGED vars
  BY <1>25, ExpansionStutters
<1> QED
  BY <1>1, <1>2, <1>3, <1>4, <1>5, <1>6, <1>7, <1>8, <1>9, <1>10, <1>11, <1>12, <1>13, <1>14,
     <1>15, <1>16, <1>17, <1>18, <1>19, <1>20, <1>21, <1>22, <1>23, <1>24, <1>25 DEF Next

\* The places a command goes through, what it has read and what it has decided agree with the
\* recipe, for every file, selector and command.
THEOREM ExpansionInvariant == Spec => []XInv
<1>1. Init => XInv
  BY ExpansionStarts
<1>2. IInv /\ XInv /\ [Next]_vars => XInv'
  BY ExpansionIsKept
<1> QED
  BY <1>1, <1>2, SubmissionInvariant, PTL DEF Spec

LEMMA ResolvedNow ==
  ASSUME IInv, XInv
  PROVE  ResolvedAsGenerated
<1> SUFFICES ASSUME StillSame, cmd.at # "idle", Read.override, Unambiguous(Read)
             PROVE  LET generated == Range(generate_override_configs(Read, cmd.sel)) IN
                    /\ cmd.at \in {"check", "preflight", "sbatch", "shown"} =>
                         \A item \in Range(cmd.variants) :
                            [suffix |-> item.suffix, config |-> item.text] \in generated
                    /\ cmd.at = "done" /\ cmd.how.verb = "resolve-override" =>
                         \A v \in generated : cmd.out[v.suffix] = v.config
                    /\ cmd.at = "done" /\ cmd.how.verb = "bash" =>
                         \A v \in generated : Unobserved(v.config) => cmd.out = PlanOf(Load(v.config))
  BY DEF ResolvedAsGenerated
<1> DEFINE plain == generate_override_configs(Read, cmd.sel)
<1>1. Fresh
  BY DEF StillSame, Fresh
<1>2. IsRecipe(Read) /\ cmd.sel \in Selectors /\ Reading
  BY <1>1, ReadIsRecipe DEF XInv, Sourced
<1>3. ASSUME cmd.at \in {"check", "preflight", "sbatch", "shown"}, NEW item \in Range(cmd.variants)
      PROVE  [suffix |-> item.suffix, config |-> item.text] \in Range(plain)
  <2>1. Expandable(Read, cmd.sel) /\ cmd.variants = ItemsOf(Read, cmd.sel)
    BY <1>2, <1>3 DEF Reading, Worked, AtItem
  <2>2. /\ DOMAIN plain = 1..Len(plain) /\ DOMAIN cmd.variants = 1..Len(plain)
        /\ \A k \in 1..Len(plain) :
              /\ cmd.variants[k].suffix = plain[k].suffix /\ cmd.variants[k].text = plain[k].config
              /\ plain[k] = [suffix |-> plain[k].suffix, config |-> plain[k].config]
    BY <1>2, <2>1, ItemsAre
  <2>3. PICK k \in DOMAIN cmd.variants : item = cmd.variants[k]
    BY <1>3 DEF Range
  <2> HIDE DEF plain
  <2>4. [suffix |-> item.suffix, config |-> item.text] = plain[k]
    BY <2>2, <2>3
  <2> QED
    BY <2>2, <2>3, <2>4 DEF Range
<1>4. cmd.at = "done" =>
        /\ cmd.how.verb = "resolve-override" => \A v \in Range(plain) : cmd.out[v.suffix] = v.config
        /\ cmd.how.verb = "bash" =>
             \A v \in Range(plain) : Unobserved(v.config) => cmd.out = PlanOf(Load(v.config))
  BY <1>1 DEF XInv, Rendered
<1> HIDE DEF plain
<1> QED
  BY <1>3, <1>4 DEF plain

LEMMA RejectedNow ==
  ASSUME XInv
  PROVE  RejectedWhenBad
<1> SUFFICES ASSUME StillSame, cmd.at \in {"done", "failed"}, Submits, cmd.target = 0
             PROVE  /\ \A i \in DOMAIN cmd.results :
                         LET source == IF cmd.how.stdin THEN cmd.stdin ELSE file.of[i] IN
                         Unambiguous(source) =>
                           /\ cmd.results[i] = "rejected" => ~Good(source, cmd.sel, cmd.how)
                           /\ cmd.results[i] = "ok" =>
                                /\ Good(source, cmd.sel, cmd.how)
                                /\ cmd.how.verb = "apply" => \A c \in Meant(source, cmd.sel) :
                                      \A p \in Points(c) : Submitted(i, p)
                    /\ cmd.at = "done" => Len(cmd.results) = Len(file.of)
  BY DEF RejectedWhenBad
<1>1. Fresh
  BY DEF StillSame, Fresh
<1>2. Results /\ cmd.results \in Seq({"ok", "rejected", "not submitted"})
  BY DEF XInv, Results
<1>3. ASSUME NEW i \in DOMAIN cmd.results PROVE Verdict(i)
  <2>0. \A S : cmd.results \in Seq(S) => DOMAIN cmd.results = 1..Len(cmd.results)
    OBVIOUS
  <2>1. i \in 1..Len(cmd.results)
    BY <1>2, <1>3, <2>0
  <2>2. \A k \in 1..Len(cmd.results) : Verdict(k)
    BY <1>1, <1>2 DEF Results
  <2> QED
    BY <2>1, <2>2
<1>4. cmd.at = "done" => Len(cmd.results) = Len(file.of)
  BY <1>2 DEF Results
<1> QED
  BY <1>3, <1>4 DEF Verdict, SourceAt, Taken

\* Whatever the recipes, selectors and commands: what is submitted, written out and rendered of
\* an override file is what generate_override_configs makes of it, and srtctl turns a recipe
\* down exactly when one of the configurations it stands for is bad, and otherwise submits
\* every one of them.
THEOREM RecipesAreExpandedExactly == Spec => []ExpandedExactly
<1>1. IInv /\ XInv => ExpandedExactly
  BY ResolvedNow, RejectedNow DEF ExpandedExactly
<1> QED
  BY <1>1, SubmissionInvariant, ExpansionInvariant, PTL
=============================================================================
