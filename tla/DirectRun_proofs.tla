-------------------------- MODULE DirectRun_proofs --------------------------
(***************************************************************************)
(* Proofs about DirectRun, for any number of runs, workers and revisions.  *)
(*                                                                         *)
(* The inductive invariant says, part by part: the types (Shape); which    *)
(* containers and which runner there may be at each step of the host       *)
(* runner (HostInv); that runs with one output directory do not overlap    *)
(* (AloneInv); what the runner in the container has to show for the        *)
(* stages it has passed (ProgressInv); when it has asked for the revision  *)
(* (RevisionInv); that it holds the lock of the cache it works on          *)
(* (LockInv); and, where hosts and containers agree on the revision, that  *)
(* a complete cache is whole and only a cache that is not complete is      *)
(* written (CacheInv), and that a run's Dynamo stays in its runtime until  *)
(* another run installs its own (VenvInv).  The order of the stages, which *)
(* the last five rest on, is proved first (StagesInOrder).                 *)
(***************************************************************************)
EXTENDS DirectRun, SequenceTheorems, TLAPS

-----------------------------------------------------------------------------
(* The inductive invariant.                                                *)

Containers == {"mooncake", "main"}
Fates == {"live", "zero", "failed", "stopped"}
Codes == {"none", "ok", "error", "signal", "raised"}
Parts == {"process", "local_dir"}
Outcomes == {"none", "tried", "done"}
HostPlaces == {"idle", "prepare", "stale", "name", "mooncake", "revision", "main", "exec", "wait",
               "rm_mooncake", "rm_main", "owner", "ended", "killed"}
Phases == {"absent", "running", "cleanup", "ended", "dead"}

HostRecord == [at : HostPlaces, code : Codes, seen : Revisions \cup {None}, named : BOOLEAN,
               lost : SUBSET Containers]
InnerRecord == [phase : Phases, pc : Nat \ {0}, code : Codes, rev : Revisions \cup {None},
                scraper : SUBSET Parts, compacted : Outcomes, normalized : Outcomes]
Entry == [copied : BOOLEAN, whole : BOOLEAN, complete : BOOLEAN]

Labels == UNION {Owned[r] : r \in Runs}
Tables == UNION {[P -> Fates] : P \in SUBSET Labels}

Shape ==
    /\ host \in [Runs -> HostRecord]
    /\ docker \in [Runs -> SUBSET Containers]
    /\ inner \in [Runs -> InnerRecord]
    /\ proc \in [Runs -> Tables]
    /\ \A r \in Runs : DOMAIN proc[r] \subseteq Owned[r]
    /\ disk \in [Caches -> Entry] /\ head \in Revisions
    /\ flock \in [Caches -> Runs \cup {None}] /\ venv \in [DynamoParts \X Revisions -> Runs \cup {None}]
    /\ trouble \in 0..MaxTrouble

\* What the host runner has not begun yet.
Before == {"idle", "prepare", "stale", "name", "mooncake", "revision", "main", "exec"}

HostOk(r) ==
        /\ host[r].at = "idle" => host[r] = Idle
        /\ host[r].at \in Before => /\ inner[r] = Absent /\ DOMAIN proc[r] = {} /\ host[r].code = "none"
        /\ host[r].at \in {"idle", "prepare", "stale", "name", "mooncake"} => docker[r] = {}
        /\ host[r].at \in {"revision", "main"} => docker[r] \subseteq {"mooncake"}
        /\ host[r].at = "mooncake" \/ "mooncake" \in docker[r] => host[r].named
        /\ host[r].at = "rm_main" => docker[r] \subseteq {"main"} \cup host[r].lost
        /\ host[r].at = "owner" => docker[r] \subseteq host[r].lost
        /\ host[r].at = "ended" /\ host[r].code # "raised" => docker[r] \subseteq host[r].lost
        /\ host[r].at \in {"main", "exec", "wait"} \/ inner[r].phase # "absent" => host[r].seen \in Revisions

HostInv == \A r \in Runs : HostOk(r)

\* Two runners that are alive have directories of their own.
Busy(r) == host[r].at # "idle" /\ ~Over(r)
AloneInv == \A q, r \in Runs : q # r /\ out[q] = out[r] /\ Busy(q) => ~Busy(r)

\* What the stages before the current one have left.
Passed(r, n) == n \in DOMAIN Stages[r] /\ n < inner[r].pc

NoneLive(r) == \A p \in DOMAIN proc[r] : proc[r][p] # "live"

ScraperGone(r) == "process" \in inner[r].scraper => proc[r]["tachometer"] # "live"
Compacted(r) == inner[r].compacted # "none" <=> "local_dir" \in inner[r].scraper
Normalized(r) == inner[r].normalized # "none" <=> Has(r, "ruter")

PassedOk(r) ==
    \A n : Passed(r, n) =>
        /\ Stages[r][n][1] = "launch" => Stages[r][n][2] \in DOMAIN proc[r]
        /\ Stages[r][n][1] = "scraper" => Stages[r][n][2] \in inner[r].scraper

ScraperOk(r) ==
    inner[r].scraper # {} =>
        Has(r, "tachometer") /\ "process" \in inner[r].scraper /\ "tachometer" \in DOMAIN proc[r]

\* How far the clean-up has come.
CleanupOk(r) ==
    inner[r].phase = "cleanup" =>
        /\ inner[r].code # "raised"
        /\ inner[r].pc > 1 => ScraperGone(r)
        /\ inner[r].pc <= 2 => inner[r].compacted = "none"
        /\ inner[r].pc > 2 => Compacted(r)
        /\ inner[r].pc > 3 => NoneLive(r)

EndedOk(r) ==
    inner[r].phase = "ended" /\ inner[r].code # "raised" =>
        NoneLive(r) /\ Compacted(r) /\ Normalized(r)

\* What the watch over the benchmark has found.
SucceededOk(r) ==
    inner[r].phase \in {"cleanup", "ended"} /\ inner[r].code = "ok" =>
        /\ DOMAIN proc[r] = Owned[r] /\ proc[r]["benchmark"] = "zero"
        /\ Has(r, "tachometer") => inner[r].scraper = Parts

ProgressOk(r) ==
    /\ inner[r].phase = "running" => inner[r].code = "none" /\ inner[r].compacted = "none" /\ PassedOk(r)
    /\ ScraperOk(r) /\ CleanupOk(r) /\ EndedOk(r) /\ SucceededOk(r)
    /\ host[r].code = "ok" => inner[r].phase = "ended" /\ inner[r].code = "ok"

ProgressInv == \A r \in Runs : ProgressOk(r)

RevisionAt(r) == IF Has(r, "setup") THEN 3 ELSE 2

RevisionInv ==
    \A r \in Runs :
        inner[r].phase = "running" => (inner[r].rev # None <=> inner[r].pc > RevisionAt(r))

Agreed == \A r \in Runs : inner[r].rev \in {None, host[r].seen}

\* Run r is at a step of one of these kinds of the cache c.
At(r, kinds, c) ==
    /\ inner[r].phase = "running" /\ inner[r].pc \in DOMAIN Stages[r]
    /\ Stages[r][inner[r].pc][1] \in kinds /\ Stages[r][inner[r].pc][2] = c

CacheNames == {"sglang", "dynamo"}

LockInv ==
    \A r \in Runs, c \in CacheNames :
        At(r, {"check", "wipe", "copy", "install", "mark", "release"}, c) => flock[LockOf(r, c)] = r

CacheInv ==
    /\ \A x \in Caches : disk[x].complete => disk[x].whole
    /\ \A r \in Runs, c \in CacheNames :
         /\ At(r, {"wipe", "copy", "install", "mark"}, c) => ~disk[Dir(r, c)].complete
         /\ At(r, {"mark"}, c) => disk[Dir(r, c)].whole
         /\ inner[r].phase = "running" /\ (\E n : Passed(r, n) /\ Stages[r][n] = <<"mark", c>>) =>
              disk[Dir(r, c)].complete

\* What a run has put into its runtime is there, or another run has got to that stage.
VenvOk(r) ==
    inner[r].phase = "running" =>
        \A part \in DynamoParts : Past(r, <<"in", part>>) => venv[<<part, host[r].seen>>] = r \/ Shared(r)
VenvInv == \A r \in Runs : VenvOk(r)

IInv ==
    /\ Shape /\ HostInv /\ AloneInv /\ ProgressInv /\ RevisionInv /\ LockInv
    /\ Agreed => CacheInv /\ VenvInv

-----------------------------------------------------------------------------
(* The order of the stages.                                                *)

CacheKinds == {"lock", "check", "wipe", "copy", "install", "mark", "release", "use"}
FirstKinds == CacheKinds \cup {"run", "revision", "launch", "ready", "out", "in", "import"}

WorkerLabels(r) == {Workers[r][n] : n \in DOMAIN Workers[r]}
Names == {"setup", "checks", "sglang", "dynamo", "top_of_tree", "nats", "etcd", "mooncake_ports", "router", "smoke",
          "tachometer", "process", "local_dir", "benchmark", "services", "wheel", "tree"}
         \cup UNION {WorkerLabels(r) : r \in Runs}
Step == (FirstKinds \cup {"scraper", "started", "watch", "alive"}) \X Names

After(s, n, before, kind) == s[n][1] = kind => n > 1 /\ s[n - 1] = <<before, s[n][2]>>

\* A sequence that takes the steps of a cache in their order, and whose check may skip to
\* the release; and that puts in what it has taken out.
WellAt(s, n) ==
    /\ After(s, n, "lock", "check") /\ After(s, n, "check", "wipe") /\ After(s, n, "wipe", "copy")
    /\ After(s, n, "copy", "install") /\ After(s, n, "install", "mark") /\ After(s, n, "mark", "release")
    /\ After(s, n, "release", "use") /\ After(s, n, "out", "in")
    /\ s[n][1] = "check" => n + 5 \in 1..Len(s) /\ s[n + 5] = <<"release", s[n][2]>>
    /\ s[n][1] = "out" => n + 1 \in 1..Len(s) /\ s[n + 1] = <<"in", s[n][2]>>

WellFormed(s) == \A n \in 1..Len(s) : WellAt(s, n)

\* A part of the stages before the benchmark, with no scraper and no revision in it.
Plain(s) ==
    /\ s \in Seq(Step) /\ WellFormed(s)
    /\ \A n \in 1..Len(s) :
         s[n][1] \in FirstKinds \ {"revision"} /\ (s[n][1] \in CacheKinds => s[n][2] \in CacheNames)

\* ConcatPlain: two such parts in a row are one.
LEMMA ConcatPlain ==
  ASSUME NEW s, NEW t, Plain(s), Plain(t)
  PROVE  Plain(s \o t)
<1> DEFINE u == s \o t
<1>1. /\ s \in Seq(Step) /\ t \in Seq(Step)
      /\ Len(s) \in Nat /\ Len(t) \in Nat
  BY LenProperties DEF Plain
<1>2. /\ u \in Seq(Step)
      /\ Len(u) = Len(s) + Len(t)
      /\ \A n \in 1..(Len(s) + Len(t)) : u[n] = IF n <= Len(s) THEN s[n] ELSE t[n - Len(s)]
  BY <1>1, ConcatProperties
<1> HIDE DEF u
<1>3. \A n \in 1..Len(s) : n \in 1..Len(u) /\ u[n] = s[n]
  BY <1>1, <1>2
<1>4. ASSUME NEW n \in 1..Len(t) PROVE n + Len(s) \in 1..Len(u) /\ u[n + Len(s)] = t[n]
  <2>1. /\ n + Len(s) \in 1..(Len(s) + Len(t)) /\ ~(n + Len(s) <= Len(s))
        /\ (n + Len(s)) - Len(s) = n
    BY <1>1
  <2> QED
    BY <1>2, <2>1
<1>5. ASSUME NEW n \in 1..Len(u)
      PROVE  \/ n \in 1..Len(s)
             \/ \E m \in 1..Len(t) : n = m + Len(s)
  <2>1. CASE n <= Len(s)
    BY <1>1, <2>1
  <2>2. CASE ~(n <= Len(s))
    <3>1. n - Len(s) \in 1..Len(t) /\ n = (n - Len(s)) + Len(s)
      BY <1>1, <1>2, <2>2
    <3> QED
      BY <3>1
  <2> QED
    BY <2>1, <2>2
<1>6. ASSUME NEW n \in 1..Len(u) PROVE u[n][1] \in FirstKinds \ {"revision"} /\ (u[n][1] \in CacheKinds => u[n][2] \in CacheNames)
  <2>1. CASE n \in 1..Len(s)
    BY <1>3, <2>1 DEF Plain
  <2>2. ASSUME NEW m \in 1..Len(t), n = m + Len(s) PROVE u[n][1] \in FirstKinds \ {"revision"} /\ (u[n][1] \in CacheKinds => u[n][2] \in CacheNames)
    BY <1>4, <2>2 DEF Plain
  <2> QED
    BY <1>5, <2>1, <2>2
<1>7. WellFormed(u)
  <2> SUFFICES ASSUME NEW n \in 1..Len(u)
               PROVE  WellAt(u, n)
    BY DEF WellFormed
  <2>1. CASE n \in 1..Len(s)
    <3>1. n > 1 => n - 1 \in 1..Len(s)
      BY <1>1, <2>1
    <3>2. u[n] = s[n] /\ (n > 1 => u[n - 1] = s[n - 1])
      BY <1>3, <2>1, <3>1
    <3>3. /\ n + 5 \in 1..Len(s) => n + 5 \in 1..Len(u) /\ u[n + 5] = s[n + 5]
          /\ n + 1 \in 1..Len(s) => n + 1 \in 1..Len(u) /\ u[n + 1] = s[n + 1]
      BY <1>3
    <3> QED
      BY <2>1, <3>2, <3>3 DEF Plain, WellFormed, WellAt, After
  <2>2. ASSUME NEW m \in 1..Len(t), n = m + Len(s)
        PROVE  WellAt(u, n)
    <3>1. u[n] = t[m]
      BY <1>4, <2>2
    <3>2. m > 1 => n > 1 /\ u[n - 1] = t[m - 1]
      <4>1. m > 1 => m - 1 \in 1..Len(t) /\ n - 1 = (m - 1) + Len(s) /\ n > 1
        BY <1>1, <2>2
      <4> QED
        BY <1>4, <4>1
    <3>3. /\ m + 5 \in 1..Len(t) => n + 5 \in 1..Len(u) /\ u[n + 5] = t[m + 5]
          /\ m + 1 \in 1..Len(t) => n + 1 \in 1..Len(u) /\ u[n + 1] = t[m + 1]
      <4>1. n + 5 = (m + 5) + Len(s) /\ n + 1 = (m + 1) + Len(s)
        BY <1>1, <2>2
      <4>2. m + 5 \in 1..Len(t) => n + 5 \in 1..Len(u) /\ u[n + 5] = t[m + 5]
        BY <1>4, <4>1
      <4>3. m + 1 \in 1..Len(t) => n + 1 \in 1..Len(u) /\ u[n + 1] = t[m + 1]
        BY <1>4, <4>1
      <4> QED
        BY <4>2, <4>3
    <3>4. WellAt(t, m)
      BY DEF Plain, WellFormed
    <3> QED
      BY <3>1, <3>2, <3>3, <3>4, SMTT(30) DEF WellAt, After
  <2> QED
    BY <1>5, <2>1, <2>2
<1> QED
  BY <1>2, <1>6, <1>7 DEF Plain, u

\* PlainPieces: what the stages are put together from.
LEMMA PlainPieces ==
  /\ \A what \in Names, k \in {"run", "ready"} : Plain(<< <<k, what>> >>)
  /\ Plain(<<>>)
  /\ \A c \in CacheNames : Plain(CacheSteps(c))
  /\ Plain(PipSteps)
  /\ \A labels \in Seq(Names) : Plain(Launches(labels))
<1>1. ASSUME NEW what \in Names, NEW k \in {"run", "ready"} PROVE Plain(<< <<k, what>> >>)
  <2> DEFINE s == << <<k, what>> >>
  <2>1. <<k, what>> \in Step
    BY DEF Step, FirstKinds, CacheKinds
  <2>2. s \in Seq(Step) /\ Len(s) = 1 /\ s[1] = <<k, what>>
    BY <2>1
  <2> HIDE DEF s
  <2>3. \A n \in 1..Len(s) : n = 1
    BY <2>2
  <2>4. Plain(s)
    BY <2>2, <2>3 DEF Plain, WellFormed, WellAt, After, FirstKinds, CacheKinds
  <2> QED
    BY <2>4 DEF s
<1>2. Plain(<<>>)
  BY DEF Plain, WellFormed
<1>3. ASSUME NEW c \in CacheNames PROVE Plain(CacheSteps(c))
  <2> DEFINE s == CacheSteps(c)
  <2>1. s \in Seq(Step) /\ Len(s) = 8
    <3>1. \A k \in CacheKinds : <<k, c>> \in Step
      BY DEF Step, FirstKinds, CacheKinds, CacheNames, Names
    <3> QED
      BY <3>1 DEF CacheSteps, CacheKinds
  <2>2. /\ s[1] = <<"lock", c>> /\ s[2] = <<"check", c>> /\ s[3] = <<"wipe", c>> /\ s[4] = <<"copy", c>>
        /\ s[5] = <<"install", c>> /\ s[6] = <<"mark", c>> /\ s[7] = <<"release", c>> /\ s[8] = <<"use", c>>
    BY DEF CacheSteps
  <2> HIDE DEF s
  <2>3. ASSUME NEW n \in 1..8
        PROVE  s[n][1] \in FirstKinds \ {"revision"} /\ WellAt(s, n)
    <3>1. n \in {1, 2, 3, 4, 5, 6, 7, 8}
      OBVIOUS
    <3> QED
      BY <2>1, <2>2, <3>1 DEF FirstKinds, CacheKinds, WellAt, After
  <2>4. Plain(s)
    <3>1. \A n \in 1..8 : s[n][2] = c
      <4>1. \A n \in 1..8 : n \in {1, 2, 3, 4, 5, 6, 7, 8}
        OBVIOUS
      <4> QED
        BY <2>2, <4>1
    <3> QED
      BY <2>1, <2>3, <3>1 DEF Plain, WellFormed
  <2> QED
    BY <2>4 DEF s
<1>4. ASSUME NEW labels \in Seq(Names) PROVE Plain(Launches(labels))
  <2> DEFINE s == Launches(labels)
  <2>1. DOMAIN labels = 1..Len(labels) /\ Len(labels) \in Nat /\ \A n \in 1..Len(labels) : labels[n] \in Names
    BY LenProperties, ElementOfSeq
  <2>2. s = [n \in 1..Len(labels) |-> <<"launch", labels[n]>>]
    BY <2>1 DEF Launches
  <2>3. s \in Seq(Step) /\ Len(s) = Len(labels)
    <3>1. \A n \in 1..Len(labels) : <<"launch", labels[n]>> \in Step
      BY <2>1 DEF Step, FirstKinds
    <3>2. s \in [1..Len(labels) -> Step]
      BY <2>2, <3>1
    <3> QED
      BY <2>1, <3>2
  <2>4. \A n \in 1..Len(s) : s[n][1] = "launch"
    BY <2>2, <2>3
  <2> HIDE DEF s
  <2>5. Plain(s)
    BY <2>3, <2>4 DEF Plain, WellFormed, WellAt, After, FirstKinds, CacheKinds
  <2> QED
    BY <2>5 DEF s
<1>5. Plain(PipSteps)
  <2> DEFINE s == PipSteps
  <2>1. s \in Seq(Step) /\ Len(s) = 5
    <3>1. /\ <<"out", "wheel">> \in Step /\ <<"in", "wheel">> \in Step /\ <<"out", "tree">> \in Step
          /\ <<"in", "tree">> \in Step /\ <<"import", "dynamo">> \in Step
      BY DEF Step, FirstKinds, Names
    <3> QED
      BY <3>1 DEF PipSteps
  <2>2. /\ s[1] = <<"out", "wheel">> /\ s[2] = <<"in", "wheel">> /\ s[3] = <<"out", "tree">>
        /\ s[4] = <<"in", "tree">> /\ s[5] = <<"import", "dynamo">>
    BY DEF PipSteps
  <2> HIDE DEF s
  <2>3. \A n \in 1..Len(s) : n \in {1, 2, 3, 4, 5}
    BY <2>1
  <2>4. Plain(s)
    BY <2>1, <2>2, <2>3 DEF Plain, WellFormed, WellAt, After, FirstKinds, CacheKinds
  <2> QED
    BY <2>4 DEF s
<1> QED
  BY <1>1, <1>2, <1>3, <1>4, <1>5

Contains(s, e) == \E n \in 1..Len(s) : s[n] = e

\* ConcatContains: both parts are in the whole.
LEMMA ConcatContains ==
  ASSUME NEW s \in Seq(Step), NEW t \in Seq(Step), NEW e, Contains(s, e) \/ Contains(t, e)
  PROVE  Contains(s \o t, e)
<1>1. /\ Len(s) \in Nat /\ Len(t) \in Nat
      /\ Len(s \o t) = Len(s) + Len(t)
      /\ \A n \in 1..(Len(s) + Len(t)) : (s \o t)[n] = IF n <= Len(s) THEN s[n] ELSE t[n - Len(s)]
  BY LenProperties, ConcatProperties
<1>2. CASE Contains(s, e)
  <2>1. PICK n \in 1..Len(s) : s[n] = e
    BY <1>2 DEF Contains
  <2>2. n \in 1..(Len(s) + Len(t)) /\ n <= Len(s)
    BY <1>1
  <2>3. n \in 1..Len(s \o t) /\ (s \o t)[n] = e
    BY <1>1, <2>1, <2>2
  <2> QED
    BY <2>3 DEF Contains
<1>3. CASE Contains(t, e)
  <2>1. PICK n \in 1..Len(t) : t[n] = e
    BY <1>3 DEF Contains
  <2>2. /\ n + Len(s) \in 1..(Len(s) + Len(t)) /\ ~(n + Len(s) <= Len(s))
        /\ (n + Len(s)) - Len(s) = n
    BY <1>1
  <2>3. n + Len(s) \in 1..Len(s \o t) /\ (s \o t)[n + Len(s)] = e
    BY <1>1, <2>1, <2>2
  <2> QED
    BY <2>3 DEF Contains
<1> QED
  BY <1>2, <1>3

\* A part that installs no SGLang; and a sequence that installs it before it puts any Dynamo
\* into the runtime.
Late(s) == \A n \in 1..Len(s) : s[n][1] \in CacheKinds => s[n][2] # "sglang"
DynamoLast(s) == \A n, m \in 1..Len(s) : s[m][1] = "in" /\ s[n][1] \in CacheKinds /\ s[n][2] = "sglang" => n < m

\* ConcatLast: what follows such a sequence and installs no SGLang leaves it one.
LEMMA ConcatLast ==
  ASSUME NEW s \in Seq(Step), NEW t \in Seq(Step), DynamoLast(s), Late(t)
  PROVE  DynamoLast(s \o t)
<1> DEFINE u == s \o t
<1>1. /\ Len(s) \in Nat /\ Len(t) \in Nat
      /\ Len(u) = Len(s) + Len(t)
      /\ \A n \in 1..(Len(s) + Len(t)) : u[n] = IF n <= Len(s) THEN s[n] ELSE t[n - Len(s)]
  BY LenProperties, ConcatProperties
<1> HIDE DEF u
<1> SUFFICES ASSUME NEW n \in 1..Len(u), NEW m \in 1..Len(u),
                    u[m][1] = "in", u[n][1] \in CacheKinds, u[n][2] = "sglang"
             PROVE  n < m
  BY DEF DynamoLast, u
<1>2. n <= Len(s)
  <2> SUFFICES ASSUME ~(n <= Len(s)) PROVE FALSE
    OBVIOUS
  <2>1. n - Len(s) \in 1..Len(t) /\ u[n] = t[n - Len(s)]
    BY <1>1
  <2> QED
    BY <2>1 DEF Late
<1>3. CASE m <= Len(s)
  <2>1. n \in 1..Len(s) /\ m \in 1..Len(s) /\ u[n] = s[n] /\ u[m] = s[m]
    BY <1>1, <1>2, <1>3
  <2> QED
    BY <2>1 DEF DynamoLast
<1>4. CASE ~(m <= Len(s))
  BY <1>1, <1>2, <1>4
<1> QED
  BY <1>3, <1>4

\* LatePieces: of the parts, only SGLang's own cache installs SGLang.
LEMMA LatePieces ==
  /\ \A what \in Names, k \in {"run", "ready"} : Late(<< <<k, what>> >>)
  /\ Late(<<>>) /\ Late(CacheSteps("dynamo")) /\ Late(PipSteps)
  /\ \A labels \in Seq(Names) : Late(Launches(labels))
  /\ DynamoLast(CacheSteps("sglang"))
<1>1. ASSUME NEW what \in Names, NEW k \in {"run", "ready"} PROVE Late(<< <<k, what>> >>)
  <2> DEFINE s == << <<k, what>> >>
  <2>1. Len(s) = 1 /\ s[1] = <<k, what>>
    OBVIOUS
  <2> HIDE DEF s
  <2>2. \A n \in 1..Len(s) : n = 1
    BY <2>1
  <2>3. Late(s)
    BY <2>1, <2>2 DEF Late, CacheKinds
  <2> QED
    BY <2>3 DEF s
<1>2. Late(<<>>)
  BY DEF Late
<1>3. ASSUME NEW c
      PROVE  LET s == CacheSteps(c) IN \A n \in 1..Len(s) : s[n][1] # "in" /\ s[n][2] = c
  <2> DEFINE s == CacheSteps(c)
  <2>1. /\ Len(s) = 8 /\ s[1] = <<"lock", c>> /\ s[2] = <<"check", c>> /\ s[3] = <<"wipe", c>>
        /\ s[4] = <<"copy", c>> /\ s[5] = <<"install", c>> /\ s[6] = <<"mark", c>>
        /\ s[7] = <<"release", c>> /\ s[8] = <<"use", c>>
    BY DEF CacheSteps
  <2> HIDE DEF s
  <2>2. \A n \in 1..Len(s) : n \in {1, 2, 3, 4, 5, 6, 7, 8}
    BY <2>1
  <2>3. \A n \in 1..Len(s) : s[n][1] # "in" /\ s[n][2] = c
    BY <2>1, <2>2
  <2> QED
    BY <2>3 DEF s
<1>4. Late(CacheSteps("dynamo"))
  BY <1>3 DEF Late
<1>5. DynamoLast(CacheSteps("sglang"))
  BY <1>3 DEF DynamoLast
<1>6. Late(PipSteps)
  <2> DEFINE s == PipSteps
  <2>1. /\ Len(s) = 5 /\ s[1] = <<"out", "wheel">> /\ s[2] = <<"in", "wheel">> /\ s[3] = <<"out", "tree">>
        /\ s[4] = <<"in", "tree">> /\ s[5] = <<"import", "dynamo">>
    BY DEF PipSteps
  <2> HIDE DEF s
  <2>2. \A n \in 1..Len(s) : n \in {1, 2, 3, 4, 5}
    BY <2>1
  <2>3. Late(s)
    BY <2>1, <2>2 DEF Late, CacheKinds
  <2> QED
    BY <2>3 DEF s
<1>7. ASSUME NEW labels \in Seq(Names) PROVE Late(Launches(labels))
  <2> DEFINE s == Launches(labels)
  <2>1. DOMAIN labels = 1..Len(labels) /\ Len(labels) \in Nat /\ \A n \in 1..Len(labels) : labels[n] \in Names
    BY LenProperties, ElementOfSeq
  <2>2. s = [n \in 1..Len(labels) |-> <<"launch", labels[n]>>]
    BY <2>1 DEF Launches
  <2>3. Len(s) = Len(labels) /\ \A n \in 1..Len(labels) : s[n][1] = "launch"
    <3>1. \A n \in 1..Len(labels) : <<"launch", labels[n]>> \in Step
      BY <2>1 DEF Step, FirstKinds
    <3>2. s \in [1..Len(labels) -> Step]
      BY <2>2, <3>1
    <3> QED
      BY <2>1, <2>2, <3>2
  <2> HIDE DEF s
  <2>4. Late(s)
    BY <2>3 DEF Late, CacheKinds
  <2> QED
    BY <2>4 DEF s
<1> QED
  BY <1>1, <1>2, <1>4, <1>5, <1>6, <1>7

\* ServingPlain: what is installed and served keeps the order of a cache's steps, uses both
\* caches, and puts Dynamo into the runtime.
LEMMA ServingPlain ==
  ASSUME NEW r \in Runs
  PROVE  /\ Plain(Serving(r))
         /\ Contains(Serving(r), <<"use", "sglang">>)
         /\ Has(r, "dynamo_hash") => Contains(Serving(r), <<"use", "dynamo">>)
         /\ \A part \in DynamoParts : Contains(Serving(r), <<"in", part>>)
         /\ DynamoLast(Serving(r))
<1> DEFINE sglang == CacheSteps("sglang")
           dynamo == BuildDynamo(r)
           infrastructure == Launches(<<"nats", "etcd">>)
           etcd == << <<"ready", "etcd">> >>
           ports == If(Has(r, "mooncake"), << <<"run", "mooncake_ports">> >>)
           workers == Launches(Append(Workers[r], "router"))
           router == << <<"ready", "router">> >>
           smoke == << <<"run", "smoke">> >>
<1>1. Plain(sglang) /\ Contains(sglang, <<"use", "sglang">>) /\ DynamoLast(sglang)
  <2>1. Plain(sglang)
    BY PlainPieces DEF CacheNames
  <2>2. Len(sglang) = 8 /\ sglang[8] = <<"use", "sglang">>
    BY DEF CacheSteps
  <2> QED
    BY <2>1, <2>2, LatePieces DEF Contains
<1>2. Plain(dynamo) /\ Late(dynamo) /\ (Has(r, "dynamo_hash") => Contains(dynamo, <<"use", "dynamo">>))
  <2>1. CASE Has(r, "dynamo_hash")
    <3>1. Plain(CacheSteps("dynamo"))
      BY PlainPieces DEF CacheNames
    <3>2. Len(CacheSteps("dynamo")) = 8 /\ CacheSteps("dynamo")[8] = <<"use", "dynamo">>
      BY DEF CacheSteps
    <3> QED
      BY <2>1, <3>1, <3>2, LatePieces DEF Contains, BuildDynamo
  <2>2. CASE ~Has(r, "dynamo_hash")
    <3>1. "top_of_tree" \in Names /\ "run" \in {"run", "ready"}
      BY DEF Names
    <3> QED
      BY <2>2, <3>1, PlainPieces, LatePieces DEF BuildDynamo
  <2> QED
    BY <2>1, <2>2
<1>0. Plain(PipSteps) /\ Late(PipSteps) /\ \A part \in DynamoParts : Contains(PipSteps, <<"in", part>>)
  <2>1. Len(PipSteps) = 5 /\ PipSteps[2] = <<"in", "wheel">> /\ PipSteps[4] = <<"in", "tree">>
    BY DEF PipSteps
  <2>2. Contains(PipSteps, <<"in", "wheel">>) /\ Contains(PipSteps, <<"in", "tree">>)
    BY <2>1 DEF Contains
  <2> QED
    BY <2>2, PlainPieces, LatePieces DEF DynamoParts
<1>3. Plain(infrastructure) /\ Late(infrastructure)
  <2>1. <<"nats", "etcd">> \in Seq(Names)
    BY DEF Names
  <2> QED
    BY <2>1, PlainPieces, LatePieces
<1>4. Plain(etcd) /\ Late(etcd)
  BY PlainPieces, LatePieces DEF Names
<1>5. Plain(ports) /\ Late(ports)
  BY PlainPieces, LatePieces DEF Names, If
<1>6. Plain(workers) /\ Late(workers)
  <2>1. Workers[r] \in Seq(WorkerLabels(r))
    BY RunAssumption DEF WorkerLabels
  <2>2. WorkerLabels(r) \subseteq Names /\ "router" \in Names
    BY DEF Names
  <2>3. Append(Workers[r], "router") \in Seq(Names)
    BY <2>1, <2>2, SeqMonotonic
  <2> QED
    BY <2>3, PlainPieces, LatePieces
<1>7. Plain(router) /\ Late(router) /\ Plain(smoke) /\ Late(smoke)
  BY PlainPieces, LatePieces DEF Names
<1> HIDE DEF sglang, dynamo, infrastructure, etcd, ports, workers, router, smoke
<1> DEFINE s0 == sglang \o dynamo
           s1 == s0 \o PipSteps
           s2 == s1 \o infrastructure
           s3 == s2 \o etcd
           s4 == s3 \o ports
           s5 == s4 \o workers
           s6 == s5 \o router
           Good(s) == Plain(s) /\ DynamoLast(s)
<1>8. Serving(r) = s6 \o smoke
  BY DEF Serving, sglang, dynamo, infrastructure, etcd, ports, workers, router, smoke
<1>9. \A s, t : Good(s) /\ Plain(t) /\ Late(t) =>
        /\ Good(s \o t)
        /\ \A e : Contains(s, e) \/ Contains(t, e) => Contains(s \o t, e)
  BY ConcatPlain, ConcatContains, ConcatLast DEF Plain
<1> HIDE DEF Good
<1>10. /\ Good(s0) /\ Contains(s0, <<"use", "sglang">>)
       /\ Has(r, "dynamo_hash") => Contains(s0, <<"use", "dynamo">>)
  BY <1>1, <1>2, <1>9 DEF Good
<1> HIDE DEF s0
<1>17. /\ Good(s1) /\ \A part \in DynamoParts : Contains(s1, <<"in", part>>)
       /\ \A e : Contains(s0, e) => Contains(s1, e)
  BY <1>0, <1>9, <1>10
<1> HIDE DEF s1
<1>11. Good(s2) /\ \A e : Contains(s1, e) => Contains(s2, e)
  BY <1>3, <1>9, <1>17
<1> HIDE DEF s2
<1>12. Good(s3) /\ \A e : Contains(s2, e) => Contains(s3, e)
  BY <1>4, <1>9, <1>11
<1> HIDE DEF s3
<1>13. Good(s4) /\ \A e : Contains(s3, e) => Contains(s4, e)
  BY <1>5, <1>9, <1>12
<1> HIDE DEF s4
<1>14. Good(s5) /\ \A e : Contains(s4, e) => Contains(s5, e)
  BY <1>6, <1>9, <1>13
<1> HIDE DEF s5
<1>15. Good(s6) /\ \A e : Contains(s5, e) => Contains(s6, e)
  BY <1>7, <1>9, <1>14
<1> HIDE DEF s6
<1>16. Good(s6 \o smoke) /\ \A e : Contains(s6, e) => Contains(s6 \o smoke, e)
  BY <1>7, <1>9, <1>15
<1> QED
  BY <1>8, <1>10, <1>17, <1>11, <1>12, <1>13, <1>14, <1>15, <1>16 DEF Good

\* PreparationSteps and MeasuringSteps: the two ends of the stages, step by step.
LEMMA PreparationSteps ==
  ASSUME NEW r \in Runs
  PROVE  LET s == Preparation(r)
         IN  /\ s \in Seq(Step) /\ Len(s) = RevisionAt(r)
             /\ \A n \in 1..Len(s) : s[n][1] = IF n = RevisionAt(r) THEN "revision" ELSE "run"
<1> DEFINE w == << <<"run", "checks">>, <<"revision", "sglang">> >>
<1>1. <<"run", "setup">> \in Step /\ <<"run", "checks">> \in Step /\ <<"revision", "sglang">> \in Step
  BY DEF Step, FirstKinds, Names
<1>2. /\ w \in Seq(Step) /\ Len(w) = 2
      /\ w[1] = <<"run", "checks">> /\ w[2] = <<"revision", "sglang">>
  BY <1>1
<1>3. CASE Has(r, "setup")
  <2> DEFINE u == << <<"run", "setup">> >>
  <2>1. Preparation(r) = u \o w
    BY <1>3 DEF Preparation, If
  <2>2. u \in Seq(Step) /\ Len(u) = 1 /\ u[1] = <<"run", "setup">>
    BY <1>1
  <2> HIDE DEF u, w
  <2>3. /\ u \o w \in Seq(Step) /\ Len(u \o w) = 3
        /\ (u \o w)[1] = <<"run", "setup">> /\ (u \o w)[2] = <<"run", "checks">>
        /\ (u \o w)[3] = <<"revision", "sglang">>
    BY <1>2, <2>2, ConcatProperties
  <2>4. RevisionAt(r) = 3 /\ \A n \in 1..3 : n = 1 \/ n = 2 \/ n = 3
    BY <1>3 DEF RevisionAt
  <2> QED
    BY <2>1, <2>3, <2>4
<1>4. CASE ~Has(r, "setup")
  <2>1. Preparation(r) = w
    BY <1>4 DEF Preparation, If
  <2>2. RevisionAt(r) = 2 /\ \A n \in 1..2 : n = 1 \/ n = 2
    BY <1>4 DEF RevisionAt
  <2> QED
    BY <1>2, <2>1, <2>2
<1> QED
  BY <1>3, <1>4

LEMMA MeasuringSteps ==
  ASSUME NEW r \in Runs
  PROVE  LET s == Measuring(r)
             b == IF Has(r, "tachometer") THEN 5 ELSE 1
         IN  /\ s \in Seq(Step) /\ Len(s) = b + 2
             /\ s[b] = <<"launch", "benchmark">> /\ s[b + 1] = <<"watch", "benchmark">>
             /\ s[b + 2] = <<"alive", "services">>
             /\ Has(r, "tachometer") =>
                  /\ s[1] = <<"launch", "tachometer">> /\ s[2] = <<"scraper", "process">>
                  /\ s[3] = <<"scraper", "local_dir">> /\ s[4] = <<"started", "tachometer">>
<1>1. /\ <<"launch", "tachometer">> \in Step /\ <<"scraper", "process">> \in Step
      /\ <<"scraper", "local_dir">> \in Step /\ <<"started", "tachometer">> \in Step
      /\ <<"launch", "benchmark">> \in Step /\ <<"watch", "benchmark">> \in Step
      /\ <<"alive", "services">> \in Step
  BY DEF Step, FirstKinds, Names
<1>2. CASE Has(r, "tachometer")
  <2> DEFINE u == << <<"launch", "tachometer">>, <<"scraper", "process">>, <<"scraper", "local_dir">>,
                     <<"started", "tachometer">> >>
             w == << <<"launch", "benchmark">>, <<"watch", "benchmark">>, <<"alive", "services">> >>
  <2>1. Measuring(r) = u \o w
    BY <1>2 DEF Measuring, If
  <2>2. /\ u \in Seq(Step) /\ Len(u) = 4
        /\ u[1] = <<"launch", "tachometer">> /\ u[2] = <<"scraper", "process">>
        /\ u[3] = <<"scraper", "local_dir">> /\ u[4] = <<"started", "tachometer">>
    BY <1>1
  <2>3. /\ w \in Seq(Step) /\ Len(w) = 3
        /\ w[1] = <<"launch", "benchmark">> /\ w[2] = <<"watch", "benchmark">>
        /\ w[3] = <<"alive", "services">>
    BY <1>1
  <2> HIDE DEF u, w
  <2>4. /\ u \o w \in Seq(Step) /\ Len(u \o w) = 7
        /\ \A n \in 1..7 : (u \o w)[n] = IF n <= 4 THEN u[n] ELSE w[n - 4]
    <3>1. /\ u \o w \in Seq(Step) /\ Len(u \o w) = Len(u) + Len(w)
          /\ \A n \in 1..(Len(u) + Len(w)) : (u \o w)[n] = IF n <= Len(u) THEN u[n] ELSE w[n - Len(u)]
      BY <2>2, <2>3, ConcatProperties
    <3>2. Len(u) + Len(w) = 7 /\ Len(u) = 4
      BY <2>2, <2>3
    <3> QED
      BY <3>1, <3>2
  <2> QED
    BY <1>2, <2>1, <2>2, <2>3, <2>4
<1>3. CASE ~Has(r, "tachometer")
  <2>1. Measuring(r) = << <<"launch", "benchmark">>, <<"watch", "benchmark">>, <<"alive", "services">> >>
    BY <1>3 DEF Measuring, If
  <2> QED
    BY <1>1, <1>3, <2>1
<1> QED
  BY <1>2, <1>3

ScraperStep(r, n) ==
    /\ Has(r, "tachometer") /\ n > 1
    /\ \/ Stages[r][n] = <<"scraper", "process">> /\ Stages[r][n - 1] = <<"launch", "tachometer">>
       \/ Stages[r][n] = <<"scraper", "local_dir">> /\ Stages[r][n - 1] = <<"scraper", "process">>

\* StagesInOrder: what the order of _run_stages amounts to.
LEMMA StagesInOrder ==
  ASSUME NEW r \in Runs
  PROVE  LET s == Stages[r]
         IN  /\ s \in Seq(Step) /\ Len(s) \in Nat /\ DOMAIN s = 1..Len(s)
             /\ WellFormed(s)
             /\ \A n \in 1..Len(s) :
                  /\ s[n][1] = "revision" <=> n = RevisionAt(r)
                  /\ s[n][1] \in CacheKinds => n > RevisionAt(r) /\ s[n][2] \in CacheNames
                  /\ s[n][1] = "alive" => s[n - 1][1] = "watch" /\ n - 1 > RevisionAt(r)
                  /\ s[n][1] = "scraper" => ScraperStep(r, n)
                  /\ s[n][1] = "watch" => \A m \in 1..Len(s) : s[m][1] \in {"launch", "scraper"} => m < n
             /\ Contains(s, <<"use", "sglang">>)
             /\ Has(r, "dynamo_hash") => Contains(s, <<"use", "dynamo">>)
             /\ DynamoLast(s) /\ \A part \in DynamoParts : Contains(s, <<"in", part>>)
             /\ Has(r, "tachometer") =>
                  Contains(s, <<"scraper", "process">>) /\ Contains(s, <<"scraper", "local_dir">>)
             /\ Contains(s, <<"launch", "benchmark">>)
<1> DEFINE p == Preparation(r)
           v == Serving(r)
           m == Measuring(r)
           s == Stages[r]
           h == RevisionAt(r)
           k == h + Len(v)
           b == IF Has(r, "tachometer") THEN 5 ELSE 1
<1>1. /\ p \in Seq(Step) /\ Len(p) = h
      /\ \A n \in 1..h : p[n][1] = IF n = h THEN "revision" ELSE "run"
  BY PreparationSteps
<1>2. /\ v \in Seq(Step) /\ Len(v) \in Nat /\ WellFormed(v)
      /\ \A n \in 1..Len(v) :
           v[n][1] \in FirstKinds \ {"revision"} /\ (v[n][1] \in CacheKinds => v[n][2] \in CacheNames)
  BY ServingPlain, LenProperties DEF Plain
<1>20. /\ Contains(v, <<"use", "sglang">>)
       /\ Has(r, "dynamo_hash") => Contains(v, <<"use", "dynamo">>)
       /\ DynamoLast(v) /\ \A part \in DynamoParts : Contains(v, <<"in", part>>)
  BY ServingPlain
<1>3. /\ m \in Seq(Step) /\ Len(m) = b + 2
      /\ m[b] = <<"launch", "benchmark">> /\ m[b + 1] = <<"watch", "benchmark">>
      /\ m[b + 2] = <<"alive", "services">>
      /\ Has(r, "tachometer") =>
           /\ m[1] = <<"launch", "tachometer">> /\ m[2] = <<"scraper", "process">>
           /\ m[3] = <<"scraper", "local_dir">> /\ m[4] = <<"started", "tachometer">>
  BY MeasuringSteps
<1>4. h \in {2, 3} /\ b \in {1, 5} /\ k \in Nat
  BY <1>2 DEF RevisionAt
<1>5. s = (p \o v) \o m
  BY DEF Stages, StagesOf
<1> HIDE DEF p, v, m, s, h, b
<1>6. /\ p \o v \in Seq(Step) /\ Len(p \o v) = k
      /\ \A n \in 1..k : (p \o v)[n] = IF n <= h THEN p[n] ELSE v[n - h]
  BY <1>1, <1>2, ConcatProperties, ZenonT(60)
<1>7. /\ s \in Seq(Step) /\ Len(s) = k + b + 2
      /\ \A n \in 1..(k + b + 2) : s[n] = IF n <= k THEN (p \o v)[n] ELSE m[n - k]
  <2> DEFINE q == p \o v
  <2>1. q \in Seq(Step) /\ Len(q) = k /\ m \in Seq(Step)
    BY <1>3, <1>6
  <2> HIDE DEF q
  <2>2. /\ q \o m \in Seq(Step) /\ Len(q \o m) = Len(q) + Len(m)
        /\ \A n \in 1..(Len(q) + Len(m)) : (q \o m)[n] = IF n <= Len(q) THEN q[n] ELSE m[n - Len(q)]
    BY <2>1, ConcatProperties, ZenonT(60)
  <2>3. Len(q) + Len(m) = k + b + 2
    BY <1>3, <1>4, <2>1
  <2> QED
    BY <1>5, <2>1, <2>2, <2>3 DEF q
<1>8. /\ Len(s) \in Nat /\ DOMAIN s = 1..Len(s)
  BY <1>7, LenProperties
<1>9. \A n \in 1..h : n \in 1..Len(s) /\ s[n] = p[n]
  <2>1. \A n \in 1..h : n \in 1..k /\ n \in 1..(k + b + 2) /\ n <= h /\ n <= k
    BY <1>2, <1>4
  <2> QED
    BY <1>6, <1>7, <2>1
<1>10. \A n \in 1..Len(v) : n + h \in 1..Len(s) /\ s[n + h] = v[n]
  <2>1. \A n \in 1..Len(v) : /\ n + h \in 1..k /\ n + h \in 1..(k + b + 2) /\ ~(n + h <= h)
                             /\ n + h <= k /\ (n + h) - h = n
    BY <1>2, <1>4
  <2> QED
    BY <1>6, <1>7, <2>1
<1>11. \A n \in 1..(b + 2) : n + k \in 1..Len(s) /\ s[n + k] = m[n]
  <2>1. \A n \in 1..(b + 2) : n + k \in 1..(k + b + 2) /\ ~(n + k <= k) /\ (n + k) - k = n
    BY <1>4
  <2> QED
    BY <1>7, <2>1
<1>12. ASSUME NEW n \in 1..Len(s)
       PROVE  \/ n \in 1..h
              \/ \E i \in 1..Len(v) : n = i + h
              \/ \E i \in 1..(b + 2) : n = i + k
  <2>1. CASE n <= h
    BY <1>4, <2>1
  <2>2. CASE ~(n <= h) /\ n <= k
    <3>1. n - h \in 1..Len(v) /\ n = (n - h) + h
      BY <1>2, <1>4, <2>2
    <3> QED
      BY <3>1
  <2>3. CASE ~(n <= k)
    <3>1. n - k \in 1..(b + 2) /\ n = (n - k) + k
      BY <1>4, <1>7, <2>3, SMTT(30)
    <3> QED
      BY <3>1
  <2> QED
    BY <2>1, <2>2, <2>3
<1>13. \A e : Contains(v, e) => Contains(s, e)
  BY <1>10 DEF Contains
<1>14. /\ Contains(s, <<"launch", "benchmark">>)
       /\ Has(r, "tachometer") =>
            Contains(s, <<"scraper", "process">>) /\ Contains(s, <<"scraper", "local_dir">>)
  <2>1. b \in 1..(b + 2)
    BY <1>4
  <2>2. Has(r, "tachometer") => 2 \in 1..(b + 2) /\ 3 \in 1..(b + 2)
    BY DEF b
  <2> QED
    BY <1>3, <1>11, <2>1, <2>2 DEF Contains
<1>15. \A i \in 1..(b + 2) :
         \/ i = b \/ i = b + 1 \/ i = b + 2
         \/ Has(r, "tachometer") /\ i \in {1, 2, 3, 4}
  BY DEF b
<1>16. WellFormed(s)
  <2> SUFFICES ASSUME NEW n \in 1..Len(s)
               PROVE  WellAt(s, n)
    BY DEF WellFormed
  <2>1. CASE n \in 1..h
    BY <1>1, <1>9, <2>1 DEF WellAt, After
  <2>2. ASSUME NEW i \in 1..Len(v), n = i + h
        PROVE  WellAt(s, n)
    <3>1. s[n] = v[i]
      BY <1>10, <2>2
    <3>2. i > 1 => n > 1 /\ s[n - 1] = v[i - 1]
      <4>1. i > 1 => i - 1 \in 1..Len(v) /\ n - 1 = (i - 1) + h /\ n > 1
        BY <1>2, <1>4, <2>2
      <4> QED
        BY <1>10, <4>1
    <3>3. /\ i + 5 \in 1..Len(v) => n + 5 \in 1..Len(s) /\ s[n + 5] = v[i + 5]
          /\ i + 1 \in 1..Len(v) => n + 1 \in 1..Len(s) /\ s[n + 1] = v[i + 1]
      <4>1. n + 5 = (i + 5) + h /\ n + 1 = (i + 1) + h
        BY <1>2, <1>4, <2>2
      <4> QED
        BY <1>10, <4>1
    <3>4. WellAt(v, i)
      BY <1>2 DEF WellFormed
    <3> QED
      BY <3>1, <3>2, <3>3, <3>4 DEF WellAt, After
  <2>3. ASSUME NEW i \in 1..(b + 2), n = i + k
        PROVE  s[n][1] \in {"launch", "scraper", "started", "watch", "alive"}
    <3>1. s[n] = m[i]
      BY <1>11, <2>3
    <3>2. CASE i = b \/ i = b + 1 \/ i = b + 2
      BY <1>3, <3>1, <3>2
    <3>3. CASE Has(r, "tachometer") /\ i \in {1, 2, 3, 4}
      BY <1>3, <3>1, <3>3
    <3> QED
      BY <1>15, <3>2, <3>3
  <2> QED
    BY <1>12, <2>1, <2>2, <2>3 DEF WellAt, After
<1>17. ASSUME NEW n \in 1..Len(s)
       PROVE  /\ s[n][1] = "revision" <=> n = h
              /\ s[n][1] \in CacheKinds => n > h /\ s[n][2] \in CacheNames
              /\ s[n][1] = "alive" => s[n - 1][1] = "watch" /\ n - 1 > h
              /\ s[n][1] = "scraper" => ScraperStep(r, n)
              /\ s[n][1] = "watch" => n = b + 1 + k
  <2>1. CASE n \in 1..h
    BY <1>1, <1>4, <1>9, <2>1 DEF CacheKinds
  <2>2. ASSUME NEW i \in 1..Len(v), n = i + h
        PROVE  /\ s[n][1] \in FirstKinds \ {"revision"} /\ n > h
               /\ s[n][1] \in CacheKinds => s[n][2] \in CacheNames
    BY <1>2, <1>4, <1>10, <2>2
  <2>3. ASSUME NEW i \in 1..(b + 2), n = i + k
        PROVE  /\ s[n][1] \in {"launch", "scraper", "started", "watch", "alive"} /\ n > h
               /\ s[n][1] = "alive" => s[n - 1][1] = "watch" /\ n - 1 > h
               /\ s[n][1] = "scraper" => ScraperStep(r, n)
               /\ s[n][1] = "watch" => n = b + 1 + k
    <3>1. s[n] = m[i] /\ n > h
      BY <1>2, <1>4, <1>11, <2>3
    <3>2. i > 1 => i - 1 \in 1..(b + 2) /\ n > 1 /\ n - 1 = (i - 1) + k /\ n - 1 > h
      BY <1>2, <1>4, <2>3
    <3>3. i > 1 => s[n - 1] = m[i - 1]
      BY <1>11, <3>2
    <3>4. CASE i = b
      BY <1>3, <3>1, <3>4
    <3>5. CASE i = b + 1
      BY <1>3, <2>3, <3>1, <3>5
    <3>6. CASE i = b + 2
      <4>1. i > 1 /\ i - 1 = b + 1
        BY <1>4, <3>6
      <4> QED
        BY <1>3, <3>1, <3>2, <3>3, <3>6, <4>1
    <3>7. CASE Has(r, "tachometer") /\ i \in {1, 2, 3, 4}
      <4>1. CASE i = 1
        BY <1>3, <3>1, <3>7, <4>1
      <4>2. CASE i = 2
        BY <1>3, <3>1, <3>2, <3>3, <3>7, <4>2 DEF ScraperStep, s
      <4>3. CASE i = 3
        BY <1>3, <3>1, <3>2, <3>3, <3>7, <4>3 DEF ScraperStep, s
      <4>4. CASE i = 4
        BY <1>3, <3>1, <3>7, <4>4
      <4> QED
        BY <3>7, <4>1, <4>2, <4>3, <4>4
    <3> QED
      BY <1>15, <3>4, <3>5, <3>6, <3>7
  <2>4. FirstKinds \intersect {"alive", "scraper", "watch"} = {} /\ CacheKinds \subseteq FirstKinds
    BY DEF FirstKinds, CacheKinds
  <2>5. CacheKinds \intersect {"launch", "scraper", "started", "watch", "alive"} = {}
    BY DEF CacheKinds
  <2>6. ASSUME NEW i \in 1..Len(v), n = i + h
        PROVE  /\ n # h /\ s[n][1] # "revision" /\ s[n][1] \notin {"alive", "scraper", "watch"} /\ n > h
               /\ s[n][1] \in CacheKinds => s[n][2] \in CacheNames
    BY <1>4, <2>2, <2>4, <2>6
  <2>7. ASSUME NEW i \in 1..(b + 2), n = i + k
        PROVE  n # h /\ s[n][1] # "revision" /\ s[n][1] \notin CacheKinds
    BY <1>4, <2>3, <2>5, <2>7
  <2>8. CASE \E i \in 1..Len(v) : n = i + h
    BY <2>6, <2>8
  <2>9. CASE \E i \in 1..(b + 2) : n = i + k
    BY <2>3, <2>7, <2>9
  <2> QED
    BY <1>12, <2>1, <2>8, <2>9
<1>18. ASSUME NEW n \in 1..Len(s), NEW j \in 1..Len(s), s[n][1] = "watch", s[j][1] \in {"launch", "scraper"}
       PROVE  j < n
  <2>1. n = b + 1 + k
    BY <1>17, <1>18
  <2>2. j <= b + k
    <3>1. j # b + 1 + k
      BY <1>18, <2>1
    <3>2. s[b + 2 + k][1] = "alive" /\ j # b + 2 + k
      <4>1. b + 2 \in 1..(b + 2) /\ (b + 2) + k = b + 2 + k
        BY <1>4
      <4> QED
        BY <1>3, <1>11, <1>18, <4>1
    <3> QED
      BY <1>4, <1>7, <3>1, <3>2
  <2> QED
    BY <1>4, <2>1, <2>2
<1>19. DynamoLast(s)
  <2> SUFFICES ASSUME NEW n \in 1..Len(s), NEW j \in 1..Len(s),
                      s[j][1] = "in", s[n][1] \in CacheKinds, s[n][2] = "sglang"
               PROVE  n < j
    BY DEF DynamoLast
  <2>1. ASSUME NEW x \in 1..Len(s), s[x][1] = "in" \/ s[x][1] \in CacheKinds
        PROVE  \E i \in 1..Len(v) : x = i + h
    <3>1. s[x][1] \notin {"revision", "run", "launch", "scraper", "started", "watch", "alive"}
      BY <2>1 DEF CacheKinds
    <3>2. x \notin 1..h
      BY <1>1, <1>9, <3>1
    <3>3. ASSUME NEW i \in 1..(b + 2), x = i + k PROVE FALSE
      <4>1. s[x] = m[i]
        BY <1>11, <3>3
      <4>2. CASE i = b \/ i = b + 1 \/ i = b + 2
        BY <1>3, <3>1, <4>1, <4>2
      <4>3. CASE Has(r, "tachometer") /\ i \in {1, 2, 3, 4}
        BY <1>3, <3>1, <4>1, <4>3
      <4> QED
        BY <1>15, <4>2, <4>3
    <3> QED
      BY <1>12, <3>2, <3>3
  <2>2. PICK i \in 1..Len(v) : n = i + h
    BY <2>1
  <2>3. PICK l \in 1..Len(v) : j = l + h
    BY <2>1
  <2>4. s[n] = v[i] /\ s[j] = v[l]
    BY <1>10, <2>2, <2>3
  <2>5. i < l
    BY <1>20, <2>4 DEF DynamoLast
  <2> QED
    BY <1>2, <1>4, <2>2, <2>3, <2>5
<1> QED
  BY <1>20, <1>7, <1>8, <1>13, <1>14, <1>16, <1>17, <1>18, <1>19 DEF s, h

-----------------------------------------------------------------------------
(* What a step leaves alone.                                               *)

HostAction(r) == Begin(r) \/ HostStep(r) \/ Signal(r) \/ Kill(r)
InnerAction(r) == InnerStep(r) \/ Nudge(r) \/ Crash(r) \/ BenchmarkEnds(r)

\* The runner in a container works on its own state only, and on that of the caches.
InnerFootprint(r) ==
    /\ UNCHANGED <<out, host, docker, head>>
    /\ \A q \in Runs \ {r} : inner'[q] = inner[q] /\ proc'[q] = proc[q]
    /\ Running(r) \/ (inner' = inner /\ flock' = flock /\ DOMAIN proc[r] # {})

LEMMA InnerLeaves ==
  ASSUME Shape, NEW r \in Runs, InnerAction(r)
  PROVE  InnerFootprint(r)
<1> USE DEF Shape, InnerFootprint, Doing
<1>1. CASE Run(r)
  BY <1>1 DEF Run, Breaks, ToCleanup, Advance, Trouble
<1>2. CASE AskRevision(r)
  BY <1>2 DEF AskRevision
<1>3. CASE Lock(r)
  BY <1>3 DEF Lock, Free, Advance
<1>4. CASE Check(r)
  BY <1>4 DEF Check
<1>5. CASE Wipe(r)
  BY <1>5 DEF Wipe, Fill, Breaks, ToCleanup, Advance, Trouble
<1>6. CASE Copy(r)
  BY <1>6 DEF Copy, Fill, Breaks, ToCleanup, Advance, Trouble
<1>7. CASE Install(r)
  BY <1>7 DEF Install, Fill, Breaks, ToCleanup, Advance, Trouble
<1>8. CASE Mark(r)
  BY <1>8 DEF Mark, Fill, Advance
<1>9. CASE Release(r)
  BY <1>9 DEF Release, Advance
<1>10. CASE Use(r)
  BY <1>10 DEF Use, Breaks, ToCleanup, Advance, Trouble
<1>11. CASE Launch(r)
  BY <1>11 DEF Launch, Breaks, ToCleanup, Advance, Trouble
<1>12. CASE Ready(r)
  BY <1>12 DEF Ready, Breaks, ToCleanup, Advance, Trouble
<1>13. CASE NoteScraper(r)
  BY <1>13 DEF NoteScraper
<1>14. CASE Started(r)
  BY <1>14 DEF Started, ToCleanup, Advance
<1>15. CASE Watch(r)
  BY <1>15 DEF Watch, ToCleanup, Advance
<1>16. CASE CheckServices(r)
  BY <1>16 DEF CheckServices, Breaks, ToCleanup, Advance, Trouble
<1>17. CASE Stop(r)
  BY <1>17 DEF Stop, Advance
<1>18. CASE Compact(r)
  BY <1>18 DEF Compact
<1>19. CASE Normalize(r)
  BY <1>19 DEF Normalize
<1>20. CASE Nudge(r)
  BY <1>20 DEF Nudge, ToCleanup, Trouble, Running
<1>21. CASE Crash(r)
  BY <1>21 DEF Crash, Exits, Trouble
<1>22. CASE BenchmarkEnds(r)
  BY <1>22 DEF BenchmarkEnds, Exits
<1>23. CASE TakeOut(r) \/ PutIn(r)
  BY <1>23 DEF TakeOut, PutIn, Pip, Breaks, ToCleanup, Advance, Trouble
<1>24. CASE Import(r)
  BY <1>24 DEF Import, Breaks, ToCleanup, Advance, Trouble
<1> QED
  BY <1>1, <1>2, <1>3, <1>4, <1>5, <1>6, <1>7, <1>8, <1>9, <1>10, <1>11, <1>12, <1>13, <1>14, <1>15, <1>16, <1>17, <1>18, <1>19, <1>20, <1>21, <1>22, <1>23, <1>24 DEF InnerAction, InnerStep

\* The host runner ends what runs in a container, or lets it start.
HostFootprint(r) ==
    /\ UNCHANGED <<out, disk, venv, head>>
    /\ \A q \in Runs \ {r} : host'[q] = host[q] /\ docker'[q] \subseteq docker[q]
    /\ \A q \in Runs :
         \/ inner'[q] = inner[q]
         \/ Running(q) /\ inner'[q] = [inner[q] EXCEPT !.phase = "dead"]
         \/ q = r /\ host[r].at = "exec" /\ inner'[q] = [inner[q] EXCEPT !.phase = "running"]
    /\ \A q \in Runs : /\ DOMAIN proc'[q] = DOMAIN proc[q]
                       /\ \A p \in DOMAIN proc[q] : \/ proc'[q][p] = proc[q][p]
                                                    \/ proc[q][p] = "live" /\ proc'[q][p] = "stopped"
    /\ \A c \in Caches : \/ flock'[c] = flock[c]
                         \/ flock'[c] = None /\ (flock[c] \in Runs => inner'[flock[c]].phase # "running")

\* RemoveEffect: what a docker rm does to the runner in the container and to its locks.
LEMMA RemoveEffect ==
  ASSUME Shape, NEW q \in Runs, NEW container \in Containers, Remove(q, container)
  PROVE  /\ \A x \in Runs : \/ inner'[x] = inner[x]
                            \/ Running(x) /\ inner'[x] = [inner[x] EXCEPT !.phase = "dead"]
         /\ \A x \in Runs : /\ DOMAIN proc'[x] = DOMAIN proc[x]
                            /\ \A p \in DOMAIN proc[x] : \/ proc'[x][p] = proc[x][p]
                                                         \/ proc[x][p] = "live" /\ proc'[x][p] = "stopped"
         /\ \A c \in Caches : \/ flock'[c] = flock[c]
                              \/ flock'[c] = None /\ (flock[c] \in Runs => inner'[flock[c]].phase # "running")
<1>1. CASE container = "mooncake"
  BY <1>1 DEF Remove
<1>2. CASE container # "mooncake"
  <2>1. /\ inner' = [inner EXCEPT ![q].phase = IF @ \in {"running", "cleanup"} THEN "dead" ELSE @]
        /\ proc' = [proc EXCEPT ![q] = [p \in DOMAIN @ |-> IF @[p] = "live" THEN "stopped" ELSE @[p]]]
        /\ flock' = [c \in Caches |-> IF flock[c] = q THEN None ELSE flock[c]]
    BY <1>2 DEF Remove
  <2>2. inner \in [Runs -> InnerRecord]
    BY DEF Shape
  <2>3. inner[q] \in InnerRecord
    BY <2>2
  <2>4. CASE Running(q)
    <3>1. inner'[q] = [inner[q] EXCEPT !.phase = "dead"]
      BY <2>1, <2>2, <2>4 DEF Running
    <3>2. inner'[q].phase # "running"
      BY <2>3, <3>1 DEF InnerRecord
    <3> QED
      BY <2>1, <2>4, <3>1, <3>2 DEF Shape
  <2>5. CASE ~Running(q)
    <3>1. inner'[q] = [inner[q] EXCEPT !.phase = inner[q].phase]
      BY <2>1, <2>2, <2>5 DEF Running
    <3>2. inner'[q] = inner[q] /\ inner[q].phase # "running"
      BY <2>3, <2>5, <3>1 DEF InnerRecord, Running
    <3> QED
      BY <2>1, <3>2 DEF Shape
  <2> QED
    BY <2>4, <2>5
<1> QED
  BY <1>1, <1>2

\* RemovesOnly: RemoveStale takes containers away, and starts none.
LEMMA RemovesOnly ==
  ASSUME Shape, NEW r \in Runs, RemoveStale(r)
  PROVE  \A q \in Runs : docker'[q] \subseteq docker[q]
<1>1. docker \in [Runs -> SUBSET Containers]
  BY DEF Shape
<1>2. CASE \E x \in Labelled(r) : Remove(x[1], x[2])
  <2>1. PICK x \in Labelled(r) : docker' = [docker EXCEPT ![x[1]] = @ \ {x[2]}]
    BY <1>2 DEF Remove
  <2> QED
    BY <1>1, <2>1
<1>3. CASE docker' = docker
  BY <1>3
<1> QED
  BY <1>2, <1>3 DEF RemoveStale

LEMMA HostLeaves ==
  ASSUME Shape, NEW r \in Runs, HostAction(r)
  PROVE  HostFootprint(r)
<1> USE DEF Shape, HostFootprint, Running
<1>1. CASE Begin(r)
  BY <1>1 DEF Begin, Goes
<1>2. CASE Prepare(r)
  BY <1>2 DEF Prepare, Fails, Trouble, Goes
<1>3. CASE RemoveStale(r)
  <2>1. CASE Labelled(r) # {} /\ \E x \in Labelled(r) : Remove(x[1], x[2])
    <3>1. PICK x \in Labelled(r) : Remove(x[1], x[2])
      BY <2>1
    <3>2. x[1] \in Runs /\ x[2] \in Containers
      BY DEF Labelled, Containers
    <3>3. UNCHANGED <<out, disk, venv, head>>
      BY <1>3 DEF RemoveStale
    <3> QED
      BY <1>3, <3>1, <3>2, <3>3, RemoveEffect, RemovesOnly DEF RemoveStale, Fails, Goes
  <2>2. CASE UNCHANGED <<docker, inner, proc, flock>>
    BY <1>3, <2>2 DEF RemoveStale, Fails, Goes
  <2> QED
    BY <1>3, <2>1, <2>2 DEF RemoveStale
<1>4. CASE NameMooncake(r)
  BY <1>4 DEF NameMooncake
<1>5. CASE StartMooncake(r)
  BY <1>5 DEF StartMooncake, RunContainer, Fails, Trouble, Goes
<1>6. CASE ReadRevision(r)
  BY <1>6 DEF ReadRevision, Fails, Trouble
<1>7. CASE StartMain(r)
  BY <1>7 DEF StartMain, RunContainer, Fails, Trouble, Goes
<1>8. CASE Exec(r)
  BY <1>8 DEF Exec, Goes
<1>9. CASE Wait(r)
  BY <1>9 DEF Wait
<1>10. CASE RemoveMooncake(r)
  BY <1>10 DEF RemoveMooncake, RemoveOwn, Remove, Trouble, Goes
<1>11. CASE RemoveMain(r)
  <2>1. CASE Remove(r, "main") /\ Goes(r, "owner")
    <3>1. "main" \in Containers
      BY DEF Containers
    <3> QED
      <4>1. \A q \in Runs \ {r} : docker'[q] = docker[q]
        BY <2>1 DEF Remove
      <4> QED
        BY <1>11, <2>1, <3>1, <4>1, RemoveEffect DEF RemoveMain, RemoveOwn, Goes
  <2>2. CASE UNCHANGED <<docker, inner, proc, flock>>
    BY <1>11, <2>2 DEF RemoveMain, RemoveOwn, Goes
  <2> QED
    BY <1>11, <2>1, <2>2 DEF RemoveMain, RemoveOwn
<1>12. CASE RestoreOwner(r)
  BY <1>12 DEF RestoreOwner, Goes
<1>13. CASE Signal(r)
  BY <1>13 DEF Signal, Trouble, InTry, InCleanup
<1>14. CASE Kill(r)
  BY <1>14 DEF Kill, Trouble, Goes, InTry, InCleanup
<1> QED
  BY <1>1, <1>2, <1>3, <1>4, <1>5, <1>6, <1>7, <1>8, <1>9, <1>10, <1>11, <1>12, <1>13, <1>14 DEF HostAction, HostStep

-----------------------------------------------------------------------------
(* The host runner and its containers.                                    *)

\* OthersKeep: a step of one host runner leaves what is known of another run.
LEMMA OthersKeep ==
  ASSUME Shape, HostInv, NEW r \in Runs, HostFootprint(r), NEW q \in Runs \ {r}
  PROVE  HostOk(q)'
<1>1. /\ host'[q] = host[q] /\ docker'[q] \subseteq docker[q]
      /\ DOMAIN proc'[q] = DOMAIN proc[q]
      /\ inner'[q] = inner[q] \/ (Running(q) /\ inner'[q] = [inner[q] EXCEPT !.phase = "dead"])
  BY DEF HostFootprint
<1>2. Running(q) => inner[q].phase # "absent" /\ inner[q] # Absent
  BY DEF Running, Absent
<1>3. inner[q].phase = "absent" => inner'[q] = inner[q]
  BY <1>1, <1>2
<1>4. inner[q] = Absent => inner'[q] = Absent
  BY <1>1, <1>2
<1>5. inner'[q].phase # "absent" => inner[q].phase # "absent"
  BY <1>3
<1>6. HostOk(q)
  BY DEF HostInv
<1> QED
  BY <1>1, <1>4, <1>5, <1>6 DEF HostOk

LEMMA HostStepKeeps ==
  ASSUME Shape, HostInv, NEW r \in Runs, HostAction(r)
  PROVE  HostInv'
<1>1. HostFootprint(r)
  BY HostLeaves
<1>2. SUFFICES HostOk(r)'
  BY <1>1, OthersKeep DEF HostInv
<1>3. HostOk(r) /\ host[r] \in HostRecord /\ docker[r] \in SUBSET Containers /\ inner[r] \in InnerRecord
  BY DEF HostInv, Shape
<1>4. host \in [Runs -> HostRecord] /\ docker \in [Runs -> SUBSET Containers] /\ inner \in [Runs -> InnerRecord]
  BY DEF Shape
<1>5. /\ DOMAIN proc'[r] = DOMAIN proc[r]
      /\ host[r].at # "exec" /\ inner[r] = Absent => inner'[r] = Absent
      /\ host[r].at # "exec" /\ inner'[r].phase # "absent" => inner[r].phase # "absent"
  <2>1. inner[r] = Absent => ~Running(r)
    BY DEF Running, Absent
  <2>2. Running(r) => inner[r].phase # "absent"
    BY DEF Running
  <2> QED
    BY <1>1, <2>1, <2>2 DEF HostFootprint
<1> USE <1>3, <1>4, <1>5 DEF HostOk, HostRecord, InnerRecord, Before
<1>6. CASE Begin(r)
  BY <1>6 DEF Begin, Goes, Idle, Containers
<1>7. CASE Prepare(r)
  BY <1>7, SMTT(30) DEF Prepare, Fails, Trouble, Goes, Containers
<1>8. CASE RemoveStale(r)
  <2>1. docker'[r] = {}
    BY <1>8, RemovesOnly DEF RemoveStale
  <2>2. \/ host' = host
        \/ host' = [host EXCEPT ![r].at = "rm_mooncake", ![r].code = "error"]
        \/ Goes(r, "name") \/ Goes(r, "revision")
    BY <1>8 DEF RemoveStale, Fails
  <2>3. host[r].at = "stale"
    BY <1>8 DEF RemoveStale
  <2> QED
    BY <2>1, <2>2, <2>3 DEF Goes
<1>9. CASE NameMooncake(r)
  BY <1>9 DEF NameMooncake, Containers
<1>10. CASE StartMooncake(r)
  BY <1>10 DEF StartMooncake, RunContainer, Fails, Trouble, Goes, Containers
<1>11. CASE ReadRevision(r)
  <2>1. head \in Revisions
    BY DEF Shape
  <2> QED
    BY <1>11, <2>1 DEF ReadRevision, Fails
<1>12. CASE StartMain(r)
  BY <1>12 DEF StartMain, RunContainer, Fails, Trouble, Goes, Containers
<1>13. CASE Exec(r)
  BY <1>13 DEF Exec, Goes, Absent, Containers
<1>14. CASE Wait(r)
  BY <1>14 DEF Wait, Containers
<1>15. CASE RemoveMooncake(r)
  BY <1>15 DEF RemoveMooncake, RemoveOwn, Remove, Trouble, Goes, Containers
<1>16. CASE RemoveMain(r)
  BY <1>16, SMTT(30) DEF RemoveMain, RemoveOwn, Remove, Trouble, Goes, Containers
<1>17. CASE RestoreOwner(r)
  BY <1>17 DEF RestoreOwner, Goes, Containers
<1>18. CASE Signal(r)
  BY <1>18 DEF Signal, Trouble, InTry, InCleanup, Containers
<1>19. CASE Kill(r)
  BY <1>19 DEF Kill, Trouble, Goes, InTry, InCleanup, Containers
<1> QED
  BY <1>6, <1>7, <1>8, <1>9, <1>10, <1>11, <1>12, <1>13, <1>14, <1>15, <1>16, <1>17, <1>18, <1>19 DEF HostAction, HostStep

\* HostInvStep: every step keeps what is known of the host runners.
LEMMA HostInvStep ==
  ASSUME Shape, HostInv, [Next]_vars
  PROVE  HostInv'
<1>1. CASE Move \/ UNCHANGED vars
  BY <1>1 DEF HostInv, HostOk, Move, vars
<1>2. ASSUME NEW r \in Runs, HostAction(r) PROVE HostInv'
  BY <1>2, HostStepKeeps
<1>3. ASSUME NEW r \in Runs, InnerAction(r) PROVE HostInv'
  <2>1. InnerFootprint(r)
    BY <1>3, InnerLeaves
  <2>2. ASSUME NEW q \in Runs PROVE HostOk(q)'
    <3>1. CASE q # r
      BY <2>1, <3>1 DEF InnerFootprint, HostInv, HostOk
    <3>2. CASE q = r
      <4>1. host[r].at \notin Before /\ (inner'[r].phase = "absent" \/ inner[r].phase # "absent")
        BY <2>1 DEF InnerFootprint, HostInv, HostOk, Running, Absent
      <4> QED
        BY <2>1, <3>2, <4>1 DEF InnerFootprint, HostInv, HostOk, Before
    <3> QED
      BY <3>1, <3>2
  <2> QED
    BY <2>2 DEF HostInv
<1> QED
  BY <1>1, <1>2, <1>3 DEF Next, HostAction, InnerAction

\* AloneInvStep: a run begins only when no other one works in its directory.
LEMMA AloneInvStep ==
  ASSUME Shape, AloneInv, [Next]_vars
  PROVE  AloneInv'
<1>1. CASE Move \/ UNCHANGED vars
  BY <1>1 DEF AloneInv, Busy, Over, Move, vars
<1>2. ASSUME NEW r \in Runs, HostAction(r), ~Begin(r) PROVE AloneInv'
  <2>1. HostFootprint(r) /\ host[r].at # "idle" /\ ~Over(r)
    <3>1. HostFootprint(r)
      BY <1>2, HostLeaves
    <3>2. host[r].at # "idle" /\ ~Over(r)
      BY <1>2 DEF HostAction, HostStep, Prepare, RemoveStale, NameMooncake, StartMooncake, ReadRevision,
                  StartMain, Exec, Wait, RemoveMooncake, RemoveMain, RestoreOwner, Signal, Kill, InTry,
                  InCleanup, Over
    <3> QED
      BY <3>1, <3>2
  <2>2. Busy(r) /\ out' = out /\ \A q \in Runs \ {r} : host'[q] = host[q]
    BY <2>1 DEF HostFootprint, Busy
  <2>3. \A q \in Runs : Busy(q)' => Busy(q)
    BY <2>2 DEF Busy, Over
  <2> QED
    BY <2>2, <2>3 DEF AloneInv
<1>3. ASSUME NEW r \in Runs, Begin(r) PROVE AloneInv'
  <2>1. HostFootprint(r)
    BY <1>3, HostLeaves DEF HostAction
  <2>2. \A q \in Runs \ {r} : (Busy(q)' <=> Busy(q)) /\ (out[q] = out[r] => ~Busy(q))
    BY <1>3, <2>1 DEF HostFootprint, Begin, Busy, Over
  <2> QED
    BY <2>1, <2>2 DEF HostFootprint, AloneInv
<1>4. ASSUME NEW r \in Runs, InnerAction(r) PROVE AloneInv'
  BY <1>4, InnerLeaves DEF InnerFootprint, AloneInv, Busy, Over
<1> QED
  BY <1>1, <1>2, <1>3, <1>4 DEF Next, HostAction, InnerAction

-----------------------------------------------------------------------------
(* The shape of the state.                                                 *)

LEMMA TableFacts ==
  /\ \A t \in Tables : t \in [DOMAIN t -> Fates] /\ DOMAIN t \subseteq Labels
  /\ \A P \in SUBSET Labels : [P -> Fates] \subseteq Tables
  /\ \A r \in Runs : Owned[r] \subseteq Labels
BY DEF Tables, Labels

LEMMA InitShape ==
  ASSUME Init
  PROVE  Shape
<1>1. /\ host \in [Runs -> HostRecord] /\ docker \in [Runs -> SUBSET Containers]
      /\ inner \in [Runs -> InnerRecord]
  BY DEF Init, HostRecord, InnerRecord, Idle, Absent, Containers, Codes, HostPlaces, Phases, Parts, Outcomes
<1>2. proc \in [Runs -> Tables] /\ \A r \in Runs : DOMAIN proc[r] \subseteq Owned[r]
  <2>1. <<>> \in [{} -> Fates] /\ DOMAIN <<>> = {}
    OBVIOUS
  <2>2. <<>> \in Tables
    BY <2>1, TableFacts
  <2> QED
    BY <2>1, <2>2 DEF Init
<1>3. /\ disk \in [Caches -> Entry] /\ head \in Revisions /\ flock \in [Caches -> Runs \cup {None}]
      /\ venv \in [DynamoParts \X Revisions -> Runs \cup {None}]
  BY DEF Init, Entry
<1>4. trouble \in 0..MaxTrouble
  BY RunAssumption DEF Init
<1> QED
  BY <1>1, <1>2, <1>3, <1>4 DEF Shape

TroubleOk == trouble \in 0..MaxTrouble

LEMMA TroubleStep ==
  ASSUME TroubleOk, trouble' = trouble \/ Trouble
  PROVE  TroubleOk'
BY RunAssumption DEF Trouble, TroubleOk

\* HostShape: the steps of the host runners keep the shape.
LEMMA HostShape ==
  ASSUME Shape, NEW r \in Runs, HostAction(r)
  PROVE  Shape'
<1>1. UNCHANGED <<disk, venv, out>> /\ head' = head
  BY HostLeaves DEF HostFootprint
<1>2. \/ UNCHANGED <<inner, proc, flock>>
      \/ inner' = [inner EXCEPT ![r].phase = "running"] /\ UNCHANGED <<proc, flock>>
      \/ \E q \in Runs, c \in Containers : Remove(q, c)
  BY DEF HostAction, HostStep, Begin, Prepare, RemoveStale, Labelled, NameMooncake, StartMooncake, RunContainer,
         ReadRevision, StartMain, Exec, Wait, RemoveMooncake, RemoveMain, RemoveOwn, RestoreOwner, Signal,
         Kill, Containers
<1>3. trouble' = trouble \/ Trouble
  BY DEF HostAction, HostStep, Begin, Prepare, RemoveStale, NameMooncake, StartMooncake, RunContainer,
         ReadRevision, StartMain, Exec, Wait, RemoveMooncake, RemoveMain, RemoveOwn, RestoreOwner, Signal,
         Kill, Fails
<1>4. TroubleOk'
  BY <1>3, TroubleStep DEF Shape, TroubleOk
<1>5. docker' \in [Runs -> SUBSET Containers]
  <2>1. \/ docker' = docker
        \/ \E q \in Runs, c \in Containers : Remove(q, c)
        \/ \E c \in Containers : docker' = [docker EXCEPT ![r] = @ \cup {c}]
    BY DEF HostAction, HostStep, Begin, Prepare, RemoveStale, Labelled, NameMooncake, StartMooncake,
           RunContainer, ReadRevision, StartMain, Exec, Wait, RemoveMooncake, RemoveMain, RemoveOwn,
           RestoreOwner, Signal, Kill, Containers
  <2> QED
    BY <2>1 DEF Shape, Remove
<1>6. inner' \in [Runs -> InnerRecord]
  <2>1. inner \in [Runs -> InnerRecord]
    BY DEF Shape
  <2>2. CASE inner' = inner \/ inner' = [inner EXCEPT ![r].phase = "running"]
    BY <2>1, <2>2 DEF InnerRecord, Phases
  <2>3. ASSUME NEW q \in Runs,
               inner' = [inner EXCEPT ![q].phase = IF @ \in {"running", "cleanup"} THEN "dead" ELSE @]
        PROVE  inner' \in [Runs -> InnerRecord]
    BY <2>1, <2>3 DEF InnerRecord, Phases
  <2> QED
    BY <1>2, <2>2, <2>3 DEF Remove
<1>7. flock' \in [Caches -> Runs \cup {None}]
  BY <1>2 DEF Shape, Remove
<1>8. proc' \in [Runs -> Tables] /\ \A q \in Runs : DOMAIN proc'[q] \subseteq Owned[q]
  <2>1. CASE proc' = proc
    BY <2>1 DEF Shape
  <2>2. ASSUME NEW q \in Runs,
               proc' = [proc EXCEPT ![q] = [p \in DOMAIN @ |-> IF @[p] = "live" THEN "stopped" ELSE @[p]]]
        PROVE  proc' \in [Runs -> Tables] /\ \A x \in Runs : DOMAIN proc'[x] \subseteq Owned[x]
    <3> DEFINE t == [p \in DOMAIN proc[q] |-> IF proc[q][p] = "live" THEN "stopped" ELSE proc[q][p]]
    <3>1. proc[q] \in [DOMAIN proc[q] -> Fates] /\ DOMAIN proc[q] \subseteq Labels
      BY TableFacts DEF Shape
    <3>2. t \in [DOMAIN proc[q] -> Fates]
      BY <3>1 DEF Fates
    <3>3. t \in Tables /\ DOMAIN t = DOMAIN proc[q]
      BY <3>1, <3>2, TableFacts
    <3> HIDE DEF t
    <3> QED
      BY <2>2, <3>3 DEF Shape, t
  <2> QED
    BY <1>2, <2>1, <2>2 DEF Remove
<1>9. host' \in [Runs -> HostRecord]
  <2> host \in [Runs -> HostRecord] /\ inner \in [Runs -> InnerRecord] /\ head \in Revisions
    BY DEF Shape
  <2>0. \A h \in HostRecord : host' = [host EXCEPT ![r] = h] => host' \in [Runs -> HostRecord]
    OBVIOUS
  <2> USE DEF HostRecord, Codes, HostPlaces, Containers
  <2>1. CASE Begin(r)
    BY <2>1 DEF Begin, Goes
  <2>2. CASE Prepare(r)
    <3>1. \/ host' = [host EXCEPT ![r] = [host[r] EXCEPT !.at = "rm_mooncake", !.code = "error"]]
          \/ host' = [host EXCEPT ![r] = [host[r] EXCEPT !.at = "stale"]]
      BY <2>2 DEF Prepare, Fails, Goes
    <3>2. [host[r] EXCEPT !.at = "rm_mooncake", !.code = "error"] \in HostRecord
      BY ZenonT(60)
    <3>3. [host[r] EXCEPT !.at = "stale"] \in HostRecord
      BY ZenonT(60)
    <3> QED
      BY <2>0, <3>1, <3>2, <3>3, Zenon
  <2>3. CASE RemoveStale(r)
    BY <2>3 DEF RemoveStale, Fails, Goes
  <2>4. CASE NameMooncake(r)
    <3>1. host' = [host EXCEPT ![r] = [host[r] EXCEPT !.at = "mooncake", !.named = TRUE]]
      BY <2>4 DEF NameMooncake
    <3>2. [host[r] EXCEPT !.at = "mooncake", !.named = TRUE] \in HostRecord
      BY ZenonT(60)
    <3> QED
      BY <3>1, <3>2
  <2>5. CASE StartMooncake(r)
    BY <2>5 DEF StartMooncake, RunContainer, Fails, Goes
  <2>6. CASE ReadRevision(r)
    BY <2>6 DEF ReadRevision, Fails
  <2>7. CASE StartMain(r)
    BY <2>7 DEF StartMain, RunContainer, Fails, Goes
  <2>8. CASE Exec(r)
    BY <2>8 DEF Exec, Goes
  <2>9. CASE Wait(r)
    <3>1. PICK code \in Codes : host' = [host EXCEPT ![r].at = "rm_mooncake", ![r].code = code]
      BY <2>9 DEF Wait, InnerRecord
    <3>2. [host[r] EXCEPT !.at = "rm_mooncake", !.code = code] \in HostRecord
      BY ZenonT(60)
    <3> QED
      BY <3>1, <3>2
  <2>10. CASE RemoveMooncake(r)
    BY <2>10 DEF RemoveMooncake, RemoveOwn, Goes
  <2>11. CASE RemoveMain(r)
    BY <2>11 DEF RemoveMain, RemoveOwn, Goes
  <2>12. CASE RestoreOwner(r)
    BY <2>12, SMTT(30) DEF RestoreOwner, Goes
  <2>13. CASE Signal(r)
    <3>1. \/ host' = [host EXCEPT ![r].at = "rm_mooncake", ![r].code = "signal"]
          \/ host' = [host EXCEPT ![r].at = "ended", ![r].code = "raised"]
      BY <2>13 DEF Signal
    <3> QED
      BY <3>1
  <2>14. CASE Kill(r)
    BY <2>14 DEF Kill, Goes, InTry, InCleanup
  <2> QED
    BY <2>1, <2>2, <2>3, <2>4, <2>5, <2>6, <2>7, <2>8, <2>9, <2>10, <2>11, <2>12, <2>13, <2>14 DEF HostAction, HostStep
<1> QED
  BY <1>1, <1>4, <1>5, <1>6, <1>7, <1>8, <1>9 DEF Shape, TroubleOk

\* What a step of the runner in a container is made of.
InnerEffect(r) ==
    /\ trouble' = trouble \/ Trouble
    /\ \/ inner' = inner \/ Advance(r)
       \/ \E code \in {"ok", "error", "signal"} : ToCleanup(r, code)
       \/ AskRevision(r) \/ Check(r) \/ NoteScraper(r) \/ CheckServices(r) \/ Compact(r) \/ Normalize(r) \/ Nudge(r)
    /\ proc' = proc \/ Launch(r) \/ Stop(r) \/ \E p \in DOMAIN proc[r], how \in {"failed", "zero"} : Exits(r, p, how)
    /\ disk' = disk \/ Wipe(r) \/ Copy(r) \/ Install(r) \/ Mark(r)
    /\ venv' = venv \/ Wipe(r) \/ TakeOut(r) \/ PutIn(r)
    /\ flock' = flock \/ Lock(r) \/ Release(r) \/ \E code \in {"ok", "error", "signal"} : ToCleanup(r, code)

LEMMA InnerEffects ==
  ASSUME NEW r \in Runs, InnerAction(r)
  PROVE  InnerEffect(r)
<1> USE DEF InnerEffect
<1>1. CASE Run(r)
  BY <1>1 DEF Run, Breaks
<1>2. CASE AskRevision(r)
  BY <1>2 DEF AskRevision
<1>3. CASE Lock(r)
  BY <1>3 DEF Lock
<1>4. CASE Check(r)
  BY <1>4 DEF Check
<1>5. CASE Wipe(r)
  BY <1>5 DEF Wipe, Breaks
<1>6. CASE Copy(r)
  BY <1>6 DEF Copy, Breaks
<1>7. CASE Install(r)
  BY <1>7 DEF Install, Breaks
<1>8. CASE Mark(r)
  BY <1>8 DEF Mark
<1>9. CASE Release(r)
  BY <1>9 DEF Release
<1>10. CASE Use(r)
  BY <1>10 DEF Use, Breaks
<1>11. CASE Launch(r)
  BY <1>11 DEF Launch, Breaks
<1>12. CASE Ready(r)
  BY <1>12 DEF Ready, Breaks
<1>13. CASE NoteScraper(r)
  BY <1>13 DEF NoteScraper
<1>14. CASE Started(r)
  BY <1>14 DEF Started
<1>15. CASE Watch(r)
  BY <1>15 DEF Watch
<1>16. CASE CheckServices(r)
  BY <1>16 DEF CheckServices, Breaks
<1>17. CASE Stop(r)
  BY <1>17 DEF Stop
<1>18. CASE Compact(r)
  BY <1>18 DEF Compact
<1>19. CASE Normalize(r)
  BY <1>19 DEF Normalize
<1>20. CASE Nudge(r)
  BY <1>20 DEF Nudge
<1>21. CASE Crash(r)
  BY <1>21 DEF Crash, Exits
<1>22. CASE BenchmarkEnds(r)
  BY <1>22 DEF BenchmarkEnds, Exits
<1>23. CASE TakeOut(r) \/ PutIn(r)
  BY <1>23 DEF TakeOut, PutIn, Pip, Breaks
<1>24. CASE Import(r)
  BY <1>24 DEF Import, Breaks
<1> QED
  BY <1>1, <1>2, <1>3, <1>4, <1>5, <1>6, <1>7, <1>8, <1>9, <1>10, <1>11, <1>12, <1>13, <1>14, <1>15, <1>16, <1>17, <1>18, <1>19, <1>20, <1>21, <1>22, <1>23, <1>24 DEF InnerAction, InnerStep

\* InnerShape: so do those of the runners in the containers.
LEMMA ToCleanupShape ==
  ASSUME inner \in [Runs -> InnerRecord], NEW r \in Runs, NEW code \in Codes, ToCleanup(r, code)
  PROVE  inner' \in [Runs -> InnerRecord]
<1>1. "cleanup" \in Phases /\ 1 \in Nat \ {0}
  BY DEF Phases
<1>2. inner' = [inner EXCEPT ![r].phase = "cleanup", ![r].pc = 1, ![r].code = code]
  BY DEF ToCleanup
<1>3. inner[r] \in InnerRecord
  OBVIOUS
<1>4. [inner[r] EXCEPT !.phase = "cleanup", !.pc = 1, !.code = code] \in InnerRecord
  BY <1>1, <1>3 DEF InnerRecord
<1> QED
  BY <1>1, <1>2, <1>3, <1>4 DEF InnerRecord

LEMMA InnerShape ==
  ASSUME Shape, NEW r \in Runs, InnerAction(r)
  PROVE  Shape'
<1>1. InnerEffect(r) /\ UNCHANGED <<host, docker, head>>
  BY InnerEffects, InnerLeaves DEF InnerFootprint
<1>2. TroubleOk'
  BY <1>1, TroubleStep DEF Shape, TroubleOk, InnerEffect
<1>3. inner \in [Runs -> InnerRecord] /\ inner[r] \in InnerRecord /\ head \in Revisions
  BY DEF Shape
<1>4. inner' \in [Runs -> InnerRecord]
  <2> USE <1>3 DEF InnerRecord, Phases, Codes, Parts
  <2>1. CASE inner' = inner \/ Advance(r) \/ AskRevision(r) \/ Check(r) \/ Compact(r) \/ Normalize(r)
    <3>1. inner[r].pc + 1 \in Nat \ {0} /\ inner[r].pc + 5 \in Nat \ {0}
      OBVIOUS
    <3>2. CASE inner' = inner
      BY <3>2
    <3>3. CASE Advance(r)
      BY <3>1, <3>3 DEF Advance
    <3>4. CASE AskRevision(r)
      BY <3>1, <3>4 DEF AskRevision
    <3>5. CASE Check(r)
      BY <3>1, <3>5 DEF Check
    <3>6. CASE Compact(r)
      <4>1. PICK result \in Outcomes : inner' = [inner EXCEPT ![r].compacted = result, ![r].pc = @ + 1]
        BY <3>6 DEF Compact, Outcomes
      <4> QED
        BY <3>1, <4>1
    <3>7. CASE Normalize(r)
      <4>1. PICK result \in Outcomes : inner' = [inner EXCEPT ![r].normalized = result, ![r].phase = "ended"]
        BY <3>7 DEF Normalize, Outcomes
      <4> QED
        BY <4>1
    <3> QED
      BY <2>1, <3>2, <3>3, <3>4, <3>5, <3>6, <3>7
  <2>2. CASE \E code \in {"ok", "error", "signal"} : ToCleanup(r, code)
    <3>1. PICK code \in {"ok", "error", "signal"} : ToCleanup(r, code)
      BY <2>2
    <3> QED
      BY <3>1, ToCleanupShape
  <2>3. CASE Nudge(r)
    BY <2>3 DEF Nudge, ToCleanup
  <2>4. CASE NoteScraper(r)
    <3>1. What(r) \in Parts
      <4>1. inner[r].pc \in DOMAIN Program(r) /\ Program(r)[inner[r].pc][1] = "scraper"
        BY <2>4 DEF NoteScraper, Doing
      <4>2. CASE inner[r].phase = "running"
        BY <4>1, <4>2, StagesInOrder DEF Program, What, ScraperStep
      <4>3. CASE inner[r].phase # "running"
        BY <4>1, <4>3 DEF Program, Cleanup
      <4> QED
        BY <4>2, <4>3
    <3> QED
      BY <2>4, <3>1 DEF NoteScraper
  <2>5. CASE CheckServices(r)
    <3>1. inner[r].pc - 1 \in Nat \ {0}
      <4>1. inner[r].pc \in DOMAIN Program(r) /\ Program(r)[inner[r].pc][1] = "alive"
        BY <2>5 DEF CheckServices, Doing
      <4>2. CASE inner[r].phase = "running"
        BY <4>1, <4>2, StagesInOrder DEF Program, RevisionAt
      <4>3. CASE inner[r].phase # "running"
        BY <4>1, <4>3 DEF Program, Cleanup
      <4> QED
        BY <4>2, <4>3
    <3> QED
      BY <2>5, <3>1 DEF CheckServices, Breaks, ToCleanup
  <2> QED
    BY <1>1, <2>1, <2>2, <2>3, <2>4, <2>5 DEF InnerEffect
<1>5. proc' \in [Runs -> Tables] /\ \A q \in Runs : DOMAIN proc'[q] \subseteq Owned[q]
  <2>1. proc[r] \in [DOMAIN proc[r] -> Fates] /\ DOMAIN proc[r] \subseteq Labels /\ DOMAIN proc[r] \subseteq Owned[r]
    BY TableFacts DEF Shape
  <2>2. \A t : proc' = [proc EXCEPT ![r] = t] /\ t \in [DOMAIN t -> Fates] /\ DOMAIN t \subseteq Owned[r] =>
               proc' \in [Runs -> Tables] /\ \A q \in Runs : DOMAIN proc'[q] \subseteq Owned[q]
    BY TableFacts DEF Shape
  <2>3. CASE proc' = proc
    BY <2>3 DEF Shape
  <2>4. CASE Stop(r)
    <3> DEFINE which == IF What(r) = "rest" THEN DOMAIN proc[r]
                        ELSE IF "process" \in inner[r].scraper THEN {"tachometer"} ELSE {}
               t == [p \in DOMAIN proc[r] |->
                       IF p \in which /\ proc[r][p] = "live" THEN "stopped" ELSE proc[r][p]]
    <3>1. proc' = [proc EXCEPT ![r] = t]
      BY <2>4 DEF Stop
    <3>2. t \in [DOMAIN t -> Fates] /\ DOMAIN t = DOMAIN proc[r]
      BY <2>1 DEF Fates
    <3> HIDE DEF t
    <3> QED
      BY <2>1, <2>2, <3>1, <3>2
  <2>5. CASE Launch(r)
    <3>1. CASE proc' = proc
      BY <2>3, <3>1
    <3>2. CASE proc' # proc
      <4> DEFINE t == [p \in DOMAIN proc[r] \cup {What(r)} |-> IF p = What(r) THEN "live" ELSE proc[r][p]]
      <4>1. proc' = [proc EXCEPT ![r] = t]
        BY <2>5, <3>2 DEF Launch
      <4>2. t \in [DOMAIN t -> Fates] /\ DOMAIN t = DOMAIN proc[r] \cup {What(r)}
        BY <2>1 DEF Fates
      <4>3. What(r) \in Owned[r]
        <5>1. /\ inner[r].pc \in DOMAIN Program(r) /\ Program(r)[inner[r].pc][1] = "launch"
              /\ What(r) = Program(r)[inner[r].pc][2]
          BY <2>5 DEF Launch, Doing, What
        <5>2. CASE Program(r) = Stages[r]
          BY <5>1, <5>2 DEF Owned
        <5>3. CASE Program(r) = Cleanup
          BY <5>1, <5>3 DEF Cleanup
        <5> QED
          BY <5>2, <5>3 DEF Program
      <4> HIDE DEF t
      <4> QED
        BY <2>1, <2>2, <4>1, <4>2, <4>3
    <3> QED
      BY <3>1, <3>2
  <2>6. ASSUME NEW p \in DOMAIN proc[r], NEW how \in {"failed", "zero"}, Exits(r, p, how)
        PROVE  proc' \in [Runs -> Tables] /\ \A q \in Runs : DOMAIN proc'[q] \subseteq Owned[q]
    <3> DEFINE t == [proc[r] EXCEPT ![p] = how]
    <3>1. proc' = [proc EXCEPT ![r] = t]
      BY <2>6 DEF Exits
    <3>2. t \in [DOMAIN t -> Fates] /\ DOMAIN t = DOMAIN proc[r]
      BY <2>1 DEF Fates
    <3> HIDE DEF t
    <3> QED
      BY <2>1, <2>2, <3>1, <3>2
  <2> QED
    BY <1>1, <2>3, <2>4, <2>5, <2>6 DEF InnerEffect
<1>6. disk' \in [Caches -> Entry]
  <2>1. CASE \E x, e : disk' = [disk EXCEPT ![x] = e] /\ (x \in Caches => e \in Entry)
    BY <2>1 DEF Shape
  <2>2. CASE disk' = disk
    BY <2>2 DEF Shape
  <2>3. Dir(r, What(r)) \in Caches => disk[Dir(r, What(r))] \in Entry
    BY DEF Shape
  <2>4. \A e : Fill(r, e) /\ (Dir(r, What(r)) \in Caches => e \in Entry) => disk' \in [Caches -> Entry]
    BY <2>1 DEF Fill
  <2> HIDE DEF Dir
  <2>5. CASE Wipe(r)
    <3>1. [copied |-> FALSE, whole |-> FALSE, complete |-> FALSE] \in Entry
      BY DEF Entry
    <3> QED
      BY <2>2, <2>4, <2>5, <3>1 DEF Wipe
  <2>6. CASE Copy(r)
    <3>1. Dir(r, What(r)) \in Caches => [disk[Dir(r, What(r))] EXCEPT !.copied = TRUE] \in Entry
      BY <2>3 DEF Entry
    <3> QED
      BY <2>2, <2>4, <2>6, <3>1 DEF Copy
  <2>7. CASE Install(r)
    <3>1. Dir(r, What(r)) \in Caches => [disk[Dir(r, What(r))] EXCEPT !.whole = TRUE] \in Entry
      BY <2>3 DEF Entry
    <3> QED
      BY <2>2, <2>4, <2>7, <3>1 DEF Install
  <2>8. CASE Mark(r)
    <3>1. Dir(r, What(r)) \in Caches => [disk[Dir(r, What(r))] EXCEPT !.complete = TRUE] \in Entry
      BY <2>3 DEF Entry
    <3> QED
      BY <2>4, <2>8, <3>1 DEF Mark
  <2> QED
    BY <1>1, <2>2, <2>5, <2>6, <2>7, <2>8 DEF InnerEffect
<1>7. flock' \in [Caches -> Runs \cup {None}]
  BY <1>1 DEF Shape, InnerEffect, Lock, Release, ToCleanup
<1>8. venv' \in [DynamoParts \X Revisions -> Runs \cup {None}]
  <2>1. CASE venv' = venv
    BY <2>1 DEF Shape
  <2>2. CASE Wipe(r)
    BY <2>1, <2>2 DEF Shape, Wipe
  <2>3. CASE TakeOut(r) \/ PutIn(r)
    BY <2>1, <2>3 DEF Shape, TakeOut, PutIn, Pip
  <2> QED
    BY <1>1, <2>1, <2>2, <2>3 DEF InnerEffect
<1> QED
  BY <1>1, <1>2, <1>4, <1>5, <1>6, <1>7, <1>8 DEF Shape, TroubleOk

LEMMA ShapeStep ==
  ASSUME Shape, [Next]_vars
  PROVE  Shape'
<1>1. CASE Move \/ UNCHANGED vars
  BY <1>1, RunAssumption DEF Shape, Move, Trouble, vars
<1> QED
  BY <1>1, HostShape, InnerShape DEF Next, HostAction, InnerAction

-----------------------------------------------------------------------------
(* The progress of the runner in a container.                               *)

\* AtStage and AtCleanup: which of its two programs a step belongs to.
LEMMA AtStage ==
  ASSUME Shape, NEW r \in Runs, NEW k, k \notin {"stop", "compact", "normalize"}, Doing(r, k)
  PROVE  /\ inner[r].phase = "running" /\ inner[r].pc \in 1..Len(Stages[r])
         /\ Stages[r][inner[r].pc][1] = k /\ What(r) = Stages[r][inner[r].pc][2]
<1>1. CASE inner[r].phase = "running"
  BY <1>1, StagesInOrder DEF Doing, Program, What
<1>2. CASE inner[r].phase # "running"
  <2>1. Program(r) = Cleanup
    BY <1>2 DEF Program
  <2>2. inner[r].pc \in DOMAIN Cleanup /\ Cleanup[inner[r].pc][1] = k
    BY <2>1 DEF Doing
  <2> QED
    BY <2>2 DEF Cleanup
<1> QED
  BY <1>1, <1>2

LEMMA AtCleanup ==
  ASSUME Shape, NEW r \in Runs, NEW k \in {"stop", "compact", "normalize"}, Doing(r, k)
  PROVE  /\ inner[r].phase = "cleanup"
         /\ k = "stop" => \/ inner[r].pc = 1 /\ What(r) = "tachometer"
                          \/ inner[r].pc = 3 /\ What(r) = "rest"
         /\ k = "compact" => inner[r].pc = 2
         /\ k = "normalize" => inner[r].pc = 4
<1>1. CASE inner[r].phase = "running"
  <2>1. Stages[r] \in Seq(Step) /\ inner[r].pc \in 1..Len(Stages[r]) /\ Stages[r][inner[r].pc][1] = k
    BY <1>1, StagesInOrder DEF Doing, Program
  <2>2. Stages[r][inner[r].pc] \in Step
    BY <2>1, ElementOfSeq
  <2>3. Stages[r][inner[r].pc][1] \in FirstKinds \cup {"scraper", "started", "watch", "alive"}
    BY <2>2 DEF Step
  <2> QED
    BY <2>1, <2>3 DEF FirstKinds, CacheKinds
<1>2. CASE inner[r].phase # "running"
  <2>1. Program(r) = Cleanup /\ inner[r].phase = "cleanup"
    BY <1>2 DEF Program, Doing, Running
  <2>2. inner[r].pc \in DOMAIN Cleanup /\ Cleanup[inner[r].pc][1] = k /\ What(r) = Cleanup[inner[r].pc][2]
    BY <2>1 DEF Doing, What
  <2>3. inner[r].pc \in 1..4
    BY <2>2 DEF Cleanup
  <2> QED
    BY <2>1, <2>2, <2>3 DEF Cleanup
<1> QED
  BY <1>1, <1>2

\* CheckSkips: what a check that finds its cache complete leaps over.
LEMMA CheckSkips ==
  ASSUME NEW r \in Runs, NEW n \in 1..Len(Stages[r]), Stages[r][n][1] = "check"
  PROVE  /\ \A m \in 1..Len(Stages[r]) : n <= m /\ m < n + 5 => Stages[r][m][1] \notin {"launch", "scraper", "in"}
         /\ n + 4 \in 1..Len(Stages[r]) /\ Stages[r][n + 4] = <<"mark", Stages[r][n][2]>>
         /\ n + 5 \in 1..Len(Stages[r]) /\ Stages[r][n + 5] = <<"release", Stages[r][n][2]>>
<1> DEFINE s == Stages[r]
           c == s[n][2]
<1>1. Len(s) \in Nat /\ WellFormed(s)
  BY StagesInOrder
<1> HIDE DEF s
<1>2. n + 5 \in 1..Len(s) /\ s[n + 5] = <<"release", c>>
  BY <1>1 DEF WellFormed, WellAt, s
<1>3. /\ n + 4 \in 1..Len(s) /\ n + 3 \in 1..Len(s) /\ n + 2 \in 1..Len(s) /\ n + 1 \in 1..Len(s)
      /\ (n + 5) - 1 = n + 4 /\ (n + 4) - 1 = n + 3 /\ (n + 3) - 1 = n + 2 /\ (n + 2) - 1 = n + 1
  BY <1>1, <1>2
<1> HIDE DEF c
<1>11. ASSUME NEW k \in 1..Len(s)
       PROVE  /\ After(s, k, "check", "wipe") /\ After(s, k, "wipe", "copy") /\ After(s, k, "copy", "install")
              /\ After(s, k, "install", "mark") /\ After(s, k, "mark", "release")
  BY <1>1 DEF WellFormed, WellAt
<1>4. s[n + 4] = <<"mark", c>>
  BY <1>2, <1>3, <1>11 DEF After
<1>5. s[n + 3] = <<"install", c>>
  <2>1. After(s, n + 4, "install", "mark") /\ s[n + 4][1] = "mark" /\ s[n + 4][2] = c
    BY <1>3, <1>4, <1>11
  <2> QED
    BY <1>3, <2>1 DEF After
<1>6. s[n + 2] = <<"copy", c>>
  <2>1. After(s, n + 3, "copy", "install") /\ s[n + 3][1] = "install" /\ s[n + 3][2] = c
    BY <1>3, <1>5, <1>11
  <2> QED
    BY <1>3, <2>1 DEF After
<1>7. s[n + 1] = <<"wipe", c>>
  <2>1. After(s, n + 2, "wipe", "copy") /\ s[n + 2][1] = "copy" /\ s[n + 2][2] = c
    BY <1>3, <1>6, <1>11
  <2> QED
    BY <1>3, <2>1 DEF After
<1>8. ASSUME NEW m \in 1..Len(s), n <= m, m < n + 5
      PROVE  m \in {n, n + 1, n + 2, n + 3, n + 4}
  <2>1. m \in Int /\ n \in Int /\ n <= m /\ m < n + 5
    BY <1>1, <1>8 DEF s
  <2> QED
    BY <2>1
<1>9. s[n][1] = "check"
  BY DEF s
<1>10. ASSUME NEW m \in 1..Len(s), n <= m, m < n + 5
       PROVE  s[m][1] \notin {"launch", "scraper", "in"}
  <2>1. s[m][1] \in {"check", "wipe", "copy", "install", "mark"}
    <3>1. CASE m = n
      BY <1>9, <3>1
    <3>2. CASE m = n + 1
      BY <1>7, <3>2
    <3>3. CASE m = n + 2
      BY <1>6, <3>3
    <3>4. CASE m = n + 3
      BY <1>5, <3>4
    <3>5. CASE m = n + 4
      BY <1>4, <3>5
    <3> QED
      BY <1>8, <1>10, <3>1, <3>2, <3>3, <3>4, <3>5
  <2> QED
    BY <2>1
<1> QED
  BY <1>2, <1>3, <1>4, <1>10 DEF s, c

\* BenchmarkOwned: the benchmark is one of the processes of a run.
LEMMA BenchmarkOwned ==
  ASSUME NEW r \in Runs
  PROVE  "benchmark" \in Owned[r]
<1>1. Contains(Stages[r], <<"launch", "benchmark">>) /\ DOMAIN Stages[r] = 1..Len(Stages[r])
  BY StagesInOrder
<1>2. PICK n \in DOMAIN Stages[r] : Stages[r][n] = <<"launch", "benchmark">>
  BY <1>1 DEF Contains
<1>3. n \in {m \in DOMAIN Stages[r] : Stages[r][m][1] = "launch"} /\ Stages[r][n][2] = "benchmark"
  BY <1>2
<1> QED
  BY <1>3 DEF Owned

\* HostProgress: a host runner ends processes, and reports what the container's runner has.
LEMMA HostProgress ==
  ASSUME Shape, Shape', HostInv, ProgressInv, NEW r \in Runs, HostAction(r)
  PROVE  ProgressInv'
<1>1. HostFootprint(r)
  BY HostLeaves
<1>2. \/ host'[r].code = host[r].code
      \/ host'[r].code \in {"error", "signal", "raised"}
      \/ inner[r].phase = "ended" /\ host'[r].code = inner[r].code
  BY DEF Shape, HostRecord, HostAction, HostStep, Begin, Prepare, RemoveStale, NameMooncake, StartMooncake,
         RunContainer, ReadRevision, StartMain, Exec, Wait, RemoveMooncake, RemoveMain, RemoveOwn,
         RestoreOwner, Signal, Kill, Fails, Goes
<1> SUFFICES ASSUME NEW q \in Runs PROVE ProgressOk(q)'
  BY DEF ProgressInv
<1>3. ProgressOk(q) /\ inner[q] \in InnerRecord
  BY DEF ProgressInv, Shape
<1>4. /\ DOMAIN proc'[q] = DOMAIN proc[q]
      /\ \A p \in DOMAIN proc[q] : \/ proc'[q][p] = proc[q][p]
                                   \/ proc[q][p] = "live" /\ proc'[q][p] = "stopped"
  BY <1>1 DEF HostFootprint
<1>5. CASE inner'[q] = inner[q]
  <2>1. inner[q].phase = "running" => (PassedOk(q))'
    BY <1>3, <1>4, <1>5 DEF ProgressOk, PassedOk, Passed
  <2>2. ScraperOk(q)'
    BY <1>3, <1>4, <1>5 DEF ProgressOk, ScraperOk
  <2>3. /\ ScraperGone(q) => ScraperGone(q)' \/ inner[q].scraper = {}
        /\ NoneLive(q) => NoneLive(q)'
        /\ Compacted(q)' <=> Compacted(q)
    BY <1>3, <1>4, <1>5 DEF ProgressOk, ScraperOk, ScraperGone, NoneLive, Compacted
  <2>4. ScraperGone(q) => ScraperGone(q)'
    BY <1>5, <2>3 DEF ScraperGone
  <2>5. CleanupOk(q)' /\ EndedOk(q)'
    <3>1. CleanupOk(q) /\ EndedOk(q)
      BY <1>3 DEF ProgressOk
    <3>2. CleanupOk(q)'
      BY <1>5, <2>3, <2>4, <3>1 DEF CleanupOk
    <3>3. EndedOk(q)'
      BY <1>5, <2>3, <3>1 DEF EndedOk, Normalized
    <3> QED
      BY <3>2, <3>3
  <2>6. SucceededOk(q)'
    BY <1>3, <1>4, <1>5, BenchmarkOwned DEF ProgressOk, SucceededOk
  <2>7. host'[q].code = "ok" => host[q].code = "ok" \/ (inner[q].phase = "ended" /\ inner[q].code = "ok")
    BY <1>1, <1>2 DEF HostFootprint
  <2> QED
    BY <1>3, <1>5, <2>1, <2>2, <2>5, <2>6, <2>7 DEF ProgressOk
<1>6. CASE Running(q) /\ inner'[q] = [inner[q] EXCEPT !.phase = "dead"]
  <2>1. /\ inner'[q].phase = "dead" /\ inner'[q].scraper = inner[q].scraper
        /\ inner[q].phase # "ended" /\ inner[q].phase # "absent"
    BY <1>3, <1>6 DEF InnerRecord, Running
  <2>2. host'[q].code # "ok"
    <3>1. host[q].code # "ok"
      BY <1>3, <2>1 DEF ProgressOk
    <3> QED
      BY <1>1, <1>2, <2>1, <3>1 DEF HostFootprint
  <2> QED
    BY <1>3, <1>4, <2>1, <2>2 DEF ProgressOk, ScraperOk, CleanupOk, EndedOk, SucceededOk
<1>7. CASE q = r /\ host[r].at = "exec" /\ inner'[q] = [inner[q] EXCEPT !.phase = "running"]
  <2>1. inner[q] = Absent /\ host[q].code = "none"
    BY <1>7 DEF HostInv, HostOk, Before
  <2>2. /\ inner'[q].phase = "running" /\ inner'[q].pc = 1 /\ inner'[q].code = "none"
        /\ inner'[q].scraper = {} /\ inner'[q].compacted = "none"
    BY <1>7, <2>1 DEF Absent
  <2>3. PassedOk(q)'
    BY <2>2, StagesInOrder DEF PassedOk, Passed
  <2>4. host'[q].code # "ok"
    BY <1>2, <1>7, <2>1 DEF Absent
  <2> QED
    BY <2>2, <2>3, <2>4 DEF ProgressOk, ScraperOk, CleanupOk, EndedOk, SucceededOk
<1> QED
  BY <1>1, <1>5, <1>6, <1>7 DEF HostFootprint

\* FallsBack: an exception in run's try leaves a clean-up that has not begun.
LEMMA FallsBack ==
  ASSUME Shape, NEW r \in Runs, ProgressOk(r), inner[r].phase = "running",
         NEW code \in {"error", "signal"}, ToCleanup(r, code), UNCHANGED <<host, proc>>
  PROVE  ProgressOk(r)'
<1>1. inner \in [Runs -> InnerRecord] /\ inner[r] \in InnerRecord
  BY DEF Shape
<1>2. inner' = [inner EXCEPT ![r].phase = "cleanup", ![r].pc = 1, ![r].code = code]
  BY DEF ToCleanup
<1>3. /\ inner'[r].phase = "cleanup" /\ inner'[r].pc = 1 /\ inner'[r].code = code
      /\ inner'[r].scraper = inner[r].scraper /\ inner'[r].compacted = inner[r].compacted
  BY <1>1, <1>2 DEF InnerRecord
<1> QED
  BY <1>3 DEF ProgressOk, ScraperOk, CleanupOk, EndedOk, SucceededOk

\* PassesOn: a stage that has done its part is passed.
LEMMA PassesOn ==
  ASSUME Shape, NEW r \in Runs, ProgressOk(r), inner[r].phase = "running", UNCHANGED host,
         inner[r].pc \in 1..Len(Stages[r]),
         inner'[r].phase = "running", inner'[r].pc = inner[r].pc + 1, inner'[r].code = inner[r].code,
         inner'[r].compacted = inner[r].compacted, inner[r].scraper \subseteq inner'[r].scraper,
         DOMAIN proc[r] \subseteq DOMAIN proc'[r], ScraperOk(r)',
         Stages[r][inner[r].pc][1] = "launch" => Stages[r][inner[r].pc][2] \in DOMAIN proc'[r],
         Stages[r][inner[r].pc][1] = "scraper" => Stages[r][inner[r].pc][2] \in inner'[r].scraper
  PROVE  ProgressOk(r)'
<1>1. inner[r].pc \in Nat /\ DOMAIN Stages[r] = 1..Len(Stages[r]) /\ Len(Stages[r]) \in Nat
  BY StagesInOrder DEF Shape, InnerRecord
<1>2. ASSUME NEW n, Passed(r, n)'
      PROVE  /\ Stages[r][n][1] = "launch" => Stages[r][n][2] \in DOMAIN proc'[r]
             /\ Stages[r][n][1] = "scraper" => Stages[r][n][2] \in inner'[r].scraper
  <2>1. n \in 1..Len(Stages[r]) /\ n < inner[r].pc + 1
    BY <1>1, <1>2 DEF Passed
  <2>2. n = inner[r].pc \/ (n < inner[r].pc /\ Passed(r, n))
    BY <1>1, <2>1 DEF Passed
  <2> QED
    BY <2>2 DEF ProgressOk, PassedOk
<1>3. PassedOk(r)'
  BY <1>2 DEF PassedOk
<1> QED
  BY <1>3 DEF ProgressOk, CleanupOk, EndedOk, SucceededOk

\* Advances: most stages change nothing of what the next ones rely on.
LEMMA Advances ==
  ASSUME Shape, NEW r \in Runs, ProgressOk(r), NEW k, k \notin {"launch", "scraper", "stop", "compact", "normalize"},
         Doing(r, k), UNCHANGED <<host, proc>>,
         Advance(r) \/ inner' = [inner EXCEPT ![r].rev = head, ![r].pc = @ + 1]
  PROVE  ProgressOk(r)'
<1>1. /\ inner[r].phase = "running" /\ inner[r].pc \in 1..Len(Stages[r])
      /\ Stages[r][inner[r].pc][1] \notin {"launch", "scraper"}
  BY AtStage
<1>2. inner \in [Runs -> InnerRecord] /\ inner[r] \in InnerRecord
  BY DEF Shape
<1>3. /\ inner'[r].phase = "running" /\ inner'[r].pc = inner[r].pc + 1 /\ inner'[r].code = inner[r].code
      /\ inner'[r].compacted = inner[r].compacted /\ inner'[r].scraper = inner[r].scraper
  BY <1>1, <1>2 DEF Advance, InnerRecord
<1>4. ScraperOk(r)'
  BY <1>3 DEF ProgressOk, ScraperOk
<1> QED
  BY <1>1, <1>3, <1>4, PassesOn

\* WatchSees: when the watch begins, everything has been started.
LEMMA WatchSees ==
  ASSUME Shape, NEW r \in Runs, ProgressOk(r), Doing(r, "watch")
  PROVE  /\ DOMAIN proc[r] = Owned[r]
         /\ Has(r, "tachometer") => inner[r].scraper = Parts
<1>1. /\ inner[r].phase = "running" /\ inner[r].pc \in 1..Len(Stages[r])
      /\ Stages[r][inner[r].pc][1] = "watch"
  BY AtStage
<1>2. \A m \in 1..Len(Stages[r]) : Stages[r][m][1] \in {"launch", "scraper"} => m < inner[r].pc
  BY <1>1, StagesInOrder
<1>3. DOMAIN Stages[r] = 1..Len(Stages[r])
  BY StagesInOrder
<1>4. PassedOk(r)
  BY <1>1 DEF ProgressOk
<1>5. ASSUME NEW p \in Owned[r] PROVE p \in DOMAIN proc[r]
  <2>1. PICK m \in DOMAIN Stages[r] : Stages[r][m][1] = "launch" /\ Stages[r][m][2] = p
    BY DEF Owned
  <2>2. Passed(r, m)
    BY <1>2, <1>3, <2>1 DEF Passed
  <2> QED
    BY <1>4, <2>1, <2>2 DEF PassedOk
<1>6. ASSUME NEW x, Contains(Stages[r], <<"scraper", x>>) PROVE x \in inner[r].scraper
  <2>1. PICK m \in 1..Len(Stages[r]) : Stages[r][m] = <<"scraper", x>>
    BY <1>6 DEF Contains
  <2>2. Passed(r, m)
    BY <1>2, <1>3, <2>1 DEF Passed
  <2> QED
    BY <1>4, <2>1, <2>2 DEF PassedOk
<1>7. ASSUME Has(r, "tachometer") PROVE inner[r].scraper = Parts
  <2>1. Contains(Stages[r], <<"scraper", "process">>) /\ Contains(Stages[r], <<"scraper", "local_dir">>)
    BY <1>7, StagesInOrder
  <2>2. inner[r].scraper \subseteq Parts
    BY DEF Shape, InnerRecord
  <2> QED
    BY <1>6, <2>1, <2>2 DEF Parts
<1> QED
  BY <1>5, <1>7 DEF Shape

\* InnerProgress: every step of the runner in a container, one by one.
LEMMA InnerProgress ==
  ASSUME Shape, Shape', ProgressInv, NEW r \in Runs, InnerAction(r)
  PROVE  ProgressInv'
<1>1. InnerFootprint(r) /\ host' = host
  BY InnerLeaves DEF InnerFootprint
<1>2. ASSUME NEW q \in Runs \ {r} PROVE ProgressOk(q)'
  <2>1. host' = host /\ inner'[q] = inner[q] /\ proc'[q] = proc[q] /\ ProgressOk(q)
    BY <1>1 DEF InnerFootprint, ProgressInv
  <2> QED
    BY <2>1 DEF ProgressOk, PassedOk, Passed, ScraperOk, CleanupOk, EndedOk, SucceededOk, ScraperGone,
                NoneLive, Compacted, Normalized
<1> SUFFICES ProgressOk(r)'
  BY <1>2 DEF ProgressInv
<1>3. ProgressOk(r) /\ inner[r] \in InnerRecord /\ inner \in [Runs -> InnerRecord]
  BY DEF ProgressInv, Shape
<1>4. /\ proc \in [Runs -> Tables]
      /\ proc[r] \in [DOMAIN proc[r] -> Fates] /\ DOMAIN proc[r] \subseteq Owned[r]
  BY TableFacts DEF Shape
<1>5. \A k : k \notin {"stop", "compact", "normalize"} /\ Doing(r, k) => inner[r].phase = "running"
  BY AtStage
<1>6. \A code \in {"error", "signal"} : inner[r].phase = "running" /\ ToCleanup(r, code) /\ proc' = proc => ProgressOk(r)'
  BY <1>1, <1>3, FallsBack
<1>7. \A k : /\ k \notin {"launch", "scraper", "stop", "compact", "normalize"} /\ Doing(r, k) /\ proc' = proc
             /\ Advance(r) \/ inner' = [inner EXCEPT ![r].rev = head, ![r].pc = @ + 1]
             => ProgressOk(r)'
  BY <1>1, <1>3, Advances
<1>8. CASE Run(r)
  BY <1>8, <1>5, <1>6, <1>7 DEF Run, Breaks
<1>9. CASE AskRevision(r)
  BY <1>9, <1>5, <1>6, <1>7 DEF AskRevision
<1>10. CASE Lock(r)
  BY <1>10, <1>5, <1>6, <1>7 DEF Lock
<1>11. CASE Wipe(r)
  BY <1>11, <1>5, <1>6, <1>7 DEF Wipe, Breaks
<1>12. CASE Copy(r)
  BY <1>12, <1>5, <1>6, <1>7 DEF Copy, Breaks
<1>13. CASE Install(r)
  BY <1>13, <1>5, <1>6, <1>7 DEF Install, Breaks
<1>14. CASE Mark(r)
  BY <1>14, <1>5, <1>6, <1>7 DEF Mark
<1>15. CASE Release(r)
  BY <1>15, <1>5, <1>6, <1>7 DEF Release
<1>16. CASE Use(r)
  BY <1>16, <1>5, <1>6, <1>7 DEF Use, Breaks
<1>17. CASE Ready(r)
  BY <1>17, <1>5, <1>6, <1>7 DEF Ready, Breaks
<1>18. CASE Started(r)
  BY <1>18, <1>5, <1>6, <1>7 DEF Started
<1>19. CASE Check(r)
  <2>1. inner[r].phase = "running" /\ inner[r].pc \in 1..Len(Stages[r]) /\ Stages[r][inner[r].pc][1] = "check"
    BY <1>19, AtStage DEF Check
  <2>2. CASE inner' = [inner EXCEPT ![r].pc = @ + 1]
    BY <1>19, <1>7, <2>2 DEF Check, Advance
  <2>3. CASE inner' = [inner EXCEPT ![r].pc = @ + 5]
    <3>1. /\ inner'[r].phase = "running" /\ inner'[r].pc = inner[r].pc + 5 /\ inner'[r].code = inner[r].code
          /\ inner'[r].compacted = inner[r].compacted /\ inner'[r].scraper = inner[r].scraper
      BY <1>3, <2>1, <2>3 DEF InnerRecord
    <3>2. proc' = proc
      BY <1>19 DEF Check
    <3>3. ASSUME NEW n, Passed(r, n)'
          PROVE  /\ Stages[r][n][1] = "launch" => Stages[r][n][2] \in DOMAIN proc'[r]
                 /\ Stages[r][n][1] = "scraper" => Stages[r][n][2] \in inner'[r].scraper
      <4>1. n \in 1..Len(Stages[r]) /\ n < inner[r].pc + 5 /\ DOMAIN Stages[r] = 1..Len(Stages[r])
        BY <3>1, <3>3, StagesInOrder DEF Passed
      <4>2. CASE n < inner[r].pc
        BY <1>3, <2>1, <3>1, <3>2, <4>1, <4>2 DEF Passed, ProgressOk, PassedOk
      <4>3. CASE ~(n < inner[r].pc)
        <5>1. inner[r].pc <= n
          BY <2>1, <4>1, <4>3
        <5> QED
          BY <2>1, <4>1, <5>1, CheckSkips
      <4> QED
        BY <4>2, <4>3
    <3> QED
      BY <1>1, <1>3, <2>1, <3>1, <3>2, <3>3 DEF ProgressOk, PassedOk, ScraperOk, CleanupOk, EndedOk, SucceededOk
  <2> QED
    BY <1>19, <2>2, <2>3 DEF Check
<1>20. CASE Launch(r)
  <2>1. /\ inner[r].phase = "running" /\ inner[r].pc \in 1..Len(Stages[r])
        /\ Stages[r][inner[r].pc][1] = "launch" /\ What(r) = Stages[r][inner[r].pc][2]
    BY <1>20, AtStage DEF Launch
  <2>2. CASE Breaks(r) /\ UNCHANGED proc
    BY <1>6, <2>1, <2>2 DEF Breaks
  <2>3. CASE /\ proc' = [proc EXCEPT ![r] = [p \in DOMAIN @ \cup {What(r)} |->
                                              IF p = What(r) THEN "live" ELSE @[p]]]
             /\ Advance(r)
    <3>1. DOMAIN proc'[r] = DOMAIN proc[r] \cup {What(r)}
      BY <1>4, <2>3
    <3>2. /\ inner'[r].phase = "running" /\ inner'[r].pc = inner[r].pc + 1 /\ inner'[r].code = inner[r].code
          /\ inner'[r].compacted = inner[r].compacted /\ inner'[r].scraper = inner[r].scraper
      BY <1>3, <2>1, <2>3 DEF Advance, InnerRecord
    <3>3. ScraperOk(r)'
      BY <1>3, <3>1, <3>2 DEF ProgressOk, ScraperOk
    <3> QED
      BY <1>1, <1>3, <2>1, <3>1, <3>2, <3>3, PassesOn
  <2> QED
    BY <1>20, <2>2, <2>3 DEF Launch
<1>21. CASE NoteScraper(r)
  <2>1. /\ inner[r].phase = "running" /\ inner[r].pc \in 1..Len(Stages[r])
        /\ Stages[r][inner[r].pc][1] = "scraper" /\ What(r) = Stages[r][inner[r].pc][2]
    BY <1>21, AtStage DEF NoteScraper
  <2>2. /\ inner'[r].phase = "running" /\ inner'[r].pc = inner[r].pc + 1 /\ inner'[r].code = inner[r].code
        /\ inner'[r].compacted = inner[r].compacted /\ inner'[r].scraper = inner[r].scraper \cup {What(r)}
        /\ proc' = proc
    BY <1>21, <1>3, <2>1 DEF NoteScraper, InnerRecord
  <2>3. ScraperStep(r, inner[r].pc) /\ DOMAIN Stages[r] = 1..Len(Stages[r])
    BY <2>1, StagesInOrder
  <2>4. Passed(r, inner[r].pc - 1)
    BY <2>1, <2>3 DEF ScraperStep, Passed
  <2>5. CASE What(r) = "process" /\ Stages[r][inner[r].pc - 1] = <<"launch", "tachometer">>
    <3>1. "tachometer" \in DOMAIN proc[r]
      BY <1>3, <2>1, <2>4, <2>5 DEF ProgressOk, PassedOk
    <3>2. ScraperOk(r)'
      BY <2>2, <2>3, <2>5, <3>1 DEF ScraperOk, ScraperStep
    <3> QED
      BY <1>1, <1>3, <2>1, <2>2, <3>2, PassesOn
  <2>6. CASE What(r) = "local_dir" /\ Stages[r][inner[r].pc - 1] = <<"scraper", "process">>
    <3>1. "process" \in inner[r].scraper
      BY <1>3, <2>1, <2>4, <2>6 DEF ProgressOk, PassedOk
    <3>2. ScraperOk(r)'
      BY <1>3, <2>2, <3>1 DEF ProgressOk, ScraperOk
    <3> QED
      BY <1>1, <1>3, <2>1, <2>2, <3>2, PassesOn
  <2> QED
    BY <2>1, <2>3, <2>5, <2>6, SMTT(30) DEF ScraperStep
<1>22. CASE Watch(r)
  <2>1. inner[r].phase = "running" /\ proc' = proc
    BY <1>22, <1>5 DEF Watch
  <2>2. CASE Advance(r)
    BY <1>22, <1>7, <2>2 DEF Watch
  <2>3. CASE ToCleanup(r, "error")
    BY <1>6, <2>1, <2>3
  <2>4. CASE proc[r]["benchmark"] = "zero" /\ ToCleanup(r, "ok")
    <3>1. inner' = [inner EXCEPT ![r].phase = "cleanup", ![r].pc = 1, ![r].code = "ok"]
      BY <2>4 DEF ToCleanup
    <3>2. /\ inner'[r].phase = "cleanup" /\ inner'[r].pc = 1 /\ inner'[r].code = "ok"
          /\ inner'[r].scraper = inner[r].scraper /\ inner'[r].compacted = inner[r].compacted
      BY <1>3, <3>1 DEF InnerRecord
    <3>3. DOMAIN proc[r] = Owned[r] /\ (Has(r, "tachometer") => inner[r].scraper = Parts)
      BY <1>22, <1>3, WatchSees DEF Watch
    <3> QED
      BY <1>1, <1>3, <2>1, <2>4, <3>2, <3>3 DEF ProgressOk, ScraperOk, CleanupOk, EndedOk, SucceededOk
  <2> QED
    BY <1>22, <2>2, <2>3, <2>4 DEF Watch
<1>23. CASE CheckServices(r)
  <2>1. inner[r].phase = "running" /\ proc' = proc
    BY <1>23, <1>5 DEF CheckServices
  <2>2. CASE ToCleanup(r, "error")
    BY <1>6, <2>1, <2>2
  <2>3. CASE inner' = [inner EXCEPT ![r].pc = @ - 1]
    <3>1. /\ inner'[r].phase = "running" /\ inner'[r].pc = inner[r].pc - 1 /\ inner'[r].code = inner[r].code
          /\ inner'[r].compacted = inner[r].compacted /\ inner'[r].scraper = inner[r].scraper
      BY <1>3, <2>1, <2>3 DEF InnerRecord
    <3>2. \A n : Passed(r, n)' => Passed(r, n)
      BY <1>3, <3>1, StagesInOrder DEF Passed, InnerRecord
    <3> QED
      BY <1>1, <1>3, <2>1, <3>1, <3>2 DEF ProgressOk, PassedOk, ScraperOk, CleanupOk, EndedOk, SucceededOk
  <2> QED
    BY <1>23, <2>2, <2>3 DEF CheckServices, Breaks
<1>24. CASE Stop(r)
  <2> DEFINE which == IF What(r) = "rest" THEN DOMAIN proc[r]
                      ELSE IF "process" \in inner[r].scraper THEN {"tachometer"} ELSE {}
  <2>1. /\ inner[r].phase = "cleanup"
        /\ \/ inner[r].pc = 1 /\ What(r) = "tachometer"
           \/ inner[r].pc = 3 /\ What(r) = "rest"
    BY <1>24, AtCleanup DEF Stop
  <2>2. /\ inner'[r].phase = "cleanup" /\ inner'[r].pc = inner[r].pc + 1 /\ inner'[r].code = inner[r].code
        /\ inner'[r].compacted = inner[r].compacted /\ inner'[r].scraper = inner[r].scraper
    BY <1>24, <1>3, <2>1 DEF Stop, Advance, InnerRecord
  <2>3. /\ DOMAIN proc'[r] = DOMAIN proc[r]
        /\ \A p \in DOMAIN proc[r] :
             proc'[r][p] = IF p \in which /\ proc[r][p] = "live" THEN "stopped" ELSE proc[r][p]
    BY <1>24, <1>4 DEF Stop
  <2> HIDE DEF which
  <2>4. ScraperOk(r)' /\ SucceededOk(r)'
    <3>1. ScraperOk(r)'
      BY <1>3, <2>2, <2>3 DEF ProgressOk, ScraperOk
    <3>2. SucceededOk(r)'
      BY <1>3, <2>1, <2>2, <2>3, BenchmarkOwned DEF ProgressOk, SucceededOk
    <3> QED
      BY <3>1, <3>2
  <2>5. CASE inner[r].pc = 1 /\ What(r) = "tachometer"
    <3>1. ScraperGone(r)'
      BY <1>3, <2>2, <2>3, <2>5 DEF ScraperGone, ProgressOk, ScraperOk, which
    <3>2. CleanupOk(r)'
      BY <1>3, <2>1, <2>2, <2>5, <3>1 DEF ProgressOk, CleanupOk
    <3> QED
      BY <1>1, <1>3, <2>1, <2>2, <2>4, <3>2 DEF ProgressOk, EndedOk
  <2>6. CASE inner[r].pc = 3 /\ What(r) = "rest"
    <3>1. NoneLive(r)'
      BY <2>3, <2>6 DEF NoneLive, which
    <3>2. ScraperGone(r)' /\ Compacted(r)'
      BY <1>3, <2>1, <2>2, <2>3, <2>6, <3>1 DEF ProgressOk, ScraperOk, ScraperGone, CleanupOk, Compacted, NoneLive
    <3>3. CleanupOk(r)'
      BY <1>3, <2>1, <2>2, <2>6, <3>1, <3>2 DEF ProgressOk, CleanupOk
    <3> QED
      BY <1>1, <1>3, <2>1, <2>2, <2>4, <3>3 DEF ProgressOk, EndedOk
  <2> QED
    BY <2>1, <2>5, <2>6
<1>25. CASE Compact(r)
  <2>1. inner[r].phase = "cleanup" /\ inner[r].pc = 2
    BY <1>25, AtCleanup DEF Compact
  <2>2. /\ inner'[r].phase = "cleanup" /\ inner'[r].pc = 3 /\ inner'[r].code = inner[r].code
        /\ inner'[r].compacted # "none" <=> "local_dir" \in inner[r].scraper
        /\ inner'[r].scraper = inner[r].scraper /\ proc' = proc
    <3>1. PICK result : /\ inner' = [inner EXCEPT ![r].compacted = result, ![r].pc = @ + 1]
                        /\ result # "none" <=> "local_dir" \in inner[r].scraper
      BY <1>25 DEF Compact
    <3> QED
      BY <1>25, <1>3, <2>1, <3>1 DEF Compact, InnerRecord
  <2>3. ScraperGone(r)' /\ Compacted(r)'
    BY <1>3, <2>1, <2>2 DEF ProgressOk, CleanupOk, ScraperGone, Compacted
  <2>4. ScraperOk(r)' /\ CleanupOk(r)' /\ SucceededOk(r)'
    BY <1>3, <2>1, <2>2, <2>3 DEF ProgressOk, ScraperOk, CleanupOk, SucceededOk
  <2> QED
    BY <1>1, <1>3, <2>1, <2>2, <2>4 DEF ProgressOk, EndedOk
<1>26. CASE Normalize(r)
  <2>1. inner[r].phase = "cleanup" /\ inner[r].pc = 4
    BY <1>26, AtCleanup DEF Normalize
  <2>2. /\ inner'[r].phase = "ended" /\ inner'[r].code = inner[r].code
        /\ Normalized(r)' /\ inner'[r].compacted = inner[r].compacted
        /\ inner'[r].scraper = inner[r].scraper /\ proc' = proc
    <3>1. PICK result : /\ inner' = [inner EXCEPT ![r].normalized = result, ![r].phase = "ended"]
                        /\ result # "none" <=> Has(r, "ruter")
      BY <1>26 DEF Normalize
    <3> QED
      BY <1>26, <1>3, <3>1 DEF Normalize, Normalized, Has, InnerRecord
  <2>3. NoneLive(r)' /\ Compacted(r)'
    BY <1>3, <2>1, <2>2 DEF ProgressOk, CleanupOk, NoneLive, Compacted
  <2>4. ScraperOk(r)' /\ EndedOk(r)' /\ SucceededOk(r)'
    BY <1>3, <2>1, <2>2, <2>3 DEF ProgressOk, ScraperOk, EndedOk, SucceededOk
  <2> QED
    BY <1>1, <1>3, <2>1, <2>2, <2>4 DEF ProgressOk, CleanupOk
<1>27. CASE Nudge(r)
  <2>1. proc' = proc
    BY <1>27 DEF Nudge
  <2>2. CASE inner[r].phase = "running" /\ ToCleanup(r, "signal")
    BY <1>6, <2>1, <2>2
  <2>3. CASE /\ inner[r].phase = "cleanup"
             /\ inner' = [inner EXCEPT ![r].phase = "ended", ![r].code = "raised"]
    <3>1. /\ inner'[r].phase = "ended" /\ inner'[r].code = "raised" /\ inner'[r].scraper = inner[r].scraper
      BY <1>3, <2>3 DEF InnerRecord
    <3> QED
      BY <1>1, <1>3, <2>1, <2>3, <3>1 DEF ProgressOk, ScraperOk, CleanupOk, EndedOk, SucceededOk
  <2> QED
    BY <1>27, <2>2, <2>3 DEF Nudge
<1>28. CASE Crash(r) \/ BenchmarkEnds(r)
  <2>1. PICK p \in DOMAIN proc[r], how \in {"failed", "zero"} : Exits(r, p, how)
    BY <1>28 DEF Crash, BenchmarkEnds, Exits
  <2>2. /\ inner' = inner /\ proc[r][p] = "live" /\ DOMAIN proc'[r] = DOMAIN proc[r]
        /\ proc'[r][p] # "live" /\ \A x \in DOMAIN proc[r] : x # p => proc'[r][x] = proc[r][x]
    BY <1>4, <2>1 DEF Exits
  <2>3. NoneLive(r) => FALSE
    BY <2>1, <2>2 DEF NoneLive
  <2>4. ScraperGone(r) => ScraperGone(r)'
    BY <1>3, <2>1, <2>2 DEF ProgressOk, ScraperOk, ScraperGone
  <2>5. Compacted(r)' <=> Compacted(r)
    BY <2>2 DEF Compacted
  <2>6. CleanupOk(r)'
    BY <1>3, <2>2, <2>3, <2>4, <2>5 DEF ProgressOk, CleanupOk
  <2>7. EndedOk(r)'
    BY <1>3, <2>2, <2>3 DEF ProgressOk, EndedOk
  <2>8. SucceededOk(r)'
    BY <1>3, <2>1, <2>2, BenchmarkOwned DEF ProgressOk, SucceededOk
  <2>9. ScraperOk(r)' /\ (inner[r].phase = "running" => PassedOk(r)')
    BY <1>3, <2>2 DEF ProgressOk, ScraperOk, PassedOk, Passed
  <2> QED
    BY <1>1, <1>3, <2>2, <2>6, <2>7, <2>8, <2>9 DEF ProgressOk
<1>29. CASE TakeOut(r) \/ PutIn(r)
  BY <1>29, <1>5, <1>6, <1>7 DEF TakeOut, PutIn, Pip, Breaks
<1>30. CASE Import(r)
  BY <1>30, <1>5, <1>6, <1>7 DEF Import, Breaks
<1> QED
  BY <1>8, <1>9, <1>10, <1>11, <1>12, <1>13, <1>14, <1>15, <1>16, <1>17, <1>18, <1>19, <1>20, <1>21, <1>22, <1>23, <1>24, <1>25, <1>26, <1>27, <1>28, <1>29, <1>30 DEF InnerAction, InnerStep

LEMMA ProgressStep ==
  ASSUME Shape, Shape', HostInv, ProgressInv, [Next]_vars
  PROVE  ProgressInv'
<1>1. CASE Move \/ UNCHANGED vars
  BY <1>1 DEF ProgressInv, ProgressOk, PassedOk, Passed, ScraperOk, CleanupOk, EndedOk, SucceededOk,
              ScraperGone, NoneLive, Compacted, Normalized, Move, vars
<1> QED
  BY <1>1, HostProgress, InnerProgress DEF Next, HostAction, InnerAction

-----------------------------------------------------------------------------
(* The caches and their locks.                                             *)

Position(r) == Stages[r][inner[r].pc]

\* OneAction: the kind of the current step decides which action is taken.
LEMMA OneAction ==
  ASSUME Shape, NEW r \in Runs, InnerAction(r), inner[r].phase = "running", inner[r].pc \in 1..Len(Stages[r])
  PROVE  \/ inner' = inner
         \/ inner'[r].phase # "running"
         \/ /\ Position(r)[1] = "revision" => AskRevision(r)
            /\ Position(r)[1] = "lock" => Lock(r)
            /\ Position(r)[1] = "check" => Check(r)
            /\ Position(r)[1] = "install" => Install(r)
            /\ Position(r)[1] = "mark" => Mark(r)
            /\ Position(r)[1] = "out" => TakeOut(r)
            /\ Position(r)[1] = "in" => PutIn(r)
<1>1. CASE Crash(r) \/ BenchmarkEnds(r)
  BY <1>1 DEF Crash, BenchmarkEnds, Exits
<1>2. CASE Nudge(r)
  <2>1. inner \in [Runs -> InnerRecord]
    BY DEF Shape
  <2>2. \/ inner' = [inner EXCEPT ![r].phase = "cleanup", ![r].pc = 1, ![r].code = "signal"]
        \/ inner' = [inner EXCEPT ![r].phase = "ended", ![r].code = "raised"]
    BY <1>2 DEF Nudge, ToCleanup
  <2> QED
    BY <2>1, <2>2 DEF InnerRecord
<1>3. CASE InnerStep(r)
  <2>1. \A k : Doing(r, k) => k = Position(r)[1]
    BY DEF Doing, Program, Position
  <2> QED
    BY <1>3, <2>1 DEF InnerStep, Run, Wipe, Copy, Release, Use, Launch, Ready, NoteScraper, Started, Watch,
                      CheckServices, Stop, Compact, Normalize, AskRevision, Lock, Check, Install, Mark,
                      TakeOut, PutIn, Pip, Import
<1> QED
  BY <1>1, <1>2, <1>3 DEF InnerAction

CacheOf(r) == Position(r)[2]

\* Moves: how a running runner gets from one step to the next.
LEMMA Moves ==
  ASSUME Shape, NEW r \in Runs, InnerAction(r), inner'[r].phase = "running"
  PROVE  /\ inner[r].phase = "running"
         /\ \/ inner' = inner
            \/ /\ inner[r].pc \in 1..Len(Stages[r]) /\ inner'[r].pc = inner[r].pc + 1
               /\ Position(r)[1] # "revision" => inner'[r].rev = inner[r].rev
               /\ Position(r)[1] = "revision" => inner'[r].rev \in Revisions
               /\ Position(r)[1] = "check" => ~disk[Dir(r, CacheOf(r))].complete
            \/ /\ inner[r].pc \in 1..Len(Stages[r]) /\ Position(r)[1] = "check"
               /\ inner'[r].pc = inner[r].pc + 5 /\ inner'[r].rev = inner[r].rev
               /\ disk[Dir(r, CacheOf(r))].complete
            \/ /\ inner[r].pc \in 1..Len(Stages[r]) /\ Position(r)[1] = "alive"
               /\ inner'[r].pc = inner[r].pc - 1 /\ inner'[r].rev = inner[r].rev
<1>1. inner \in [Runs -> InnerRecord] /\ inner[r] \in InnerRecord /\ head \in Revisions
  BY DEF Shape
<1>2. InnerEffect(r)
  BY InnerEffects
<1>3. \A k : k \notin {"stop", "compact", "normalize"} /\ Doing(r, k) =>
         /\ inner[r].phase = "running" /\ inner[r].pc \in 1..Len(Stages[r])
         /\ Position(r)[1] = k /\ What(r) = CacheOf(r)
  BY AtStage DEF Position, CacheOf
<1>4. ASSUME NEW code, ToCleanup(r, code) PROVE FALSE
  <2>1. inner' = [inner EXCEPT ![r].phase = "cleanup", ![r].pc = 1, ![r].code = code]
    BY <1>4 DEF ToCleanup
  <2> QED
    BY <1>1, <2>1 DEF InnerRecord
<1>5. CASE inner' = inner
  BY <1>5
<1>6. CASE AskRevision(r)
  <2>1. inner'[r].rev = head /\ inner'[r].pc = inner[r].pc + 1
    BY <1>1, <1>6 DEF AskRevision, InnerRecord
  <2> QED
    BY <1>1, <1>3, <1>6, <2>1 DEF AskRevision
<1>7. CASE Check(r)
  <2>1. inner[r].phase = "running" /\ inner[r].pc \in 1..Len(Stages[r]) /\ Position(r)[1] = "check" /\ What(r) = CacheOf(r)
    BY <1>3, <1>7 DEF Check
  <2>2. /\ inner'[r].pc = inner[r].pc + IF disk[Dir(r, CacheOf(r))].complete THEN 5 ELSE 1
        /\ inner'[r].rev = inner[r].rev
    BY <1>1, <1>7, <2>1 DEF Check, InnerRecord
  <2> QED
    BY <2>1, <2>2
<1>8. CASE NoteScraper(r)
  <2>1. inner'[r].rev = inner[r].rev /\ inner'[r].pc = inner[r].pc + 1
    BY <1>1, <1>8 DEF NoteScraper, InnerRecord
  <2>2. inner[r].phase = "running" /\ inner[r].pc \in 1..Len(Stages[r]) /\ Position(r)[1] = "scraper"
    BY <1>3, <1>8 DEF NoteScraper
  <2> QED
    BY <2>1, <2>2
<1>9. CASE CheckServices(r)
  <2>1. inner'[r].rev = inner[r].rev /\ inner'[r].pc = inner[r].pc - 1
    BY <1>1, <1>4, <1>9 DEF CheckServices, Breaks, ToCleanup, InnerRecord
  <2>2. inner[r].phase = "running" /\ inner[r].pc \in 1..Len(Stages[r]) /\ Position(r)[1] = "alive"
    BY <1>3, <1>9 DEF CheckServices
  <2> QED
    BY <2>1, <2>2
<1>10. CASE Compact(r) \/ Normalize(r) \/ Nudge(r)
  <2>2. CASE Compact(r)
    <3>1. inner[r].phase = "cleanup"
      BY <2>2, AtCleanup DEF Compact
    <3>2. PICK result : inner' = [inner EXCEPT ![r].compacted = result, ![r].pc = @ + 1]
      BY <2>2 DEF Compact
    <3> QED
      BY <1>1, <3>1, <3>2 DEF InnerRecord
  <2>3. CASE Normalize(r)
    <3>1. PICK result : inner' = [inner EXCEPT ![r].normalized = result, ![r].phase = "ended"]
      BY <2>3 DEF Normalize
    <3> QED
      BY <1>1, <3>1 DEF InnerRecord
  <2>4. CASE Nudge(r)
    <3>1. inner'[r].phase # "running"
      BY <1>1, <2>4 DEF Nudge, ToCleanup, InnerRecord
    <3> QED
      BY <3>1
  <2> QED
    BY <1>10, <2>2, <2>3, <2>4
<1>11. CASE Advance(r)
  <2>1. inner'[r].pc = inner[r].pc + 1 /\ inner'[r].rev = inner[r].rev /\ inner[r].phase = "running" /\ inner' # inner
    BY <1>1, <1>11 DEF Advance, InnerRecord
  <2>2. \E k : k \notin {"stop", "compact", "normalize"} /\ Doing(r, k)
    <3>1. \E k : Doing(r, k)
      <4>1. CASE InnerStep(r)
        BY <4>1 DEF InnerStep, Run, AskRevision, Lock, Check, Wipe, Copy, Install, Mark, Release, Use, Launch,
                    Ready, NoteScraper, Started, Watch, CheckServices, Stop, Compact, Normalize, TakeOut, PutIn,
                    Pip, Import
      <4>2. CASE Nudge(r)
        BY <1>4, <2>1, <4>2 DEF Nudge
      <4>3. CASE Crash(r) \/ BenchmarkEnds(r)
        BY <2>1, <4>3 DEF Crash, BenchmarkEnds, Exits
      <4> QED
        BY <4>1, <4>2, <4>3 DEF InnerAction
    <3>2. \A k \in {"stop", "compact", "normalize"} : ~Doing(r, k)
      BY <2>1, AtCleanup
    <3> QED
      BY <3>1, <3>2
  <2>3. inner[r].pc \in 1..Len(Stages[r])
    BY <1>3, <2>2
  <2>4. /\ Position(r)[1] = "revision" => AskRevision(r)
        /\ Position(r)[1] = "check" => Check(r)
    BY <2>1, <2>3, OneAction
  <2> QED
    BY <1>6, <1>7, <2>1, <2>3, <2>4
<1> QED
  BY <1>2, <1>4, <1>5, <1>6, <1>7, <1>8, <1>9, <1>10, <1>11 DEF InnerEffect

\* RevisionStep: the revision is asked for once, and before any of the caches.
LEMMA RevisionStep ==
  ASSUME Shape, HostInv, RevisionInv, [Next]_vars
  PROVE  RevisionInv'
<1> DEFINE Ok(r) == inner[r].phase = "running" => (inner[r].rev # None <=> inner[r].pc > RevisionAt(r))
<1>1. \A q \in Runs : inner'[q] = inner[q] => Ok(q)'
  BY DEF RevisionInv
<1>2. CASE Move \/ UNCHANGED vars
  BY <1>1, <1>2 DEF RevisionInv, Move, vars
<1>3. ASSUME NEW r \in Runs, HostAction(r), NEW q \in Runs PROVE Ok(q)'
  <2>1. HostFootprint(r) /\ inner[q] \in InnerRecord
    BY <1>3, HostLeaves DEF Shape
  <2>2. CASE Running(q) /\ inner'[q] = [inner[q] EXCEPT !.phase = "dead"]
    BY <2>1, <2>2 DEF InnerRecord
  <2>3. CASE q = r /\ host[r].at = "exec" /\ inner'[q] = [inner[q] EXCEPT !.phase = "running"]
    <3>1. inner[q] = Absent
      BY <2>3 DEF HostInv, HostOk, Before
    <3> QED
      BY <2>3, <3>1 DEF Absent, RevisionAt
  <2> QED
    BY <1>1, <2>1, <2>2, <2>3 DEF HostFootprint
<1>4. ASSUME NEW r \in Runs, InnerAction(r), NEW q \in Runs PROVE Ok(q)'
  <2>1. CASE q # r
    BY <1>1, <1>4, <2>1, InnerLeaves DEF InnerFootprint
  <2>2. CASE q = r /\ inner'[r].phase = "running"
    <3>1. inner[r].phase = "running" /\ Ok(r) /\ RevisionAt(r) \in {2, 3} /\ None \notin Revisions
      BY <1>4, <2>2, Moves, RunAssumption DEF RevisionInv, RevisionAt
    <3>2. inner[r].pc \in Nat
      BY DEF Shape, InnerRecord
    <3>3. inner[r].pc \in 1..Len(Stages[r]) =>
            /\ Position(r)[1] = "revision" <=> inner[r].pc = RevisionAt(r)
            /\ Position(r)[1] = "check" => inner[r].pc > RevisionAt(r)
            /\ Position(r)[1] = "alive" => inner[r].pc - 1 > RevisionAt(r)
      BY StagesInOrder DEF Position, CacheKinds
    <3> QED
      BY <1>1, <1>4, <2>2, <3>1, <3>2, <3>3, Moves
  <2>3. CASE q = r /\ inner'[r].phase # "running"
    BY <2>3
  <2> QED
    BY <2>1, <2>2, <2>3
<1> QED
  BY <1>2, <1>3, <1>4 DEF RevisionInv, Next, HostAction, InnerAction

\* The steps that a lock covers.
Locked == {"check", "wipe", "copy", "install", "mark", "release"}
Changing == {"wipe", "copy", "install", "mark"}

\* InTheCaches: at a step of a cache, the directory and its lock are known.
LEMMA InTheCaches ==
  ASSUME Shape, HostInv, RevisionInv, NEW r \in Runs, NEW c, NEW K, K \subseteq CacheKinds, At(r, K, c)
  PROVE  /\ c \in CacheNames /\ Dir(r, c) \in Caches /\ LockOf(r, c) \in Caches
         /\ inner[r].rev \in Revisions /\ inner[r].rev # None
<1>1. /\ inner[r].phase = "running" /\ inner[r].pc \in 1..Len(Stages[r])
      /\ Stages[r][inner[r].pc][1] \in CacheKinds /\ Stages[r][inner[r].pc][2] = c
  BY StagesInOrder DEF At
<1>2. inner[r].pc > RevisionAt(r) /\ c \in CacheNames
  BY <1>1, StagesInOrder
<1>3. inner[r].rev \in Revisions /\ inner[r].rev # None
  BY <1>1, <1>2 DEF RevisionInv, Shape, InnerRecord
<1>4. host[r].seen \in Revisions
  BY <1>1 DEF HostInv, HostOk
<1>5. c = "sglang" \/ c = "dynamo"
  BY <1>2 DEF CacheNames
<1> QED
  BY <1>2, <1>3, <1>4, <1>5 DEF Dir, LockOf, Caches

\* OneHolder: two runs whose hosts and containers agree are not both at work on a cache.
LEMMA OneHolder ==
  ASSUME Shape, HostInv, RevisionInv, LockInv, Agreed, NEW q \in Runs, NEW r \in Runs, NEW c, NEW d,
         At(q, Locked, c), At(r, Locked, d), Dir(q, c) = Dir(r, d)
  PROVE  q = r /\ c = d
<1>0. Locked \subseteq CacheKinds
  BY DEF Locked, CacheKinds
<1>1. /\ c \in CacheNames /\ d \in CacheNames
      /\ inner[q].rev # None /\ inner[r].rev # None
  BY <1>0, InTheCaches
<1>2. inner[q].rev = host[q].seen /\ inner[r].rev = host[r].seen
  BY <1>1 DEF Agreed
<1>3. c = d /\ LockOf(q, c) = LockOf(r, d)
  BY <1>1, <1>2 DEF Dir, LockOf, CacheNames
<1>4. flock[LockOf(q, c)] = q /\ flock[LockOf(r, d)] = r
  BY <1>1 DEF LockInv, Locked
<1> QED
  BY <1>3, <1>4

\* WhereFrom: how a running runner has come to a step that the lock of a cache covers.
LEMMA WhereFrom ==
  ASSUME Shape, NEW r \in Runs, InnerAction(r), NEW c, NEW K, K \subseteq Locked, At(r, K, c)'
  PROVE  /\ inner[r].phase = "running"
         /\ \/ inner' = inner
            \/ /\ inner'[r].rev = inner[r].rev
               /\ \/ At(r, {"lock"}, c) /\ Lock(r) /\ Stages[r][inner'[r].pc][1] = "check"
                  \/ /\ At(r, {"check"}, c) /\ Stages[r][inner'[r].pc][1] \in {"wipe", "release"}
                     /\ Stages[r][inner'[r].pc][1] = "wipe" => ~disk[Dir(r, c)].complete
                  \/ At(r, {"wipe"}, c) /\ Stages[r][inner'[r].pc][1] = "copy"
                  \/ At(r, {"copy"}, c) /\ Stages[r][inner'[r].pc][1] = "install"
                  \/ At(r, {"install"}, c) /\ Install(r) /\ Stages[r][inner'[r].pc][1] = "mark"
                  \/ At(r, {"mark"}, c) /\ Stages[r][inner'[r].pc][1] = "release"
<1> DEFINE s == Stages[r]
           n == inner[r].pc
           m == inner'[r].pc
<1>1. /\ inner'[r].phase = "running" /\ m \in 1..Len(s) /\ s[m][1] \in Locked /\ s[m][2] = c
  BY StagesInOrder DEF At
<1>2. inner[r].phase = "running" /\ n \in Nat /\ DOMAIN s = 1..Len(s) /\ Len(s) \in Nat /\ WellFormed(s)
  BY <1>1, Moves, StagesInOrder DEF Shape, InnerRecord
<1>3. CASE inner' = inner
  BY <1>2, <1>3
<1>4. CASE /\ n \in 1..Len(s) /\ m = n + 1
           /\ Position(r)[1] # "revision" => inner'[r].rev = inner[r].rev
           /\ Position(r)[1] = "check" => ~disk[Dir(r, CacheOf(r))].complete
  <2>1. m > 1 /\ m - 1 = n /\ inner' # inner
    BY <1>2, <1>4
  <2> HIDE DEF m
  <2>2. \/ s[n] = <<"lock", c>> /\ s[m][1] = "check"
        \/ s[n] = <<"check", c>> /\ s[m][1] = "wipe"
        \/ s[n] = <<"wipe", c>> /\ s[m][1] = "copy"
        \/ s[n] = <<"copy", c>> /\ s[m][1] = "install"
        \/ s[n] = <<"install", c>> /\ s[m][1] = "mark"
        \/ s[n] = <<"mark", c>> /\ s[m][1] = "release"
    BY <1>1, <1>2, <2>1 DEF WellFormed, WellAt, After, Locked
  <2>3. /\ Position(r) = s[n] /\ (Position(r)[1] = "lock" => Lock(r)) /\ (Position(r)[1] = "install" => Install(r))
    BY <1>1, <1>2, <1>4, <2>1, OneAction DEF Position
  <2>4. inner'[r].rev = inner[r].rev
    <3>1. s[n][1] # "revision"
      BY <2>2
    <3> QED
      BY <1>4, <2>3, <3>1
  <2>5. \A k : s[n] = <<k, c>> => At(r, {k}, c)
    BY <1>2, <1>4 DEF At
  <2>6. CASE s[n] = <<"check", c>> /\ s[m][1] = "wipe"
    <3>1. CacheOf(r) = c /\ ~disk[Dir(r, c)].complete
      BY <1>4, <2>3, <2>6 DEF CacheOf
    <3> QED
      BY <1>2, <2>4, <2>5, <2>6, <3>1 DEF m
  <2>7. CASE s[n] = <<"lock", c>> /\ s[m][1] = "check"
    BY <1>2, <2>3, <2>4, <2>5, <2>7 DEF m
  <2>8. CASE s[n] = <<"install", c>> /\ s[m][1] = "mark"
    BY <1>2, <2>3, <2>4, <2>5, <2>8 DEF m
  <2>9. CASE \/ s[n] = <<"wipe", c>> /\ s[m][1] = "copy"
             \/ s[n] = <<"copy", c>> /\ s[m][1] = "install"
             \/ s[n] = <<"mark", c>> /\ s[m][1] = "release"
    BY <1>2, <2>4, <2>5, <2>9 DEF m
  <2> QED
    BY <2>2, <2>6, <2>7, <2>8, <2>9, ZenonT(60)
<1>5. CASE n \in 1..Len(s) /\ Position(r)[1] = "check" /\ m = n + 5 /\ inner'[r].rev = inner[r].rev
  <2>1. s[n][1] = "check" /\ s[m] = <<"release", s[n][2]>>
    BY <1>5, CheckSkips DEF Position
  <2>2. At(r, {"check"}, c)
    BY <1>1, <1>2, <1>5, <2>1 DEF At
  <2> QED
    BY <1>2, <1>5, <2>1, <2>2
<1>6. CASE n \in 1..Len(s) /\ Position(r)[1] = "alive" /\ m = n - 1
  <2>1. s[m][1] = "watch"
    BY <1>6, StagesInOrder DEF Position
  <2> QED
    BY <1>1, <2>1 DEF Locked
<1> QED
  BY <1>1, <1>3, <1>4, <1>5, <1>6, Moves

\* LockStep: while a runner works on a cache, the lock stays its own.
LEMMA LockStep ==
  ASSUME Shape, Shape', HostInv, RevisionInv, RevisionInv', HostInv', LockInv, [Next]_vars
  PROVE  LockInv'
<1>0. Locked \subseteq CacheKinds /\ None \notin Runs
  BY RunAssumption DEF Locked, CacheKinds
<1>1. CASE Move \/ UNCHANGED vars
  BY <1>1 DEF LockInv, At, LockOf, Move, vars
<1> SUFFICES ASSUME NEW r \in Runs, HostAction(r) \/ InnerAction(r),
                    NEW q \in Runs, NEW c \in CacheNames, At(q, Locked, c)'
             PROVE  (flock[LockOf(q, c)])' = q
  BY <1>1 DEF LockInv, Next, HostAction, InnerAction, Locked
<1>2. (LockOf(q, c))' \in Caches
  <2>1. /\ inner'[q].phase = "running" /\ inner'[q].pc \in 1..Len(Stages[q])
        /\ Stages[q][inner'[q].pc][1] \in CacheKinds /\ Stages[q][inner'[q].pc][2] = c
    BY <1>0, StagesInOrder DEF At
  <2>2. inner'[q].pc > RevisionAt(q)
    BY <2>1, StagesInOrder
  <2>3. inner'[q].rev \in Revisions
    BY <2>1, <2>2 DEF RevisionInv, Shape, InnerRecord
  <2> QED
    BY <2>3 DEF LockOf, Caches, CacheNames
<1>3. ASSUME inner'[q] = inner[q] PROVE flock[LockOf(q, c)] = q /\ (LockOf(q, c))' = LockOf(q, c) /\ At(q, Locked, c)
  <2>1. At(q, Locked, c) /\ (LockOf(q, c))' = LockOf(q, c)
    BY <1>3 DEF At, LockOf
  <2> QED
    BY <2>1 DEF LockInv, Locked
<1>4. CASE HostAction(r)
  <2>1. HostFootprint(r) /\ inner[q] \in InnerRecord
    BY <1>4, HostLeaves DEF Shape
  <2>2. inner'[q].phase = "running" /\ inner'[q].pc \in 1..Len(Stages[q]) /\ Stages[q][inner'[q].pc][1] \in CacheKinds
    BY <1>0, StagesInOrder DEF At
  <2>3. inner'[q] = inner[q]
    <3>1. CASE Running(q) /\ inner'[q] = [inner[q] EXCEPT !.phase = "dead"]
      BY <2>1, <2>2, <3>1 DEF InnerRecord
    <3>2. CASE q = r /\ host[r].at = "exec" /\ inner'[q] = [inner[q] EXCEPT !.phase = "running"]
      <4>1. inner'[q].pc = 1
        BY <3>2 DEF HostInv, HostOk, Before, Absent
      <4>2. 1 > RevisionAt(q)
        BY <2>2, <4>1, StagesInOrder
      <4> QED
        BY <4>2 DEF RevisionAt
    <3> QED
      BY <2>1, <3>1, <3>2 DEF HostFootprint
  <2>4. flock[LockOf(q, c)] = q /\ (LockOf(q, c))' = LockOf(q, c)
    BY <1>3, <2>3
  <2> QED
    BY <1>2, <2>1, <2>2, <2>4 DEF HostFootprint
<1>5. CASE InnerAction(r) /\ q # r
  <2>1. inner'[q] = inner[q] /\ InnerEffect(r)
    BY <1>5, InnerLeaves, InnerEffects DEF InnerFootprint
  <2> DEFINE x == LockOf(q, c)
  <2>2. flock[x] = q /\ (LockOf(q, c))' = x /\ x \in Caches
    BY <1>2, <1>3, <2>1
  <2> HIDE DEF x
  <2>3. flock \in [Caches -> Runs \cup {None}]
    BY DEF Shape
  <2>4. CASE Lock(r)
    <3>1. flock[LockOf(r, What(r))] = None /\ flock' = [flock EXCEPT ![LockOf(r, What(r))] = r]
      BY <2>4 DEF Lock, Free
    <3> QED
      BY <1>0, <2>2, <2>3, <3>1
  <2>5. CASE Release(r)
    <3>1. flock' = [flock EXCEPT ![LockOf(r, What(r))] = None] /\ Doing(r, "release")
      BY <2>5 DEF Release
    <3>2. At(r, Locked, What(r))
      BY <3>1, AtStage, StagesInOrder DEF At, Locked
    <3>3. flock[LockOf(r, What(r))] = r
      BY <1>0, <3>2, InTheCaches DEF LockInv, Locked
    <3> QED
      BY <1>5, <2>2, <2>3, <3>1, <3>3
  <2>6. ASSUME NEW code, ToCleanup(r, code) PROVE flock'[x] = q
    BY <1>5, <2>2, <2>6 DEF ToCleanup
  <2>7. flock'[x] = q
    BY <2>1, <2>2, <2>4, <2>5, <2>6 DEF InnerEffect
  <2> QED
    BY <2>2, <2>7
<1>6. CASE InnerAction(r) /\ q = r
  <2>1. InnerEffect(r) /\ inner \in [Runs -> InnerRecord]
    BY <1>6, InnerEffects DEF Shape
  <2>2. ASSUME NEW code, ToCleanup(r, code) PROVE FALSE
    <3>1. inner'[r].phase = "cleanup"
      BY <2>1, <2>2 DEF ToCleanup, InnerRecord
    <3> QED
      BY <1>6, <3>1 DEF At
  <2>3. flock' = flock \/ Lock(r) \/ Release(r)
    BY <2>1, <2>2 DEF InnerEffect
  <2>4. CASE inner' = inner
    <3>1. ~Lock(r) /\ ~Release(r)
      BY <2>1, <2>4 DEF Lock, Release, Advance, InnerRecord
    <3> QED
      BY <1>3, <1>6, <2>3, <2>4, <3>1
  <2>5. CASE inner'[r].rev = inner[r].rev /\ At(r, {"lock"}, c) /\ Lock(r)
    <3>1. What(r) = c
      BY <2>5, AtStage DEF Lock, At
    <3>2. flock' = [flock EXCEPT ![LockOf(r, c)] = r] /\ (LockOf(r, c))' = LockOf(r, c)
      BY <2>5, <3>1 DEF Lock, LockOf
    <3> QED
      BY <1>2, <1>6, <3>2 DEF Shape
  <2>6. CASE inner'[r].rev = inner[r].rev /\ At(r, {"check", "wipe", "copy", "install", "mark"}, c)
    <3>1. ~Lock(r) /\ ~Release(r)
      BY <2>6, AtStage DEF Lock, Release, At
    <3>2. At(r, Locked, c) /\ (LockOf(r, c))' = LockOf(r, c)
      BY <2>6 DEF At, Locked, LockOf
    <3>3. flock[LockOf(r, c)] = r
      BY <3>2 DEF LockInv, Locked
    <3> QED
      BY <1>6, <2>3, <3>1, <3>2, <3>3
  <2> QED
    BY <1>6, <2>4, <2>5, <2>6, WhereFrom, SMTT(30) DEF At
<1> QED
  BY <1>4, <1>5, <1>6

\* AgreedBefore: two revisions that differ once differ for good.
LEMMA AgreedBefore ==
  ASSUME Shape, HostInv, RevisionInv, [Next]_vars, Agreed'
  PROVE  Agreed
<1> SUFFICES ASSUME NEW q \in Runs PROVE inner[q].rev \in {None, host[q].seen}
  BY DEF Agreed
<1>1. inner'[q].rev \in {None, host'[q].seen}
  BY DEF Agreed
<1>2. CASE Move \/ UNCHANGED vars
  BY <1>1, <1>2 DEF Move, vars
<1>3. ASSUME NEW r \in Runs, HostAction(r) PROVE inner[q].rev \in {None, host[q].seen}
  <2>1. HostFootprint(r) /\ inner[q] \in InnerRecord
    BY <1>3, HostLeaves DEF Shape
  <2>2. inner'[q].rev = inner[q].rev
    <3>1. CASE inner'[q] = [inner[q] EXCEPT !.phase = "dead"] \/ inner'[q] = [inner[q] EXCEPT !.phase = "running"]
      BY <2>1, <3>1 DEF InnerRecord
    <3> QED
      BY <2>1, <3>1 DEF HostFootprint
  <2>3. CASE host'[q].seen = host[q].seen
    BY <1>1, <2>2, <2>3
  <2>4. CASE host[q].at \in Before
    BY <2>4 DEF HostInv, HostOk, Absent
  <2>5. host'[q].seen = host[q].seen \/ (q = r /\ ReadRevision(r))
    <3>1. CASE q # r
      BY <2>1, <3>1 DEF HostFootprint
    <3>2. CASE q = r
      BY <1>3, <3>2 DEF HostAction, HostStep, Begin, Prepare, RemoveStale, NameMooncake, StartMooncake,
             RunContainer, StartMain, Exec, Wait, RemoveMooncake, RemoveMain, RemoveOwn, RestoreOwner,
             Signal, Kill, Fails, Goes, Shape, HostRecord
    <3> QED
      BY <3>1, <3>2
  <2> QED
    BY <2>3, <2>4, <2>5 DEF ReadRevision, Before
<1>4. ASSUME NEW r \in Runs, InnerAction(r) PROVE inner[q].rev \in {None, host[q].seen}
  <2>1. InnerFootprint(r) /\ InnerEffect(r) /\ inner \in [Runs -> InnerRecord] /\ inner[q] \in InnerRecord
    BY <1>4, InnerLeaves, InnerEffects DEF Shape
  <2>2. CASE q # r
    BY <1>1, <2>1, <2>2 DEF InnerFootprint
  <2>3. CASE q = r /\ ~AskRevision(r)
    <3>1. inner'[r].rev = inner[r].rev
      <4>1. CASE Compact(r)
        BY <2>1, <4>1 DEF Compact, InnerRecord
      <4>2. CASE Normalize(r)
        BY <2>1, <4>2 DEF Normalize, InnerRecord
      <4>3. CASE CheckServices(r)
        BY <2>1, <4>3 DEF CheckServices, Breaks, ToCleanup, InnerRecord
      <4>4. CASE inner' = inner \/ Advance(r) \/ Check(r) \/ NoteScraper(r)
        BY <2>1, <4>4 DEF Advance, Check, NoteScraper, InnerRecord
      <4>5. CASE (\E code : ToCleanup(r, code)) \/ Nudge(r)
        BY <2>1, <4>5 DEF ToCleanup, Nudge, InnerRecord
      <4> QED
        BY <2>1, <2>3, <4>1, <4>2, <4>3, <4>4, <4>5 DEF InnerEffect
    <3> QED
      BY <1>1, <2>1, <2>3, <3>1 DEF InnerFootprint
  <2>4. CASE q = r /\ AskRevision(r)
    <3>1. /\ inner[r].phase = "running" /\ inner[r].pc \in 1..Len(Stages[r])
          /\ Stages[r][inner[r].pc][1] = "revision"
      BY <2>4, AtStage DEF AskRevision
    <3>2. ~(inner[r].pc > RevisionAt(r))
      BY <3>1, StagesInOrder
    <3> QED
      BY <2>4, <3>1, <3>2 DEF RevisionInv
  <2> QED
    BY <2>2, <2>3, <2>4
<1> QED
  BY <1>2, <1>3, <1>4 DEF Next, HostAction, InnerAction

\* Fills: what becomes of the directory of a cache, and who does it.
Fills(r, c) ==
    LET d == Dir(r, c)
    IN  /\ \A x \in Caches \ {d} : disk'[x] = disk[x]
        /\ \/ At(r, {"wipe"}, c) /\ ~disk'[d].complete
           \/ /\ At(r, {"copy"}, c)
              /\ disk'[d].complete = disk[d].complete /\ disk'[d].whole = disk[d].whole
           \/ At(r, {"install"}, c) /\ disk'[d].complete = disk[d].complete /\ disk'[d].whole
           \/ At(r, {"mark"}, c) /\ disk'[d].complete /\ disk'[d].whole = disk[d].whole

LEMMA DiskStep ==
  ASSUME Shape, HostInv, RevisionInv, NEW r \in Runs, InnerAction(r)
  PROVE  disk' = disk \/ \E c \in CacheNames : Fills(r, c)
<1> DEFINE c == What(r)
           d == Dir(r, c)
<1>1. \A k \in Changing : Doing(r, k) => At(r, {k}, c) /\ c \in CacheNames /\ d \in Caches
  <2>1. ASSUME NEW k \in Changing, Doing(r, k) PROVE At(r, {k}, c)
    BY <2>1, AtStage, StagesInOrder DEF At, Changing
  <2>2. \A k \in Changing : {k} \subseteq CacheKinds
    BY DEF Changing, CacheKinds
  <2> QED
    BY <2>1, <2>2, InTheCaches
<1>2. disk \in [Caches -> Entry] /\ (d \in Caches => disk[d] \in Entry)
  BY DEF Shape
<1> HIDE DEF c, d
<1>3. \A e : Fill(r, e) <=> disk' = [disk EXCEPT ![d] = e]
  BY DEF Fill, d, c
<1>4. CASE Wipe(r) /\ disk' # disk
  BY <1>1, <1>2, <1>3, <1>4 DEF Wipe, Fills, Changing, d
<1>5. CASE Copy(r) /\ disk' # disk
  <2>1. disk' = [disk EXCEPT ![d] = [disk[d] EXCEPT !.copied = TRUE]]
    BY <1>3, <1>5 DEF Copy, d, c
  <2>2. Doing(r, "copy")
    BY <1>5 DEF Copy
  <2> QED
    BY <1>1, <1>2, <2>1, <2>2 DEF Entry, Fills, Changing, d
<1>6. CASE Install(r) /\ disk' # disk
  <2>1. disk' = [disk EXCEPT ![d] = [disk[d] EXCEPT !.whole = TRUE]]
    BY <1>3, <1>6 DEF Install, d, c
  <2>2. Doing(r, "install")
    BY <1>6 DEF Install
  <2> QED
    BY <1>1, <1>2, <2>1, <2>2 DEF Entry, Fills, Changing, d
<1>7. CASE Mark(r) /\ disk' # disk
  <2>1. disk' = [disk EXCEPT ![d] = [disk[d] EXCEPT !.complete = TRUE]]
    BY <1>3, <1>7 DEF Mark, d, c
  <2>2. Doing(r, "mark")
    BY <1>7 DEF Mark
  <2> QED
    BY <1>1, <1>2, <2>1, <2>2 DEF Entry, Fills, Changing, d
<1> QED
  BY <1>4, <1>5, <1>6, <1>7, InnerEffects DEF InnerEffect

\* What is known of the caches, seen from one run.
CacheOk(r, c) ==
    /\ At(r, Changing, c) => ~disk[Dir(r, c)].complete
    /\ At(r, {"mark"}, c) => disk[Dir(r, c)].whole
    /\ inner[r].phase = "running" /\ (\E n : Passed(r, n) /\ Stages[r][n] = <<"mark", c>>) =>
         disk[Dir(r, c)].complete

WholeOk == \A x \in Caches : disk[x].complete => disk[x].whole

LEMMA CacheParts == CacheInv <=> WholeOk /\ \A r \in Runs, c \in CacheNames : CacheOk(r, c)
BY DEF CacheInv, CacheOk, WholeOk, Changing

\* HostCaches: a host runner may end a run, or start one that has no cache yet.
LEMMA HostCaches ==
  ASSUME Shape, HostInv, RevisionInv, CacheInv, NEW r \in Runs, HostAction(r)
  PROVE  CacheInv'
<1>1. HostFootprint(r)
  BY HostLeaves
<1>2. WholeOk'
  BY <1>1, CacheParts DEF HostFootprint, WholeOk
<1>3. ASSUME NEW q \in Runs, NEW c \in CacheNames PROVE CacheOk(q, c)'
  <2>1. inner[q] \in InnerRecord /\ CacheOk(q, c) /\ HostOk(q)
    BY CacheParts DEF Shape, HostInv
  <2>2. CASE inner'[q].phase # "running"
    BY <2>2 DEF CacheOk, At
  <2>3. CASE inner'[q].phase = "running" /\ inner'[q] = inner[q]
    <3>1. host[q].at \notin Before
      BY <2>1, <2>3 DEF HostOk, Absent
    <3>2. host'[q].seen = host[q].seen
      <4>1. CASE q # r
        BY <1>1, <4>1 DEF HostFootprint
      <4>2. CASE q = r
        BY <3>1, <4>2 DEF HostAction, HostStep, Begin, Prepare, RemoveStale, NameMooncake, StartMooncake,
               RunContainer, ReadRevision, StartMain, Exec, Wait, RemoveMooncake, RemoveMain, RemoveOwn,
               RestoreOwner, Signal, Kill, Fails, Goes, Shape, HostRecord, Before
      <4> QED
        BY <4>1, <4>2
    <3>3. (Dir(q, c))' = Dir(q, c) /\ disk' = disk
      BY <1>1, <3>2 DEF Dir, HostFootprint
    <3> QED
      BY <2>1, <2>3, <3>3 DEF CacheOk, At, Passed
  <2>4. CASE q = r /\ host[r].at = "exec" /\ inner'[q] = [inner[q] EXCEPT !.phase = "running"]
    <3>1. inner'[q].pc = 1
      BY <2>1, <2>4 DEF HostOk, Before, Absent
    <3>2. Stages[q][1][1] \notin CacheKinds /\ \A n \in DOMAIN Stages[q] : ~(n < 1)
      <4>1. ~(1 > RevisionAt(q)) /\ DOMAIN Stages[q] = 1..Len(Stages[q])
        BY StagesInOrder DEF RevisionAt
      <4>2. 1 \in DOMAIN Stages[q]
        BY StagesInOrder DEF Contains
      <4> QED
        BY <4>1, <4>2, StagesInOrder
    <3> QED
      BY <3>1, <3>2 DEF CacheOk, At, Passed, CacheKinds, Changing
  <2>5. CASE Running(q) /\ inner'[q] = [inner[q] EXCEPT !.phase = "dead"]
    <3>1. inner'[q].phase = "dead"
      BY <2>1, <2>5 DEF InnerRecord
    <3> QED
      BY <2>2, <3>1
  <2> QED
    BY <1>1, <2>2, <2>3, <2>4, <2>5 DEF HostFootprint
<1> QED
  BY <1>2, <1>3 DEF CacheInv, CacheOk, WholeOk, Changing

\* DiskMoves: a step that writes into a cache also moves its runner on.
LEMMA DiskMoves ==
  ASSUME Shape, NEW r \in Runs, InnerAction(r), inner' = inner
  PROVE  disk' = disk
<1>1. inner \in [Runs -> InnerRecord] /\ inner[r].pc \in Nat
  BY DEF Shape, InnerRecord
<1>2. ~Advance(r)
  BY <1>1 DEF Advance, InnerRecord
<1>3. ASSUME NEW code, inner[r].phase = "running" PROVE ~ToCleanup(r, code)
  <2> SUFFICES ASSUME ToCleanup(r, code) PROVE FALSE
    OBVIOUS
  <2>1. inner'[r].phase = "cleanup"
    BY <1>1 DEF ToCleanup, InnerRecord
  <2> QED
    BY <1>3, <2>1
<1>4. ~Breaks(r)
  BY <1>3 DEF Breaks
<1>5. CASE Wipe(r)
  BY <1>2, <1>4, <1>5 DEF Wipe
<1>6. CASE Copy(r)
  BY <1>2, <1>4, <1>6 DEF Copy
<1>7. CASE Install(r)
  BY <1>2, <1>4, <1>7 DEF Install
<1>8. CASE Mark(r)
  BY <1>2, <1>8 DEF Mark
<1> QED
  BY <1>5, <1>6, <1>7, <1>8, InnerEffects DEF InnerEffect

\* InnerCaches: a runner in a container completes a cache that is whole, and wipes none that
\* is complete.
LEMMA InnerCaches ==
  ASSUME Shape, Shape', HostInv, RevisionInv, LockInv, Agreed, CacheInv, NEW r \in Runs, InnerAction(r)
  PROVE  CacheInv'
<1>1. InnerFootprint(r) /\ (disk' = disk \/ \E c \in CacheNames : Fills(r, c))
  BY InnerLeaves, DiskStep
<1>2. WholeOk /\ \A q \in Runs, c \in CacheNames : CacheOk(q, c)
  BY CacheParts
<1>3. Changing \subseteq Locked /\ Locked \subseteq CacheKinds
  BY DEF Changing, Locked, CacheKinds
<1>4. \A q \in Runs, c \in CacheNames : (Dir(q, c))' = Dir(q, c)
  BY <1>1 DEF InnerFootprint, Dir
<1>5. \A c \in CacheNames : Fills(r, c) => At(r, Changing, c) /\ At(r, Locked, c) /\ ~disk[Dir(r, c)].complete
  BY <1>2 DEF Fills, At, Changing, Locked, CacheOk
<1>6. ASSUME NEW x \in Caches, disk[x].complete PROVE disk'[x].complete
  BY <1>1, <1>5, <1>6 DEF Fills
<1>7. WholeOk'
  <2> SUFFICES ASSUME NEW x \in Caches, disk'[x].complete PROVE disk'[x].whole
    BY DEF WholeOk
  <2>1. CASE disk'[x] = disk[x]
    BY <1>2, <2>1 DEF WholeOk
  <2>2. ASSUME NEW c \in CacheNames, Fills(r, c), x = Dir(r, c) PROVE disk'[x].whole
    BY <1>2, <1>5, <2>2 DEF Fills, CacheOk
  <2> QED
    BY <1>1, <2>1, <2>2 DEF Fills
<1>8. ASSUME NEW q \in Runs, NEW c \in CacheNames, At(q, Locked, c), q # r
      PROVE  disk'[Dir(q, c)] = disk[Dir(q, c)]
  <2>1. Dir(q, c) \in Caches
    BY <1>3, <1>8, InTheCaches
  <2>2. \A d \in CacheNames : Fills(r, d) => Dir(q, c) # Dir(r, d)
    BY <1>5, <1>8, OneHolder
  <2> QED
    BY <1>1, <2>1, <2>2 DEF Fills
<1>9. ASSUME NEW q \in Runs, q # r, NEW c \in CacheNames PROVE CacheOk(q, c)'
  <2>1. /\ inner'[q] = inner[q] /\ CacheOk(q, c) /\ (Dir(q, c))' = Dir(q, c)
        /\ \A K : (At(q, K, c))' <=> At(q, K, c)
    BY <1>1, <1>2, <1>4, <1>9 DEF InnerFootprint, At
  <2>2. At(q, Changing, c) \/ At(q, {"mark"}, c) => At(q, Locked, c)
    BY DEF At, Changing, Locked
  <2>3. inner[q].phase = "running" => Dir(q, c) \in Caches
    BY DEF HostInv, HostOk, Dir, Caches, CacheNames
  <2>4. inner[q].phase = "running" /\ disk[Dir(q, c)].complete => disk'[Dir(q, c)].complete
    BY <1>6, <2>3
  <2>5. At(q, Changing, c) => ~disk'[Dir(q, c)].complete
    BY <1>8, <1>9, <2>1, <2>2 DEF CacheOk
  <2>6. At(q, {"mark"}, c) => disk'[Dir(q, c)].whole
    BY <1>8, <1>9, <2>1, <2>2 DEF CacheOk
  <2>7. \A n : (Passed(q, n))' <=> Passed(q, n)
    BY <2>1 DEF Passed
  <2>8. inner[q].phase = "running" /\ (\E n : Passed(q, n) /\ Stages[q][n] = <<"mark", c>>) => disk'[Dir(q, c)].complete
    BY <2>1, <2>4 DEF CacheOk
  <2> QED
    BY <2>1, <2>5, <2>6, <2>7, <2>8 DEF CacheOk
<1>10. ASSUME NEW c \in CacheNames PROVE CacheOk(r, c)'
  <2>0. (Dir(r, c))' = Dir(r, c) /\ CacheOk(r, c) /\ inner[r].pc \in Nat
    BY <1>2, <1>4 DEF Shape, InnerRecord
  <2>1. CASE inner'[r].phase # "running"
    BY <2>1 DEF CacheOk, At
  <2>2. CASE inner'[r].phase = "running"
    <3>1. inner[r].phase = "running" /\ Dir(r, c) \in Caches
      BY <2>2, Moves DEF HostInv, HostOk, Dir, Caches, CacheNames
    <3>2. \A d \in CacheNames : Fills(r, d) => At(r, Changing, d)
      BY <1>5
    <3>3. ASSUME At(r, {"check"}, c) PROVE disk' = disk
      BY <1>1, <1>5, <3>3 DEF At, Changing
    <3>4. ASSUME At(r, Changing, c), disk' # disk PROVE Fills(r, c)
      BY <1>1, <1>5, <3>4 DEF At
    <3>5. ASSUME At(r, Changing, c)' PROVE ~disk'[Dir(r, c)].complete
      <4>1. CASE inner' = inner
        <5>1. disk' = disk
          BY <4>1, DiskMoves
        <5> QED
          BY <2>0, <3>5, <4>1, <5>1 DEF CacheOk, At
      <4>2. CASE At(r, {"check"}, c) /\ ~disk[Dir(r, c)].complete
        BY <3>3, <4>2
      <4>3. CASE At(r, {"wipe", "copy", "install"}, c)
        <5>1. At(r, Changing, c) /\ ~disk[Dir(r, c)].complete
          BY <2>0, <4>3 DEF At, Changing, CacheOk
        <5>2. CASE disk' = disk
          BY <5>1, <5>2
        <5>3. CASE Fills(r, c)
          BY <4>3, <5>1, <5>3 DEF Fills, At
        <5> QED
          BY <3>4, <5>1, <5>2, <5>3
      <4>4. Stages[r][inner'[r].pc][1] \in Changing
        BY <3>5 DEF At
      <4> QED
        BY <1>3, <3>5, <4>1, <4>2, <4>3, <4>4, WhereFrom, SMTT(30) DEF At, Changing
    <3>6. ASSUME At(r, {"mark"}, c)' PROVE disk'[Dir(r, c)].whole
      <4>1. {"mark"} \subseteq Locked /\ Stages[r][inner'[r].pc][1] = "mark"
        BY <3>6 DEF Locked, At
      <4>2. CASE inner' = inner
        <5>1. disk' = disk
          BY <4>2, DiskMoves
        <5> QED
          BY <2>0, <3>6, <4>2, <5>1 DEF CacheOk, At
      <4>3. CASE At(r, {"install"}, c) /\ Install(r)
        <5>1. CASE Fills(r, c)
          BY <4>3, <5>1 DEF Fills, At
        <5>2. CASE disk' = disk
          <6>1. Fill(r, [disk[Dir(r, What(r))] EXCEPT !.whole = TRUE]) /\ What(r) = c
            <7>1. inner' # inner
              BY <4>1, <4>3 DEF At
            <7>2. What(r) = c
              BY <4>3, AtStage DEF Install, At
            <7>3. ASSUME NEW code, ToCleanup(r, code) PROVE FALSE
              BY <2>2, <7>3 DEF ToCleanup, Shape, InnerRecord
            <7> QED
              BY <4>3, <7>2, <7>3 DEF Install, Breaks
          <6>2. disk' = [disk EXCEPT ![Dir(r, c)] = [disk[Dir(r, c)] EXCEPT !.whole = TRUE]]
            BY <6>1 DEF Fill
          <6> QED
            BY <3>1, <6>2 DEF Shape, Entry
        <5>3. At(r, Changing, c)
          BY <4>3 DEF At, Changing
        <5> QED
          BY <3>4, <5>1, <5>2, <5>3
      <4> QED
        BY <3>6, <4>1, <4>2, <4>3, WhereFrom
    <3>7. ASSUME NEW n, Passed(r, n)', Stages[r][n] = <<"mark", c>> PROVE disk'[Dir(r, c)].complete
      <4>1. CASE Passed(r, n)
        BY <1>6, <2>0, <3>1, <3>7, <4>1 DEF CacheOk
      <4>2. n \in 1..Len(Stages[r]) /\ n < inner'[r].pc /\ DOMAIN Stages[r] = 1..Len(Stages[r])
        BY <3>7, StagesInOrder DEF Passed
      <4>3. CASE inner[r].pc = n
        <5>1. At(r, {"mark"}, c) /\ Position(r)[1] = "mark" /\ inner' # inner
          BY <3>1, <3>7, <4>2, <4>3 DEF At, Position
        <5>2. Mark(r) /\ What(r) = c
          BY <2>2, <3>1, <4>2, <4>3, <5>1, OneAction, AtStage DEF Mark, At
        <5>3. disk' = [disk EXCEPT ![Dir(r, c)] = [disk[Dir(r, c)] EXCEPT !.complete = TRUE]]
          BY <5>2 DEF Mark, Fill
        <5> QED
          BY <3>1, <5>3 DEF Shape, Entry
      <4>4. CASE inner[r].pc < n
        <5>1. /\ inner[r].pc \in 1..Len(Stages[r]) /\ Position(r)[1] = "check"
              /\ inner'[r].pc = inner[r].pc + 5 /\ disk[Dir(r, CacheOf(r))].complete
          BY <2>0, <2>2, <4>2, <4>4, Moves
        <5>2. n = inner[r].pc + 4
          <6>1. WellFormed(Stages[r]) /\ Stages[r][inner[r].pc][1] = "check"
            BY <5>1, StagesInOrder DEF Position
          <6>2. n > 1 /\ Stages[r][n - 1] = <<"install", c>>
            BY <3>7, <4>2, <6>1 DEF WellFormed, WellAt, After
          <6>3. n - 1 \in 1..Len(Stages[r])
            BY <4>2, <6>2
          <6>4. n - 1 > 1 /\ Stages[r][(n - 1) - 1] = <<"copy", c>>
            BY <6>1, <6>2, <6>3 DEF WellFormed, WellAt, After
          <6>5. n - 2 \in 1..Len(Stages[r]) /\ Stages[r][n - 2] = <<"copy", c>>
            BY <4>2, <6>4
          <6>6. n - 2 > 1 /\ Stages[r][(n - 2) - 1] = <<"wipe", c>>
            BY <6>1, <6>5 DEF WellFormed, WellAt, After
          <6>7. n - 3 \in 1..Len(Stages[r]) /\ Stages[r][n - 3] = <<"wipe", c>>
            BY <4>2, <6>6
          <6>8. inner[r].pc # n - 1 /\ inner[r].pc # n - 2 /\ inner[r].pc # n - 3
            BY <6>1, <6>2, <6>5, <6>7
          <6>9. n \in Nat /\ inner[r].pc \in Nat /\ inner[r].pc < n /\ n < inner[r].pc + 5
            BY <2>0, <4>2, <4>4, <5>1
          <6> QED
            BY <6>8, <6>9
        <5>3. Stages[r][n] = <<"mark", CacheOf(r)>>
          BY <5>1, <5>2, CheckSkips DEF Position, CacheOf
        <5>4. CacheOf(r) = c /\ At(r, {"check"}, c)
          BY <3>1, <3>7, <4>2, <5>1, <5>3 DEF At, Position, CacheOf
        <5> QED
          BY <3>3, <5>1, <5>4
      <4>5. n < inner[r].pc => Passed(r, n)
        BY <4>2 DEF Passed
      <4> QED
        BY <2>0, <4>1, <4>2, <4>3, <4>4, <4>5
    <3> QED
      BY <2>0, <3>5, <3>6, <3>7 DEF CacheOk
  <2> QED
    BY <2>1, <2>2
<1>11. ASSUME NEW q \in Runs, NEW c \in CacheNames PROVE CacheOk(q, c)'
  BY <1>9, <1>10
<1> QED
  BY <1>7, <1>11 DEF CacheInv, CacheOk, WholeOk, Changing

LEMMA CacheStep ==
  ASSUME Shape, Shape', HostInv, RevisionInv, LockInv, Agreed, CacheInv, [Next]_vars
  PROVE  CacheInv'
<1>1. CASE Move \/ UNCHANGED vars
  BY <1>1 DEF CacheInv, At, Passed, Dir, Move, vars
<1> QED
  BY <1>1, HostCaches, InnerCaches DEF Next, HostAction, InnerAction

-----------------------------------------------------------------------------
(* The Dynamo in a runtime that several runs may share.                    *)

\* MarkedBefore: a cache that is used has been marked as complete.
LEMMA MarkedBefore ==
  ASSUME NEW r \in Runs, NEW c, NEW n \in 1..Len(Stages[r]), Stages[r][n] = <<"use", c>>
  PROVE  n - 2 \in 1..Len(Stages[r]) /\ Stages[r][n - 2] = <<"mark", c>>
<1> DEFINE s == Stages[r]
<1>1. Len(s) \in Nat /\ WellFormed(s) /\ n \in 1..Len(s) /\ s[n][1] = "use" /\ s[n][2] = c
  BY StagesInOrder
<1> HIDE DEF s
<1>2. After(s, n, "release", "use")
  BY <1>1 DEF WellFormed, WellAt
<1>3. n > 1 /\ s[n - 1] = <<"release", c>>
  BY <1>1, <1>2 DEF After
<1>4. n - 1 \in 1..Len(s) /\ s[n - 1][1] = "release" /\ s[n - 1][2] = c /\ (n - 1) - 1 = n - 2
  BY <1>1, <1>3
<1>5. After(s, n - 1, "mark", "release")
  BY <1>1, <1>4 DEF WellFormed, WellAt
<1>6. n - 1 > 1 /\ s[n - 2] = <<"mark", c>>
  BY <1>4, <1>5 DEF After
<1>7. n - 2 \in 1..Len(s)
  BY <1>1, <1>6
<1> QED
  BY <1>6, <1>7 DEF s

\* Installed: a run that has put Dynamo into its runtime, or looked at its SGLang, has a
\* complete SGLang.
LEMMA Installed ==
  ASSUME CacheInv, NEW r \in Runs, inner[r].phase = "running", inner[r].pc \in Nat,
         NEW m \in 1..Len(Stages[r]), m < inner[r].pc, NEW c \in CacheNames,
         Stages[r][m] = <<"use", c>> \/ (c = "sglang" /\ Stages[r][m][1] = "in")
  PROVE  disk[Dir(r, c)].complete
<1>1. PICK n \in 1..Len(Stages[r]) : Stages[r][n] = <<"use", c>> /\ n < inner[r].pc
  <2>1. CASE c = "sglang" /\ Stages[r][m][1] = "in"
    <3>1. PICK n \in 1..Len(Stages[r]) : Stages[r][n] = <<"use", "sglang">>
      BY StagesInOrder DEF Contains
    <3>2. n < m
      BY <2>1, <3>1, StagesInOrder DEF DynamoLast, CacheKinds
    <3> QED
      BY <2>1, <3>1, <3>2
  <2> QED
    BY <2>1
<1>2. n - 2 \in 1..Len(Stages[r]) /\ Stages[r][n - 2] = <<"mark", c>>
  BY <1>1, MarkedBefore
<1>3. Passed(r, n - 2)
  BY <1>1, <1>2, StagesInOrder DEF Passed
<1> QED
  BY <1>2, <1>3 DEF CacheInv

\* SeenStays: a host runner does not look at the checkout again when its container runs.
LEMMA SeenStays ==
  ASSUME Shape, HostInv, [Next]_vars, NEW q \in Runs, inner[q].phase # "absent"
  PROVE  host'[q].seen = host[q].seen
<1>1. host[q].at \notin Before
  BY DEF HostInv, HostOk, Absent
<1>2. CASE Move \/ UNCHANGED vars
  BY <1>2 DEF Move, vars
<1>3. ASSUME NEW r \in Runs, InnerAction(r) PROVE host'[q].seen = host[q].seen
  BY <1>3, InnerLeaves DEF InnerFootprint
<1>4. ASSUME NEW r \in Runs, HostAction(r), r # q PROVE host'[q].seen = host[q].seen
  BY <1>4, HostLeaves DEF HostFootprint
<1>5. CASE HostAction(q)
  BY <1>1, <1>5 DEF HostAction, HostStep, Begin, Prepare, RemoveStale, NameMooncake, StartMooncake, RunContainer,
         ReadRevision, StartMain, Exec, Wait, RemoveMooncake, RemoveMain, RemoveOwn, RestoreOwner, Signal, Kill,
         Fails, Goes, Shape, HostRecord, Before
<1> QED
  BY <1>2, <1>3, <1>4, <1>5 DEF Next, HostAction, InnerAction

\* Run q has got to the installation of Dynamo, or is past running.
Begun(q) ==
    /\ inner[q].phase # "absent"
    /\ inner[q].phase = "running" => \E n \in DOMAIN Stages[q] : n < inner[q].pc /\ Stages[q][n][1] = "out"

LEMMA BegunStays ==
  ASSUME Shape, HostInv, [Next]_vars, NEW q \in Runs, Begun(q)
  PROVE  Begun(q)'
<1>1. inner \in [Runs -> InnerRecord] /\ inner[q] \in InnerRecord
  BY DEF Shape
<1>2. CASE inner'[q] = inner[q]
  BY <1>2 DEF Begun
<1>3. ASSUME NEW r \in Runs, HostAction(r) PROVE Begun(q)'
  <2>1. HostFootprint(r)
    BY <1>3, HostLeaves
  <2>2. CASE inner'[q] = [inner[q] EXCEPT !.phase = "dead"]
    BY <1>1, <2>2 DEF Begun, InnerRecord
  <2>3. ~(q = r /\ host[r].at = "exec")
    BY DEF HostInv, HostOk, Before, Absent, Begun
  <2> QED
    BY <1>2, <2>1, <2>2, <2>3 DEF HostFootprint
<1>4. CASE InnerAction(q)
  <2>1. inner'[q].phase # "absent"
    <3>1. InnerEffect(q)
      BY <1>4, InnerEffects
    <3>2. inner[q].phase # "absent"
      BY DEF Begun
    <3>3. CASE Compact(q) \/ Normalize(q)
      <4>1. CASE Compact(q)
        BY <1>1, <3>2, <4>1 DEF Compact, InnerRecord
      <4>2. CASE Normalize(q)
        BY <1>1, <4>2 DEF Normalize, InnerRecord
      <4> QED
        BY <3>3, <4>1, <4>2
    <3>4. CASE CheckServices(q)
      BY <1>1, <3>2, <3>4 DEF CheckServices, Breaks, ToCleanup, InnerRecord
    <3>5. CASE inner' = inner \/ Advance(q) \/ AskRevision(q) \/ Check(q) \/ NoteScraper(q)
      BY <1>1, <3>2, <3>5 DEF Advance, AskRevision, Check, NoteScraper, InnerRecord
    <3>6. CASE (\E code : ToCleanup(q, code)) \/ Nudge(q)
      BY <1>1, <3>6 DEF ToCleanup, Nudge, InnerRecord
    <3> QED
      BY <3>1, <3>3, <3>4, <3>5, <3>6 DEF InnerEffect
  <2>2. ASSUME inner'[q].phase = "running"
        PROVE  \E n \in DOMAIN Stages[q] : n < inner'[q].pc /\ Stages[q][n][1] = "out"
    <3>1. inner[q].phase = "running"
      BY <1>4, <2>2, Moves
    <3>2. PICK n \in DOMAIN Stages[q] : n < inner[q].pc /\ Stages[q][n][1] = "out"
      BY <3>1 DEF Begun
    <3>3. n \in Nat /\ inner[q].pc \in Nat
      BY <1>1, StagesInOrder DEF InnerRecord
    <3>4. CASE /\ inner[q].pc \in 1..Len(Stages[q]) /\ Position(q)[1] = "alive"
               /\ inner'[q].pc = inner[q].pc - 1
      <4>1. Stages[q][inner[q].pc - 1][1] = "watch"
        BY <3>4, StagesInOrder DEF Position
      <4>2. n # inner[q].pc - 1
        BY <3>2, <4>1
      <4>3. n < inner[q].pc - 1
        BY <3>2, <3>3, <4>2
      <4> QED
        BY <3>2, <3>4, <4>3
    <3>5. CASE inner'[q].pc = inner[q].pc \/ inner'[q].pc = inner[q].pc + 1 \/ inner'[q].pc = inner[q].pc + 5
      BY <3>2, <3>3, <3>5
    <3> QED
      BY <1>4, <2>2, <3>4, <3>5, Moves
  <2> QED
    BY <2>1, <2>2 DEF Begun
<1>5. ASSUME NEW r \in Runs, InnerAction(r) PROVE Begun(q)'
  BY <1>2, <1>4, <1>5, InnerLeaves DEF InnerFootprint
<1>6. CASE Move \/ UNCHANGED vars
  BY <1>2, <1>6 DEF Move, vars
<1> QED
  BY <1>3, <1>5, <1>6 DEF Next, HostAction, InnerAction

LEMMA SharedStays ==
  ASSUME Shape, HostInv, [Next]_vars, NEW r \in Runs, inner[r].phase # "absent", Shared(r)
  PROVE  Shared(r)'
<1>1. PICK q \in Runs \ {r} : host[q].seen = host[r].seen /\ Begun(q)
  BY DEF Shared, Begun
<1>2. Begun(q)' /\ host'[q].seen = host[q].seen /\ host'[r].seen = host[r].seen
  BY <1>1, BegunStays, SeenStays DEF Begun
<1> QED
  BY <1>1, <1>2 DEF Shared, Begun

\* VenvMoves: what a step takes out of a runtime or puts into it.
LEMMA VenvMoves ==
  ASSUME Shape, NEW r \in Runs, InnerAction(r), venv' # venv
  PROVE  /\ inner[r].phase = "running" /\ inner[r].pc \in 1..Len(Stages[r])
         /\ inner'[r].phase = "running" /\ inner'[r].pc = inner[r].pc + 1
         /\ \/ Position(r)[1] = "wipe" /\ Position(r)[2] = "sglang"
            \/ Position(r)[1] \in {"out", "in"} /\ \A x \in DynamoParts \X Revisions :
                 x # <<Position(r)[2], host[r].seen>> => venv'[x] = venv[x]
<1>1. /\ inner \in [Runs -> InnerRecord] /\ inner[r] \in InnerRecord
      /\ venv \in [DynamoParts \X Revisions -> Runs \cup {None}]
  BY DEF Shape
<1>2. \A k : k \notin {"stop", "compact", "normalize"} /\ Doing(r, k) =>
         /\ inner[r].phase = "running" /\ inner[r].pc \in 1..Len(Stages[r])
         /\ Position(r)[1] = k /\ What(r) = Position(r)[2]
  BY AtStage DEF Position
<1>3. Advance(r) => inner'[r].phase = inner[r].phase /\ inner'[r].pc = inner[r].pc + 1
  BY <1>1 DEF Advance, InnerRecord
<1>4. CASE Wipe(r)
  <2>1. /\ Doing(r, "wipe") /\ Advance(r)
        /\ venv' = [x \in DynamoParts \X Revisions |->
                      IF What(r) = "sglang" /\ x[2] = host[r].seen THEN None ELSE venv[x]]
    BY <1>4 DEF Wipe
  <2>2. What(r) = "sglang"
    BY <1>1, <2>1
  <2> QED
    BY <1>2, <1>3, <2>1, <2>2
<1>5. ASSUME NEW k \in {"out", "in"}, NEW whose, Pip(r, k, whose)
      PROVE  /\ inner[r].phase = "running" /\ inner[r].pc \in 1..Len(Stages[r])
             /\ inner'[r].phase = "running" /\ inner'[r].pc = inner[r].pc + 1
             /\ Position(r)[1] \in {"out", "in"} /\ \A x \in DynamoParts \X Revisions :
                  x # <<Position(r)[2], host[r].seen>> => venv'[x] = venv[x]
  <2>1. Doing(r, k) /\ Advance(r) /\ venv' = [venv EXCEPT ![<<What(r), host[r].seen>>] = whose]
    BY <1>5 DEF Pip
  <2> QED
    BY <1>1, <1>2, <1>3, <2>1
<1> QED
  BY <1>4, <1>5, InnerEffects DEF InnerEffect, TakeOut, PutIn

\* VenvStep: what a run has put into its runtime stays, or another one has come to install.
LEMMA VenvStep ==
  ASSUME Shape, Shape', HostInv, HostInv', CacheInv, VenvInv, [Next]_vars
  PROVE  VenvInv'
<1> SUFFICES ASSUME NEW q \in Runs, inner'[q].phase = "running", NEW part \in DynamoParts, Past(q, <<"in", part>>)'
             PROVE  venv'[<<part, host'[q].seen>>] = q \/ Shared(q)'
  BY DEF VenvInv, VenvOk
<1> DEFINE s == Stages[q]
           x == <<part, host[q].seen>>
<1>1. /\ s \in Seq(Step) /\ Len(s) \in Nat /\ DOMAIN s = 1..Len(s) /\ WellFormed(s) /\ DynamoLast(s)
      /\ Contains(s, <<"in", part>>)
  BY StagesInOrder
<1>2. PICK m \in 1..Len(s) : s[m] = <<"in", part>> /\ m < inner'[q].pc
  BY <1>1 DEF Past, Contains
<1>3. ASSUME inner[q].phase = "running", Past(q, <<"in", part>>), venv'[x] = venv[x]
      PROVE  venv'[<<part, host'[q].seen>>] = q \/ Shared(q)'
  BY <1>3, SeenStays, SharedStays DEF VenvInv, VenvOk
<1>4. CASE venv' = venv /\ inner'[q] = inner[q]
  BY <1>3, <1>4 DEF Past
<1>5. ASSUME NEW r \in Runs, HostAction(r) PROVE venv'[<<part, host'[q].seen>>] = q \/ Shared(q)'
  <2>1. HostFootprint(r) /\ inner[q] \in InnerRecord
    BY <1>5, HostLeaves DEF Shape
  <2>2. CASE inner'[q] = [inner[q] EXCEPT !.phase = "dead"]
    BY <2>1, <2>2 DEF InnerRecord
  <2>3. CASE q = r /\ host[r].at = "exec" /\ inner'[q] = [inner[q] EXCEPT !.phase = "running"]
    <3>1. inner'[q].pc = 1
      BY <2>3 DEF HostInv, HostOk, Before, Absent
    <3> QED
      BY <1>2, <3>1
  <2> QED
    BY <1>4, <2>1, <2>2, <2>3 DEF HostFootprint
<1>6. ASSUME NEW r \in Runs, InnerAction(r) PROVE venv'[<<part, host'[q].seen>>] = q \/ Shared(q)'
  <2>1. InnerFootprint(r) /\ host' = host /\ inner[q].pc \in Nat /\ inner[r].pc \in Nat
    BY <1>6, InnerLeaves DEF InnerFootprint, Shape, InnerRecord
  <2>2. inner[q].phase = "running"
    BY <1>6, <2>1, Moves DEF InnerFootprint
  <2>3. host[q].seen \in Revisions /\ x \in DynamoParts \X Revisions
    BY <2>2 DEF HostInv, HostOk
  <2>4. CASE q # r
    <3>1. inner'[q] = inner[q] /\ Past(q, <<"in", part>>) /\ m < inner[q].pc
      BY <1>2, <2>1, <2>4 DEF InnerFootprint, Past
    <3>2. SUFFICES ASSUME venv'[x] # venv[x] PROVE Shared(q)'
      BY <1>3, <2>2, <3>1
    <3>3. /\ inner[r].phase = "running" /\ inner[r].pc \in 1..Len(Stages[r])
          /\ inner'[r].phase = "running" /\ inner'[r].pc = inner[r].pc + 1
          /\ \/ Position(r)[1] = "wipe" /\ Position(r)[2] = "sglang"
             \/ Position(r)[1] \in {"out", "in"} /\ x = <<Position(r)[2], host[r].seen>>
      BY <1>6, <2>3, <3>2, VenvMoves
    <3>4. CASE Position(r)[1] = "wipe" /\ Position(r)[2] = "sglang"
      <4>1. host[r].seen = host[q].seen
        <5>1. Wipe(r)
          <6>1. ASSUME NEW k \in {"out", "in"}, Doing(r, k) PROVE FALSE
            BY <3>4, <6>1, AtStage DEF Position
          <6> QED
            BY <1>6, <3>2, <6>1, InnerEffects DEF InnerEffect, TakeOut, PutIn, Pip
        <5> QED
          BY <2>3, <3>2, <5>1 DEF Wipe, Shape
      <4>2. disk[Dir(q, "sglang")].complete
        BY <1>2, <2>1, <2>2, <3>1, Installed DEF CacheNames
      <4>3. At(r, {"wipe"}, "sglang") /\ "sglang" \in CacheNames
        BY <3>3, <3>4, StagesInOrder DEF At, Position, CacheNames
      <4>4. ~disk[Dir(r, "sglang")].complete
        BY <4>3 DEF CacheInv, At
      <4> QED
        BY <4>1, <4>2, <4>4 DEF Dir
    <3>5. CASE Position(r)[1] \in {"out", "in"} /\ x = <<Position(r)[2], host[r].seen>>
      <4>1. \E n \in DOMAIN Stages[r] : n < inner'[r].pc /\ Stages[r][n][1] = "out"
        <5>1. CASE Position(r)[1] = "out"
          <6>1. inner[r].pc \in DOMAIN Stages[r] /\ inner[r].pc < inner'[r].pc
            BY <3>3, StagesInOrder
          <6> QED
            BY <5>1, <6>1 DEF Position
        <5>2. CASE Position(r)[1] = "in"
          <6>1. After(Stages[r], inner[r].pc, "out", "in")
            BY <3>3, StagesInOrder DEF WellFormed, WellAt
          <6>2. inner[r].pc > 1 /\ Stages[r][inner[r].pc - 1][1] = "out"
            BY <5>2, <6>1 DEF After, Position
          <6>3. inner[r].pc - 1 \in 1..Len(Stages[r]) /\ inner[r].pc - 1 < inner'[r].pc
            <7>1. Len(Stages[r]) \in Nat /\ inner[r].pc \in 1..Len(Stages[r]) /\ inner'[r].pc = inner[r].pc + 1
              BY <3>3, StagesInOrder
            <7>2. inner[r].pc > 1
              BY <6>2
            <7>3. \A n, k, l \in Nat : n \in 1..l /\ n > 1 /\ k = n + 1 => n - 1 \in 1..l /\ n - 1 < k
              OBVIOUS
            <7> QED
              BY <2>1, <7>1, <7>2, <7>3
          <6> QED
            BY <6>2, <6>3, StagesInOrder
        <5> QED
          BY <3>5, <5>1, <5>2
      <4>2. host'[r].seen = host'[q].seen /\ inner'[r].phase # "absent"
        BY <2>1, <3>3, <3>5
      <4> QED
        BY <2>4, <4>1, <4>2 DEF Shared
    <3> QED
      BY <3>3, <3>4, <3>5
  <2>5. CASE q = r
    <3>1. CASE inner' = inner
      <4>1. venv' = venv
        BY <1>6, <2>1, <2>5, <3>1, VenvMoves
      <4> QED
        BY <1>4, <3>1, <4>1
    <3>2. CASE inner[q].pc \in 1..Len(s) /\ Position(q)[1] = "check" /\ inner'[q].pc = inner[q].pc + 5
      <4>1. venv' = venv
        BY <1>6, <2>1, <2>5, <3>2, VenvMoves
      <4>2. ASSUME NEW n \in 1..Len(s), s[n] = <<"in", part>> PROVE n < inner[q].pc
        <5>1. n < inner[q].pc + 5
          BY <1>1, <3>2, <4>2 DEF Past
        <5>2. ~(inner[q].pc <= n)
          BY <3>2, <4>2, <5>1, CheckSkips DEF Position
        <5> QED
          BY <2>1, <5>2
      <4>3. Past(q, <<"in", part>>)
        BY <1>1, <4>2 DEF Past
      <4> QED
        BY <1>3, <2>2, <4>1, <4>3
    <3>3. CASE inner[q].pc \in 1..Len(s) /\ Position(q)[1] = "alive" /\ inner'[q].pc = inner[q].pc - 1
      <4>1. venv' = venv
        BY <1>6, <2>1, <2>5, <3>3, VenvMoves
      <4>2. ASSUME NEW n \in 1..Len(s), s[n] = <<"in", part>> PROVE n < inner[q].pc
        <5>1. n < inner[q].pc - 1
          BY <1>1, <3>3, <4>2 DEF Past
        <5> QED
          BY <2>1, <5>1
      <4>3. Past(q, <<"in", part>>)
        BY <1>1, <4>2 DEF Past
      <4> QED
        BY <1>3, <2>2, <4>1, <4>3
    <3>4. CASE inner[q].pc \in 1..Len(s) /\ inner'[q].pc = inner[q].pc + 1
      <4>1. inner' # inner
        BY <2>1, <3>4
      <4>2. CASE Position(q) = <<"in", part>>
        <5>1. PutIn(q) /\ What(q) = part
          BY <1>6, <2>2, <2>5, <3>4, <4>1, <4>2, OneAction DEF What, Program, Position
        <5>2. Advance(q) /\ venv' = [venv EXCEPT ![x] = q]
          <6>1. ASSUME NEW code, ToCleanup(q, code) PROVE FALSE
            BY <6>1 DEF ToCleanup, Shape, InnerRecord
          <6> QED
            BY <5>1, <6>1 DEF PutIn, Pip, Breaks
        <5> QED
          BY <2>1, <2>3, <5>2 DEF Shape
      <4>3. CASE Position(q) # <<"in", part>>
        <5>1. ASSUME NEW n \in 1..Len(s), s[n] = <<"in", part>> PROVE n < inner[q].pc
          <6>1. n < inner[q].pc + 1 /\ n # inner[q].pc
            BY <1>1, <3>4, <4>3, <5>1 DEF Past, Position
          <6> QED
            BY <2>1, <6>1
        <5>2. Past(q, <<"in", part>>)
          BY <1>1, <5>1 DEF Past
        <5>3. SUFFICES ASSUME venv'[x] # venv[x] PROVE FALSE
          BY <1>3, <2>2, <5>2
        <5>4. \/ s[inner[q].pc][1] = "wipe" /\ s[inner[q].pc][2] = "sglang"
              \/ s[inner[q].pc][1] \in {"out", "in"} /\ s[inner[q].pc][2] = part
          BY <1>6, <2>3, <2>5, <5>3, VenvMoves DEF Position
        <5>5. CASE s[inner[q].pc][1] = "wipe" /\ s[inner[q].pc][2] = "sglang"
          <6>1. s[m][1] = "in" /\ s[inner[q].pc][1] \in CacheKinds
            BY <1>2, <5>5 DEF CacheKinds
          <6>2. inner[q].pc < m
            BY <1>1, <3>4, <5>5, <6>1 DEF DynamoLast
          <6>3. m < inner[q].pc /\ m \in Nat
            BY <1>1, <1>2, <5>1
          <6> QED
            BY <2>1, <6>2, <6>3
        <5>6. CASE s[inner[q].pc][1] = "out" /\ s[inner[q].pc][2] = part
          <6>1. inner[q].pc + 1 \in 1..Len(s) /\ s[inner[q].pc + 1] = <<"in", part>>
            BY <1>1, <3>4, <5>6 DEF WellFormed, WellAt
          <6>2. inner[q].pc + 1 < inner[q].pc
            BY <5>1, <6>1
          <6> QED
            BY <2>1, <6>2
        <5>7. CASE s[inner[q].pc][1] = "in" /\ s[inner[q].pc][2] = part
          <6>1. s[inner[q].pc] \in Step
            BY <1>1, <3>4, ElementOfSeq
          <6> QED
            BY <4>3, <5>7, <6>1 DEF Step, Position
        <5> QED
          BY <5>4, <5>5, <5>6, <5>7
      <4> QED
        BY <4>2, <4>3
    <3> QED
      BY <1>6, <2>5, <3>1, <3>2, <3>3, <3>4, Moves
  <2> QED
    BY <2>4, <2>5
<1>7. CASE Move \/ UNCHANGED vars
  BY <1>4, <1>7 DEF Move, vars
<1> QED
  BY <1>5, <1>6, <1>7 DEF Next, HostAction, InnerAction

-----------------------------------------------------------------------------
(* Theorems.                                                               *)

LEMMA InitInv ==
  ASSUME Init
  PROVE  IInv
<1>1. Shape
  BY InitShape
<1>2. HostInv /\ AloneInv
  BY DEF Init, HostInv, HostOk, Idle, Absent, AloneInv, Busy
<1>3. ProgressInv /\ RevisionInv
  BY DEF Init, Idle, Absent, ProgressInv, ProgressOk, ScraperOk, CleanupOk, EndedOk, SucceededOk, RevisionInv
<1>4. LockInv /\ CacheInv /\ VenvInv
  BY DEF Init, Absent, LockInv, CacheInv, At, Entry, VenvInv, VenvOk
<1> QED
  BY <1>1, <1>2, <1>3, <1>4 DEF IInv

\* DirectInvariant: the runs of a host keep their shape and the order of their stages, and
\* the runners that agree on a revision keep the locks of the caches they fill, and the
\* Dynamo they have put into a runtime until another run comes to put in its own.
THEOREM DirectInvariant == Spec => []IInv
<1>1. Init => IInv
  BY InitInv
<1>2. IInv /\ [Next]_vars => IInv'
  <2> SUFFICES ASSUME IInv, [Next]_vars PROVE IInv'
    OBVIOUS
  <2>1. Shape /\ HostInv /\ AloneInv /\ ProgressInv /\ RevisionInv /\ LockInv /\ (Agreed => CacheInv /\ VenvInv)
    BY DEF IInv
  <2>2. Shape' /\ HostInv' /\ AloneInv' /\ RevisionInv'
    BY <2>1, ShapeStep, HostInvStep, AloneInvStep, RevisionStep
  <2>3. ProgressInv' /\ LockInv'
    BY <2>1, <2>2, ProgressStep, LockStep
  <2>4. Agreed' => CacheInv' /\ VenvInv'
    BY <2>1, <2>2, AgreedBefore, CacheStep, VenvStep
  <2> QED
    BY <2>2, <2>3, <2>4 DEF IInv
<1> QED
  BY <1>1, <1>2, PTL DEF Spec

\* NothingIsLeftBehind: NothingLeftBehind, for any number of runs, failures and signals: the
\* clean-up of DirectHostRunner.run takes away every container the run may have made, one
\* whose docker run was interrupted included.
THEOREM NothingIsLeftBehind == Spec => []NothingLeftBehind
<1>1. IInv => NothingLeftBehind
  BY DEF IInv, HostInv, HostOk, NothingLeftBehind
<1> QED
  BY <1>1, DirectInvariant, PTL

\* SuccessIsComplete: RunsSound: the runners keep their shape, and exit code 0 comes only
\* from a run that started everything, saw its benchmark end with 0, stopped all it owned,
\* and got through its clean-up: compaction and normalization were tried, where they are
\* asked for, whether they succeeded or not.
THEOREM SuccessIsComplete == Spec => []RunsSound
<1>1. IInv => TypeOK
  <2> SUFFICES ASSUME IInv PROVE TypeOK
    OBVIOUS
  <2>1. Shape /\ HostInv /\ ProgressInv
    BY DEF IInv
  <2>2. ASSUME NEW r \in Runs
        PROVE  /\ host[r].code \in {"none", "ok", "error", "signal", "raised"} /\ host[r].seen \in Revisions \cup {None}
               /\ InTry(r) \/ InCleanup(r) \/ Over(r) \/ host[r] = Idle
               /\ docker[r] \subseteq {"mooncake", "main"} /\ host[r].lost \subseteq {"mooncake", "main"}
               /\ inner[r].phase \in {"absent", "running", "cleanup", "ended", "dead"}
               /\ inner[r].rev \in Revisions \cup {None}
               /\ inner[r].scraper \in {{}, {"process"}, {"process", "local_dir"}}
               /\ {inner[r].compacted, inner[r].normalized} \subseteq {"none", "tried", "done"}
               /\ DOMAIN proc[r] \subseteq Owned[r]
               /\ \A p \in DOMAIN proc[r] : proc[r][p] \in {"live", "zero", "failed", "stopped"}
    <3>1. /\ host[r] \in HostRecord /\ docker[r] \in SUBSET Containers /\ inner[r] \in InnerRecord
          /\ DOMAIN proc[r] \subseteq Owned[r] /\ proc[r] \in [DOMAIN proc[r] -> Fates]
      BY <2>1, TableFacts DEF Shape
    <3>2. HostOk(r) /\ ScraperOk(r)
      BY <2>1 DEF HostInv, ProgressInv, ProgressOk
    <3>3. InTry(r) \/ InCleanup(r) \/ Over(r) \/ host[r] = Idle
      BY <3>1, <3>2 DEF HostRecord, HostPlaces, HostOk, InTry, InCleanup, Over
    <3>4. inner[r].scraper \in {{}, {"process"}, {"process", "local_dir"}}
      BY <3>1, <3>2 DEF InnerRecord, Parts, ScraperOk
    <3> QED
      BY <3>1, <3>3, <3>4 DEF HostRecord, InnerRecord, Codes, Phases, Containers, Fates, Outcomes
  <2> QED
    BY <2>1, <2>2 DEF TypeOK, Shape, Entry
<1>2. IInv => ZeroMeansRan
  <2> SUFFICES ASSUME IInv, NEW r \in Runs, host[r].at = "ended", host[r].code = "ok"
               PROVE  /\ DOMAIN proc[r] = Owned[r] /\ proc[r]["benchmark"] = "zero"
                      /\ \A p \in Owned[r] : proc[r][p] # "live"
                      /\ inner[r].compacted # "none" <=> Has(r, "tachometer")
                      /\ inner[r].normalized # "none" <=> Has(r, "ruter")
    BY DEF ZeroMeansRan
  <2>1. ProgressOk(r) /\ inner[r].phase = "ended" /\ inner[r].code = "ok"
    BY DEF IInv, ProgressInv, ProgressOk
  <2>2. /\ NoneLive(r) /\ Compacted(r) /\ Normalized(r)
        /\ DOMAIN proc[r] = Owned[r] /\ proc[r]["benchmark"] = "zero"
        /\ Has(r, "tachometer") => inner[r].scraper = Parts
        /\ inner[r].scraper # {} => Has(r, "tachometer")
    BY <2>1 DEF ProgressOk, EndedOk, SucceededOk, ScraperOk
  <2>3. "local_dir" \in inner[r].scraper <=> Has(r, "tachometer")
    BY <2>2 DEF Parts
  <2> QED
    BY <2>2, <2>3 DEF NoneLive, Compacted, Normalized
<1> QED
  BY <1>1, <1>2, DirectInvariant, PTL DEF RunsSound

\* RuntimesStayWhole: WholeRuntime: as long as hosts and containers agree on the revision,
\* the SGLang a run has imported and the cached Dynamo it has found stay whole, whoever
\* installs beside it; and the wheel and sources of Dynamo it has put into the runtime stay
\* its own until another run with that runtime gets to its own installation.
THEOREM RuntimesStayWhole == Spec => []WholeRuntime
<1>1. IInv => WholeRuntime
  <2> SUFFICES ASSUME IInv, Agreed, NEW r \in Runs, inner[r].phase = "running"
               PROVE  /\ Past(r, <<"use", "sglang">>) => disk[Dir(r, "sglang")].whole
                      /\ Has(r, "dynamo_hash") /\ Past(r, <<"use", "dynamo">>) => disk[Dir(r, "dynamo")].whole
                      /\ \A part \in DynamoParts :
                           Past(r, <<"in", part>>) => venv[<<part, host[r].seen>>] = r \/ Shared(r)
    BY DEF WholeRuntime, Agreed
  <2>1. CacheInv /\ VenvInv /\ HostInv /\ inner[r].pc \in Nat
    BY DEF IInv, Shape, InnerRecord
  <2>2. ASSUME NEW c \in CacheNames, Contains(Stages[r], <<"use", c>>), Past(r, <<"use", c>>)
        PROVE  disk[Dir(r, c)].whole
    <3>1. PICK n \in 1..Len(Stages[r]) : Stages[r][n] = <<"use", c>>
      BY <2>2 DEF Contains
    <3>2. n < inner[r].pc
      BY <2>2, <3>1, StagesInOrder DEF Past
    <3>3. disk[Dir(r, c)].complete
      BY <2>1, <3>1, <3>2, Installed
    <3>4. Dir(r, c) \in Caches
      BY <2>1 DEF HostInv, HostOk, Dir, Caches, CacheNames
    <3> QED
      BY <2>1, <3>3, <3>4 DEF CacheInv
  <2>3. /\ Contains(Stages[r], <<"use", "sglang">>)
        /\ Has(r, "dynamo_hash") => Contains(Stages[r], <<"use", "dynamo">>)
    BY StagesInOrder
  <2> QED
    BY <2>1, <2>2, <2>3 DEF CacheNames, VenvInv, VenvOk
<1> QED
  BY <1>1, DirectInvariant, PTL

\* CleanUpKeepsOrder: CleansUpInOrder: no runner at work loses a container to another one,
\* and the scraper's files are compacted only when the scraper is gone.
THEOREM CleanUpKeepsOrder == Spec => CleansUpInOrder
<1>1. IInv /\ [Next]_vars => [\A r \in Runs : ~(docker[r] \subseteq docker'[r]) => InCleanup(r) \/ Over(r)]_vars
  <2> SUFFICES ASSUME IInv, Next, NEW r \in Runs, ~(docker[r] \subseteq docker'[r]) PROVE InCleanup(r) \/ Over(r)
    BY DEF vars
  <2>1. docker \in [Runs -> SUBSET Containers] /\ HostOk(r) /\ AloneInv
    BY DEF IInv, Shape, HostInv
  <2>2. PICK q \in Runs : HostAction(q)
    BY InnerLeaves DEF IInv, Next, Move, HostAction, InnerAction, InnerFootprint
  <2>3. CASE RemoveMooncake(q) \/ RemoveMain(q)
    <3>1. q = r
      BY <2>1, <2>3 DEF RemoveMooncake, RemoveMain, RemoveOwn, Remove
    <3> QED
      BY <2>3, <3>1 DEF RemoveMooncake, RemoveMain, InCleanup
  <2>4. CASE RemoveStale(q)
    <3>1. PICK x \in Labelled(q) : docker' = [docker EXCEPT ![x[1]] = @ \ {x[2]}]
      BY <2>4 DEF RemoveStale, Remove
    <3>2. x[1] = r /\ out[r] = out[q] /\ docker[r] # {}
      BY <2>1, <3>1 DEF Labelled
    <3>3. Busy(q) /\ host[q].at = "stale"
      BY <2>4 DEF RemoveStale, Busy, Over
    <3>4. r # q /\ host[r].at # "idle"
      BY <2>1, <3>2, <3>3 DEF HostOk
    <3>5. ~Busy(r)
      BY <2>1, <3>2, <3>3, <3>4 DEF AloneInv
    <3> QED
      BY <3>4, <3>5 DEF Busy
  <2>5. CASE ~RemoveMooncake(q) /\ ~RemoveMain(q) /\ ~RemoveStale(q)
    BY <2>1, <2>2, <2>5 DEF HostAction, HostStep, Begin, Prepare, NameMooncake, StartMooncake, RunContainer,
           ReadRevision, StartMain, Exec, Wait, RestoreOwner, Signal, Kill
  <2> QED
    BY <2>3, <2>4, <2>5
<1>2. IInv /\ [Next]_vars
        => [\A r \in Runs : inner'[r].compacted # inner[r].compacted => proc[r]["tachometer"] # "live"]_vars
  <2> SUFFICES ASSUME IInv, Next, NEW r \in Runs, inner'[r].compacted # inner[r].compacted
               PROVE  proc[r]["tachometer"] # "live"
    BY DEF vars
  <2>1. inner \in [Runs -> InnerRecord] /\ inner[r] \in InnerRecord /\ ProgressOk(r) /\ Shape
    BY DEF IInv, Shape, ProgressInv
  <2>2. ASSUME NEW q \in Runs, HostAction(q) PROVE FALSE
    <3>1. \/ inner'[r] = inner[r]
          \/ inner'[r] = [inner[r] EXCEPT !.phase = "dead"]
          \/ inner'[r] = [inner[r] EXCEPT !.phase = "running"]
      BY <2>1, <2>2, HostLeaves DEF HostFootprint
    <3> QED
      BY <2>1, <3>1 DEF InnerRecord
  <2>3. ASSUME NEW q \in Runs, InnerAction(q) PROVE q = r /\ Compact(r)
    <3>1. q = r
      BY <2>1, <2>3, InnerLeaves DEF InnerFootprint
    <3>2. InnerEffect(r)
      BY <2>3, <3>1, InnerEffects
    <3>3. CASE \E code : ToCleanup(r, code)
      BY <2>1, <3>3 DEF ToCleanup, InnerRecord
    <3>4. CASE inner' = inner \/ Advance(r) \/ AskRevision(r) \/ Check(r) \/ NoteScraper(r)
      BY <2>1, <3>4 DEF Advance, AskRevision, Check, NoteScraper, InnerRecord
    <3>6. CASE Normalize(r)
      BY <2>1, <3>6 DEF Normalize, InnerRecord
    <3>5. CASE CheckServices(r) \/ Nudge(r)
      BY <2>1, <3>3, <3>5 DEF CheckServices, Breaks, Nudge, InnerRecord
    <3> QED
      BY <3>1, <3>2, <3>3, <3>4, <3>5, <3>6 DEF InnerEffect
  <2>4. Compact(r)
    BY <2>1, <2>2, <2>3 DEF Next, HostAction, InnerAction, Move
  <2>6. inner[r].phase = "cleanup" /\ inner[r].pc = 2 /\ inner[r].compacted = "none"
    BY <2>1, <2>4, AtCleanup DEF Compact, ProgressOk, CleanupOk
  <2>5. "local_dir" \in inner[r].scraper
    <3>1. PICK result \in IF "local_dir" \in inner[r].scraper THEN {"tried", "done"} ELSE {"none"} :
            inner' = [inner EXCEPT ![r].compacted = result, ![r].pc = @ + 1]
      BY <2>4 DEF Compact
    <3>2. inner'[r].compacted = result
      BY <2>1, <3>1 DEF InnerRecord
    <3> QED
      BY <2>6, <3>1, <3>2
  <2> QED
    BY <2>1, <2>5, <2>6 DEF ProgressOk, ScraperOk, CleanupOk, ScraperGone
<1> QED
  BY <1>1, <1>2, DirectInvariant, PTL DEF Spec, CleansUpInOrder, OnlyItsOwn, CompactedAfterScrape
=============================================================================
