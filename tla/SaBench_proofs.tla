--------------------------- MODULE SaBench_proofs ---------------------------
(***************************************************************************)
(* What the benchmark claims it has measured, and what it takes back, for  *)
(* every list of concurrencies, number of prompts, workers and servers.    *)
(*                                                                         *)
(* IInv has a half for the load generator (where its requests, pool and    *)
(* slow_down are) and one for the script.  The halves meet in Clients: a   *)
(* process runs in two steps of the script only, with the arguments that   *)
(* the turn gives it, and the script goes on only after it succeeded; so   *)
(* the results of the turns behind (Results) are never those of a warm-up. *)
(***************************************************************************)
EXTENDS SaBench, FunctionTheorems, FiniteSetTheorems, TLAPS

-----------------------------------------------------------------------------
(* The invariant of the client                                             *)

TaskStates == {"waiting", "inflight", "ok", "failed", "raised", "cancelled"}
Starting == {"load", "test", "enable"}
Sending == {"issue", "gather", "interrupted", "drain", "ending"}
Closing == {"lift", "close", "measure", "write", "writing"}
Servers == Range(SlowServers)

\* s is the end of t.
Remains(s, t) == /\ Len(s) <= Len(t)
                 /\ \A i \in 1..Len(s) : s[i] = t[(Len(t) - Len(s)) + i]

ClientShape ==
    /\ phase \in {"gone"} \cup Starting \cup Sending \cup Closing
    /\ exit \in {"none", "ok", "error"}
    /\ run \in Arguments
    /\ total \in 0..run.prompts
    /\ tasks \in Seq(TaskStates) /\ Len(tasks) <= total
    /\ slots \in Int /\ slots + Cardinality(InFlight) = run.c
    /\ cancelling \subseteq DOMAIN tasks
    /\ session \in {"none", "open", "closed"}
    /\ lifter \in {"none", "sleeping", "posting", "done", "raised", "cancelled"}
    /\ todo \in Seq(Servers) /\ Remains(todo, SlowServers)
    /\ slowed \subseteq Servers
    /\ lost \in BOOLEAN

\* How far the requests are, and that a pool is closed after them.
Requests ==
    /\ Live => exit = "none"
    /\ phase \in Starting => tasks = <<>>
    /\ Live /\ phase # "load" => total > 0
    /\ phase = "issue" /\ run.rate = "inf" => tasks = <<>>
    /\ phase \in {"gather"} \cup Closing => Len(tasks) = total
    /\ phase \in Closing => NotDone = {}
    /\ session = "closed" => NotDone = {} /\ phase \in {"gone", "ending", "measure", "write", "writing"}

\* Which servers may be slowed down while every POST was answered.
SlowDown ==
    /\ phase \in Starting => lifter = "none"
    /\ phase \in Closing => lifter \notin {"sleeping", "posting"}
    /\ lifter = "cancelled" => phase \in Closing \cup {"gone"}
    /\ phase = "lift" => lifter = "cancelled"
    /\ lifter = "raised" => lost
    /\ ~lost =>
         /\ phase \in {"load", "test"} => slowed = {}
         /\ phase \in Sending /\ lifter \in {"none", "done"} => slowed = {}
         /\ phase \in Sending /\ lifter = "posting" => slowed \subseteq Range(todo)
         /\ phase = "lift" => slowed \subseteq Range(todo)
         /\ phase \in Closing \ {"lift"} => slowed = {}
         /\ phase = "gone" /\ exit # "error" => slowed = {}

ClientInv == ClientShape /\ Requests /\ SlowDown

\* Nothing of a process is left on its loop.
Quiet == cancelling = {} /\ lifter = "none" /\ todo = <<>>

-----------------------------------------------------------------------------
(* The invariant of the script                                             *)

Steps == {"deps", "profile", "turn", "warmup", "scrape", "formal", "measured", "unscrape",
          "unprofile", "trap", "cleanup", "over"}
Snapshots == {"baseline", "tick", "final"}

ScriptShape ==
    /\ job \in Jobs /\ at \in Turns
    /\ step \in Steps /\ code \in {"none", "ok", "error", "killed"}
    /\ step = "over" <=> code # "none"
    /\ scraping \in BOOLEAN /\ target \in {0} \cup Concurrencies(job)
    /\ pending \in Seq(Nat) /\ Remains(pending, job.workers)
    /\ started \in BOOLEAN
    /\ profiled \subseteq Range(job.workers) /\ deaf \subseteq Range(job.workers)
    /\ DOMAIN results = Concurrencies(job) /\ traces \subseteq Concurrencies(job)
    /\ results = [c \in Concurrencies(job) |-> results[c]]
    /\ index \in [Concurrencies(job) -> Seq(Snapshots)]

\* Whose process the client is, and that the script goes on only after a success.
Clients ==
    /\ Live => step \in {"warmup", "measured"}
    /\ step = "warmup" => run = WarmupArguments
    /\ step = "measured" => run = FormalArguments
    /\ ~Live /\ step # "over" => Quiet
    /\ step \in {"deps", "profile", "turn", "scrape", "formal", "unscrape"} => exit # "error"

Scrapes ==
    /\ scraping => target # 0 /\ step # "over"
    /\ target # 0 => step \in {"formal", "measured", "unscrape", "trap"} \/ code = "killed"
    /\ target # 0 => index[target] # <<>> /\ Last(index[target]) # "final"
    /\ \A c \in Concurrencies(job) : c # target /\ index[c] # <<>> => Last(index[c]) = "final"
    /\ \A c \in Concurrencies(job) : \A k \in 1..(Len(index[c]) - 1) :
          index[c][k] = "final" <=> index[c][k + 1] = "baseline"

Profilers ==
    /\ step \in {"deps", "profile"} => ~started
    /\ step = "profile" /\ job.profile = "other frontend" => profiled = {}
    /\ step \notin {"profile", "over"} /\ ~started => profiled = {}
    /\ step \in {"unprofile", "cleanup"} => profiled \subseteq Range(pending) \cup deaf
    /\ code \in {"ok", "error"} => profiled \subseteq deaf

\* A result of a measured run with this concurrency.
Good(c) ==
    LET r == results[c] IN
    /\ r.state = "complete" /\ r.run \in Turns /\ job.concurrencies[r.run] = c
    /\ r.completed <= r.outputs /\ r.outputs > 0

Kept(k) ==
    LET c == job.concurrencies[k] IN
    /\ Good(c) /\ results[c].run >= k
    /\ job.trace => c \in traces

\* The turns whose run is over.
Behind == IF step \in {"unscrape", "unprofile"} \/ code = "ok" THEN at ELSE at - 1

Results ==
    /\ \A c \in Concurrencies(job) : results[c] \in {NoFile, Truncated} \/ Good(c)
    /\ step \notin {"trap", "cleanup"} /\ code \in {"none", "ok"} =>
         \A k \in 1..Behind :
            (step = "measured" => job.concurrencies[k] # Concurrency) => Kept(k)
    /\ phase \in {"write", "writing"} =>
         step = "measured" /\ (run.trace => run.c \in traces)
    /\ step = "measured" /\ exit = "ok" => Kept(at) /\ results[Concurrency].run = at
    /\ step = "unprofile" \/ code = "ok" => at = Len(job.concurrencies)
    /\ rollup # NotRun => step = "over" /\ rollup = Runs

ScriptInv == ScriptShape /\ Clients /\ Scrapes /\ Profilers /\ Results

IInv == ClientInv /\ ScriptInv

-----------------------------------------------------------------------------
(* Sequences                                                               *)

LEMMA SuffixIs ==
  ASSUME NEW S, NEW s \in Seq(S), NEW t \in Seq(S), Remains(s, t)
  PROVE  IsSuffix(s, t)
<1> DEFINE m == Len(s)
           n == Len(t)
           rs == Reverse(s)
           rt == Reverse(t)
<1>1. m \in Nat /\ n \in Nat /\ m <= n
  BY DEF Remains
<1>2. /\ rs = [i \in 1..m |-> s[(m - i) + 1]]
      /\ rt = [i \in 1..n |-> t[(n - i) + 1]]
  BY DEF Reverse
<1>3. \A i \in 1..m : s[(m - i) + 1] = t[(n - i) + 1]
  <2> TAKE i \in 1..m
  <2>1. (m - i) + 1 \in 1..m /\ (n - m) + ((m - i) + 1) = (n - i) + 1
    BY <1>1
  <2> QED
    BY <2>1 DEF Remains
<1>4. \A i \in 1..m : rs[i] = rt[i]
  BY <1>1, <1>2, <1>3
<1>5. Len(rs) = m /\ Len(rt) = n /\ rs \in Seq(S) /\ rt \in Seq(S)
  <2>1. \A i \in 1..m : s[(m - i) + 1] \in S
    BY <1>1
  <2>2. \A i \in 1..n : t[(n - i) + 1] \in S
    BY <1>1
  <2> QED
    BY <1>1, <1>2, <2>1, <2>2
<1> HIDE DEF rs, rt, m, n
<1>6. SubSeq(rs, 1, m) = SubSeq(rt, 1, m)
  BY <1>1, <1>4, <1>5
<1> QED
  BY <1>1, <1>5, <1>6 DEF IsSuffix, IsPrefix, rs, rt

\* What remains of a sequence is all of it at first and gets shorter from the front.
LEMMA RemainsAll ==
  ASSUME NEW S, NEW t \in Seq(S)
  PROVE  Remains(t, t) /\ Remains(<<>>, t) /\ <<>> \in Seq(S)
BY DEF Remains

LEMMA RemainsTail ==
  ASSUME NEW S, NEW t \in Seq(S), NEW s \in Seq(S), Remains(s, t), s # <<>>
  PROVE  /\ Tail(s) \in Seq(S) /\ Remains(Tail(s), t)
         /\ Head(s) \in Range(s) /\ Head(s) \in Range(t) /\ Range(s) = {Head(s)} \cup Range(Tail(s))
<1>1. /\ Len(s) \in Nat /\ Len(t) \in Nat /\ Len(s) > 0 /\ Len(s) <= Len(t)
      /\ Tail(s) \in Seq(S) /\ Len(Tail(s)) = Len(s) - 1
      /\ \A i \in 1..(Len(s) - 1) : Tail(s)[i] = s[i + 1]
      /\ Head(s) = s[1] /\ DOMAIN s = 1..Len(s) /\ DOMAIN Tail(s) = 1..(Len(s) - 1)
      /\ DOMAIN t = 1..Len(t)
  BY DEF Remains
<1>2. \A i \in 1..(Len(s) - 1) : Tail(s)[i] = t[(Len(t) - (Len(s) - 1)) + i]
  <2> TAKE i \in 1..(Len(s) - 1)
  <2>1. i + 1 \in 1..Len(s) /\ (Len(t) - Len(s)) + (i + 1) = (Len(t) - (Len(s) - 1)) + i
    BY <1>1
  <2> QED
    BY <1>1, <2>1 DEF Remains
<1>3. Remains(Tail(s), t)
  BY <1>1, <1>2 DEF Remains
<1>4. Range(s) = {Head(s)} \cup Range(Tail(s))
  <2>1. \A i \in 1..Len(s) : i = 1 \/ (i - 1 \in 1..(Len(s) - 1) /\ s[i] = Tail(s)[i - 1])
    BY <1>1
  <2>2. \A i \in 1..(Len(s) - 1) : i + 1 \in 1..Len(s)
    BY <1>1
  <2>3. Range(s) \subseteq {Head(s)} \cup Range(Tail(s))
    <3> SUFFICES ASSUME NEW i \in 1..Len(s)
                 PROVE  s[i] \in {Head(s)} \cup Range(Tail(s))
      BY <1>1 DEF Range
    <3>1. CASE i = 1
      BY <1>1, <3>1
    <3>2. CASE i - 1 \in 1..(Len(s) - 1) /\ s[i] = Tail(s)[i - 1]
      BY <1>1, <3>2 DEF Range
    <3> QED
      BY <2>1, <3>1, <3>2
  <2>4. \A i \in 1..(Len(s) - 1) : Tail(s)[i] \in Range(s)
    BY <1>1, <2>2 DEF Range
  <2>5. Range(Tail(s)) \subseteq Range(s) /\ Head(s) \in Range(s)
    BY <1>1, <2>4 DEF Range
  <2> QED
    BY <2>3, <2>5
<1>5. 1 \in 1..Len(s) /\ (Len(t) - Len(s)) + 1 \in 1..Len(t) /\ s[1] = t[(Len(t) - Len(s)) + 1]
  BY <1>1 DEF Remains
<1> QED
  BY <1>1, <1>3, <1>4, <1>5 DEF Range

\* Appending to a sequence keeps what is in it.
LEMMA Appended ==
  ASSUME NEW S, NEW s \in Seq(S), NEW x \in S
  PROVE  /\ Append(s, x) \in Seq(S) /\ Len(Append(s, x)) = Len(s) + 1 /\ Append(s, x) # <<>>
         /\ \A i \in 1..Len(s) : Append(s, x)[i] = s[i]
         /\ Append(s, x)[Len(s) + 1] = x /\ Last(Append(s, x)) = x
<1>1. Append(s, x) \in Seq(S) /\ Len(Append(s, x)) = Len(s) + 1
  OBVIOUS
<1> QED
  BY <1>1 DEF Last

-----------------------------------------------------------------------------
(* The tasks                                                               *)

LEMMA SlowServersAre ==
  /\ SlowServers \in Seq(Servers) /\ SlowServers # <<>>
  /\ Remains(SlowServers, SlowServers) /\ Remains(<<>>, SlowServers) /\ <<>> \in Seq(Servers)
BY SlowServersAssumption, RemainsAll DEF Servers

LEMMA TasksFinite ==
  ASSUME tasks \in Seq(TaskStates)
  PROVE  /\ DOMAIN tasks = 1..Len(tasks) /\ Len(tasks) \in Nat
         /\ \A T \in SUBSET DOMAIN tasks : /\ IsFiniteSet(T) /\ Cardinality(T) \in Nat
                                          /\ Cardinality(T) <= Len(tasks)
<1>1. DOMAIN tasks = 1..Len(tasks) /\ Len(tasks) \in Nat
  OBVIOUS
<1>2. IsFiniteSet(1..Len(tasks)) /\ Cardinality(1..Len(tasks)) = Len(tasks)
  BY <1>1, FS_Interval
<1>3. \A T \in SUBSET DOMAIN tasks : IsFiniteSet(T) /\ Cardinality(T) <= Len(tasks)
  BY <1>1, <1>2, FS_Subset
<1> QED
  BY <1>1, <1>3, FS_CardinalityType

\* One task changes: a place is taken when it begins and free again when it ends.
LEMMA TaskChanges ==
  ASSUME tasks \in Seq(TaskStates), NEW i \in DOMAIN tasks, NEW how \in TaskStates,
         tasks' = [tasks EXCEPT ![i] = how]
  PROVE  /\ tasks' \in Seq(TaskStates) /\ Len(tasks') = Len(tasks) /\ DOMAIN tasks' = DOMAIN tasks
         /\ tasks'[i] = how /\ \A k \in DOMAIN tasks : k # i => tasks'[k] = tasks[k]
         /\ Cardinality(InFlight) \in Nat
         /\ tasks[i] = "inflight" /\ how # "inflight" => Cardinality(InFlight') = Cardinality(InFlight) - 1
         /\ tasks[i] # "inflight" /\ how = "inflight" => Cardinality(InFlight') = Cardinality(InFlight) + 1
         /\ tasks[i] # "inflight" /\ how # "inflight" => InFlight' = InFlight
<1>1. /\ tasks' \in Seq(TaskStates) /\ Len(tasks') = Len(tasks) /\ DOMAIN tasks' = DOMAIN tasks
      /\ tasks'[i] = how /\ \A k \in DOMAIN tasks : k # i => tasks'[k] = tasks[k]
  OBVIOUS
<1>2. IsFiniteSet(InFlight) /\ Cardinality(InFlight) \in Nat
  BY TasksFinite DEF InFlight
<1>3. InFlight' = IF how = "inflight" THEN InFlight \cup {i} ELSE InFlight \ {i}
  BY <1>1 DEF InFlight
<1>4. i \in InFlight <=> tasks[i] = "inflight"
  BY DEF InFlight
<1>5. Cardinality(InFlight \ {i}) = IF i \in InFlight THEN Cardinality(InFlight) - 1 ELSE Cardinality(InFlight)
  BY <1>2, FS_RemoveElement
<1>6. Cardinality(InFlight \cup {i}) = IF i \in InFlight THEN Cardinality(InFlight) ELSE Cardinality(InFlight) + 1
  BY <1>2, FS_AddElement
<1> QED
  BY <1>1, <1>2, <1>3, <1>4, <1>5, <1>6

\* A step that leaves the requests alone.
LEMMA SameRequests ==
  ASSUME ClientShape, UNCHANGED <<run, total, tasks, slots>>,
         phase' \in {"gone"} \cup Starting \cup Sending \cup Closing,
         exit' \in {"none", "ok", "error"}, cancelling' \subseteq DOMAIN tasks,
         session' \in {"none", "open", "closed"},
         lifter' \in {"none", "sleeping", "posting", "done", "raised", "cancelled"},
         todo' \in Seq(Servers), Remains(todo', SlowServers),
         slowed' \subseteq Servers, lost' \in BOOLEAN
  PROVE  ClientShape' /\ NotDone' = NotDone
<1>1. InFlight' = InFlight /\ NotDone' = NotDone
  BY DEF InFlight, NotDone, Over
<1> QED
  BY <1>1 DEF ClientShape

-----------------------------------------------------------------------------
(* Steps of the client                                                     *)

LEMMA ExitsIs ==
  ASSUME NEW how \in {"ok", "error"}, Exits(how)
  PROVE  /\ phase' = "gone" /\ exit' = how /\ lifter' = "none" /\ todo' = <<>> /\ cancelling' = {}
         /\ todo' \in Seq(Servers) /\ Remains(todo', SlowServers)
BY SlowServersAre DEF Exits

\* The process ends with an error; the pool, where there is one, is closed first.
LEMMA ErrorKeeps ==
  ASSUME ClientInv, Live, Exits("error"), session' = session \/ CloseSession,
         session' = "closed" => NotDone = {},
         UNCHANGED <<run, total, tasks, slots>>, slowed' \subseteq Servers, lost' \in BOOLEAN
  PROVE  ClientInv'
<1>1. /\ phase' = "gone" /\ exit' = "error" /\ lifter' = "none" /\ todo' = <<>> /\ cancelling' = {}
      /\ todo' \in Seq(Servers) /\ Remains(todo', SlowServers)
  BY ExitsIs
<1>2. session' \in {"none", "open", "closed"}
  BY DEF ClientInv, ClientShape, CloseSession
<1>3. ClientShape' /\ NotDone' = NotDone
  BY <1>1, <1>2, SameRequests DEF ClientInv
<1>4. Requests'
  BY <1>1, <1>3 DEF Requests, Live, Starting, Closing
<1>5. SlowDown'
  BY <1>1 DEF SlowDown, Starting, Closing, Sending
<1> QED
  BY <1>3, <1>4, <1>5 DEF ClientInv

LEMMA BeforeRequestsKeep ==
  ASSUME ClientInv, Load \/ LoadRaises \/ TestSucceeds \/ TestFails
  PROVE  ClientInv'
<1>0. ClientShape /\ Requests /\ SlowDown
  BY DEF ClientInv
<1>1. CASE Load
  <2>1. PICK n \in SampleSizes(run.dataset, run.prompts) : n > 0 /\ total' = n
    BY <1>1 DEF Load
  <2>2. n \in 0..run.prompts
    BY <1>0, <2>1 DEF ClientShape, Arguments, Datasets, SampleSizes, RandomSample, BurstgptSample,
                      SonnetSample, SharegptSample, HfSample, CustomSample
  <2>3. /\ phase = "load" /\ phase' = "test" /\ tasks = <<>> /\ lifter = "none"
        /\ session' \in {"none", "open"}
        /\ UNCHANGED <<exit, run, tasks, slots, cancelling, lifter, todo, slowed, lost>>
    BY <1>0, <1>1 DEF Load, Requests, SlowDown, Starting
  <2>4. InFlight' = InFlight /\ Len(tasks) = 0
    BY <2>3 DEF InFlight
  <2>5. ClientShape'
    BY <1>0, <2>1, <2>2, <2>3, <2>4 DEF ClientShape, Starting
  <2>6. Requests'
    BY <1>0, <2>1, <2>2, <2>3 DEF Requests, Live, Starting, Closing
  <2>7. SlowDown'
    BY <1>0, <2>3 DEF SlowDown, Starting, Closing, Sending
  <2> QED
    BY <2>5, <2>6, <2>7 DEF ClientInv
<1>2. CASE LoadRaises
  <2>1. session # "closed"
    BY <1>0, <1>2 DEF LoadRaises, Requests
  <2> QED
    BY <1>0, <1>2, <2>1, ErrorKeeps DEF LoadRaises, Live, ClientShape
<1>3. CASE TestSucceeds
  <2>1. /\ phase = "test" /\ lifter = "none" /\ tasks = <<>> /\ session # "closed"
        /\ phase' = (IF run.slow_down THEN "enable" ELSE "issue")
        /\ todo' = (IF run.slow_down THEN SlowServers ELSE todo)
        /\ UNCHANGED <<exit, run, total, tasks, slots, cancelling, session, lifter, slowed, lost>>
    BY <1>0, <1>3 DEF TestSucceeds, Requests, SlowDown, Starting
  <2>2. ClientShape' /\ NotDone' = NotDone
    BY <1>0, <2>1, SameRequests, SlowServersAre DEF ClientShape, Starting, Sending
  <2>3. Requests'
    BY <1>0, <2>1, <2>2 DEF Requests, Live, Starting, Closing
  <2>4. SlowDown'
    BY <1>0, <2>1 DEF SlowDown, Starting, Closing, Sending
  <2> QED
    BY <2>2, <2>3, <2>4 DEF ClientInv
<1>4. CASE TestFails
  <2>1. /\ NotDone = {} /\ phase = "test"
    BY <1>0, <1>4 DEF TestFails, Requests, Starting, NotDone
  <2> QED
    BY <1>0, <1>4, <2>1, ErrorKeeps DEF TestFails, Live, ClientShape
<1> QED
  BY <1>1, <1>2, <1>3, <1>4

\* A POST was answered, or refused, which only loses it: the next server, or whatever waited.
LEMMA PostsKeep ==
  ASSUME ClientInv, PostAnswered \/ PostRefused
  PROVE  ClientInv'
<1>0. ClientShape /\ Requests /\ SlowDown
  BY DEF ClientInv
<1>1. /\ Posting /\ AfterPosts /\ todo' = Tail(todo) /\ todo # <<>> /\ Live
      /\ UNCHANGED <<exit, run, total, tasks, slots, cancelling, session>>
  BY DEF PostAnswered, PostRefused, Posting
<1>2. /\ Tail(todo) \in Seq(Servers) /\ Remains(Tail(todo), SlowServers)
      /\ Head(todo) \in Servers /\ Range(todo) = {Head(todo)} \cup Range(Tail(todo))
  BY <1>0, <1>1, RemainsTail, SlowServersAre DEF ClientShape, Servers
<1>3. /\ slowed' \subseteq Servers /\ lost' \in BOOLEAN
      /\ ~lost' => /\ ~lost
                   /\ phase # "enable" => slowed' = slowed \ {Head(todo)}
      /\ lost => lost'
  BY <1>0, <1>2 DEF PostAnswered, PostRefused, Applied, ClientShape
<1>4. /\ \/ phase = "enable" /\ lifter = "none" /\ tasks = <<>>
         \/ phase = "lift" /\ lifter = "cancelled"
         \/ phase \in Sending /\ lifter = "posting"
      /\ session = "closed" => phase = "ending"
  BY <1>0, <1>1 DEF Posting, MainPosts, LifterPosts, Requests, SlowDown, ClientShape, Starting,
                    Sending, Closing, Live
<1>5. \/ Tail(todo) # <<>> /\ UNCHANGED <<phase, lifter>>
      \/ Tail(todo) = <<>> /\ phase = "enable" /\ phase' = "issue" /\ lifter' = "sleeping"
      \/ Tail(todo) = <<>> /\ phase = "lift" /\ phase' = "close" /\ UNCHANGED lifter
      \/ Tail(todo) = <<>> /\ phase \in Sending /\ UNCHANGED phase /\ lifter' = "done"
  BY <1>1, <1>4 DEF AfterPosts, Sending
<1>6. ClientShape' /\ NotDone' = NotDone
  <2>1. /\ phase' \in {"gone"} \cup Starting \cup Sending \cup Closing
        /\ lifter' \in {"none", "sleeping", "posting", "done", "raised", "cancelled"}
    BY <1>0, <1>5 DEF ClientShape, Sending, Closing
  <2> QED
    BY <1>0, <1>1, <1>2, <1>3, <2>1, SameRequests DEF ClientShape
<1>7. Requests'
  BY <1>0, <1>1, <1>4, <1>5, <1>6 DEF Requests, Live, Starting, Sending, Closing
<1>8. SlowDown'
  <2>1. Tail(todo) = <<>> => Range(Tail(todo)) = {}
    BY DEF Range
  <2>2. ~lost' /\ phase # "enable" => slowed' \subseteq Range(Tail(todo))
    BY <1>0, <1>2, <1>3, <1>4 DEF SlowDown
  <2> QED
    BY <1>0, <1>1, <1>3, <1>4, <1>5, <2>1, <2>2 DEF SlowDown, Starting, Sending, Closing
<1> QED
  BY <1>6, <1>7, <1>8 DEF ClientInv

LEMMA LifterKeeps ==
  ASSUME ClientInv, PostHangs \/ LifterWakes
  PROVE  ClientInv'
<1>0. ClientShape /\ Requests /\ SlowDown
  BY DEF ClientInv
<1>1. CASE PostHangs
  <2>1. Head(todo) \in Servers /\ todo # <<>> /\ Live
    BY <1>0, <1>1, RemainsTail, SlowServersAre DEF ClientShape, Servers, PostHangs, Posting
  <2>2. slowed' \subseteq Servers /\ lost' = TRUE
    BY <1>0, <1>1, <2>1 DEF PostHangs, Applied, ClientShape
  <2>3. CASE MainPosts
    <3>1. NotDone = {}
      BY <1>0, <2>3 DEF MainPosts, Requests, Starting, Closing, NotDone
    <3> QED
      BY <1>0, <1>1, <2>1, <2>2, <2>3, <3>1, ErrorKeeps DEF PostHangs
  <2>4. CASE ~MainPosts
    <3>1. /\ lifter = "posting" /\ lifter' = "raised" /\ todo' = <<>>
          /\ UNCHANGED <<phase, exit, cancelling, session, run, total, tasks, slots>>
      BY <1>1, <2>4 DEF PostHangs, Posting, LifterPosts
    <3>2. ClientShape' /\ NotDone' = NotDone
      BY <1>0, <2>2, <3>1, SameRequests, SlowServersAre DEF ClientShape
    <3>3. Requests'
      BY <1>0, <3>1, <3>2 DEF Requests, Live
    <3>4. SlowDown'
      BY <1>0, <2>2, <3>1 DEF SlowDown, Starting, Sending, Closing
    <3> QED
      BY <3>2, <3>3, <3>4 DEF ClientInv
  <2> QED
    BY <2>3, <2>4
<1>2. CASE LifterWakes
  <2>1. /\ Live /\ lifter = "sleeping" /\ lifter' = "posting" /\ todo' = SlowServers
        /\ UNCHANGED <<phase, exit, cancelling, session, run, total, tasks, slots, slowed, lost>>
    BY <1>2 DEF LifterWakes
  <2>2. ClientShape' /\ NotDone' = NotDone
    BY <1>0, <2>1, SameRequests, SlowServersAre DEF ClientShape
  <2>3. Requests'
    BY <1>0, <2>1, <2>2 DEF Requests, Live
  <2>4. slowed \subseteq Range(SlowServers)
    BY <1>0 DEF ClientShape, Servers
  <2>5. SlowDown'
    BY <1>0, <2>1, <2>4 DEF SlowDown, Live
  <2> QED
    BY <2>2, <2>3, <2>5 DEF ClientInv
<1> QED
  BY <1>1, <1>2

\* The requests are created; none of them is in flight yet.
LEMMA IssueKeeps ==
  ASSUME ClientInv, IssueAll \/ IssueNext
  PROVE  ClientInv'
<1>0. ClientShape /\ Requests /\ SlowDown
  BY DEF ClientInv
<1>1. /\ phase = "issue" /\ phase' \in {"issue", "gather"}
      /\ UNCHANGED <<exit, run, total, slots, cancelling, session, lifter, todo, slowed, lost>>
      /\ total \in Nat /\ total > 0 /\ session # "closed" /\ exit = "none"
  BY <1>0 DEF IssueAll, IssueNext, Requests, ClientShape, Arguments, Live
<1>2. /\ tasks' \in Seq(TaskStates) /\ Len(tasks') <= total /\ DOMAIN tasks \subseteq DOMAIN tasks'
      /\ InFlight' = InFlight
      /\ phase' = "gather" => Len(tasks') = total
      /\ phase' = "issue" /\ run.rate = "inf" => tasks' = <<>>
  <2>1. CASE IssueAll
    <3>1. tasks = <<>> /\ tasks' = [i \in 1..total |-> "waiting"] /\ phase' = "gather"
      BY <1>0, <2>1 DEF IssueAll, Requests
    <3>2. tasks' \in Seq(TaskStates) /\ Len(tasks') = total
      BY <1>1, <3>1 DEF TaskStates
    <3>3. InFlight' = {} /\ InFlight = {} /\ DOMAIN tasks = {}
      BY <1>1, <3>1 DEF InFlight
    <3> QED
      BY <1>1, <3>1, <3>2, <3>3
  <2>2. CASE IssueNext /\ Len(tasks) < total
    <3>1. tasks' = Append(tasks, "waiting") /\ phase' = "issue" /\ run.rate = "finite"
      BY <1>1, <2>2 DEF IssueNext
    <3>2. "waiting" \in TaskStates /\ tasks \in Seq(TaskStates)
      BY <1>0 DEF TaskStates, ClientShape
    <3>3. /\ tasks' \in Seq(TaskStates) /\ Len(tasks') = Len(tasks) + 1
          /\ \A i \in 1..Len(tasks) : tasks'[i] = tasks[i]
          /\ tasks'[Len(tasks) + 1] = "waiting"
      BY <3>1, <3>2, Appended
    <3>4. DOMAIN tasks = 1..Len(tasks) /\ DOMAIN tasks' = 1..(Len(tasks) + 1) /\ Len(tasks) \in Nat
      BY <3>2, <3>3
    <3>5. InFlight' = InFlight
      BY <3>3, <3>4 DEF InFlight
    <3> QED
      BY <1>1, <2>2, <3>1, <3>3, <3>4, <3>5
  <2>3. CASE IssueNext /\ ~(Len(tasks) < total)
    <3>1. tasks' = tasks /\ phase' = "gather" /\ Len(tasks) = total
      BY <1>0, <1>1, <2>3 DEF IssueNext, ClientShape
    <3> QED
      BY <1>0, <3>1 DEF InFlight, ClientShape
  <2> QED
    BY <2>1, <2>2, <2>3
<1>3. ClientShape'
  BY <1>0, <1>1, <1>2 DEF ClientShape, Sending
<1>4. Requests'
  BY <1>0, <1>1, <1>2 DEF Requests, Live, Starting, Closing
<1>5. SlowDown'
  BY <1>0, <1>1 DEF SlowDown, Starting, Sending, Closing
<1> QED
  BY <1>3, <1>4, <1>5 DEF ClientInv

\* A request begins or ends; none that was over begins again.
LEMMA RequestKeeps ==
  ASSUME ClientInv, NEW i \in DOMAIN tasks, Begin(i) \/ Answer(i) \/ Raise(i) \/ Cancelled(i)
  PROVE  ClientInv'
<1>0. ClientShape /\ Requests /\ SlowDown
  BY DEF ClientInv
<1>1. PICK how \in TaskStates :
        /\ tasks' = [tasks EXCEPT ![i] = how]
        /\ slots' = IF how = "inflight" THEN slots - 1
                    ELSE IF tasks[i] = "inflight" THEN slots + 1 ELSE slots
        /\ how = "inflight" => tasks[i] = "waiting"
        /\ how # "waiting"
  BY DEF Begin, Answer, Raise, Cancelled, Ends, TaskStates
<1>2. /\ Live /\ cancelling' \subseteq cancelling
      /\ UNCHANGED <<phase, exit, run, total, session, lifter, todo, slowed, lost>>
  BY DEF Begin, Answer, Raise, Cancelled
<1>3. /\ tasks \in Seq(TaskStates) /\ slots \in Int /\ slots + Cardinality(InFlight) = run.c
      /\ cancelling \subseteq DOMAIN tasks /\ Len(tasks) <= total
  BY <1>0 DEF ClientShape
<1>4. /\ tasks' \in Seq(TaskStates) /\ Len(tasks') = Len(tasks) /\ DOMAIN tasks' = DOMAIN tasks
      /\ tasks'[i] = how /\ \A k \in DOMAIN tasks : k # i => tasks'[k] = tasks[k]
      /\ Cardinality(InFlight) \in Nat
      /\ tasks[i] = "inflight" /\ how # "inflight" => Cardinality(InFlight') = Cardinality(InFlight) - 1
      /\ tasks[i] # "inflight" /\ how = "inflight" => Cardinality(InFlight') = Cardinality(InFlight) + 1
      /\ tasks[i] # "inflight" /\ how # "inflight" => InFlight' = InFlight
  BY <1>1, <1>3, TaskChanges
<1>5. slots' \in Int /\ slots' + Cardinality(InFlight') = run.c
  BY <1>1, <1>3, <1>4
<1>6. ClientShape'
  BY <1>0, <1>2, <1>3, <1>4, <1>5 DEF ClientShape
<1>7. NotDone = {} => NotDone' = {}
  <2>1. i \in NotDone \/ how # "inflight"
    BY <1>1 DEF NotDone, Over
  <2> QED
    BY <1>1, <1>4, <2>1 DEF NotDone, Over, TaskStates
<1>8. tasks # <<>>
  BY <1>3
<1>9. Requests'
  BY <1>0, <1>2, <1>4, <1>7, <1>8 DEF Requests, Live
<1>10. SlowDown'
  BY <1>0, <1>2 DEF SlowDown
<1> QED
  BY <1>6, <1>9, <1>10 DEF ClientInv

\* A step between two phases of the requests, the slow_down untouched.
LEMMA OnwardKeeps ==
  ASSUME ClientInv, phase \in Sending, session' = session \/ (NotDone = {} /\ CloseSession),
         phase' \in {"interrupted", "drain", "ending"}, session' = "closed" => phase' = "ending",
         cancelling' \subseteq NotDone \cup cancelling,
         UNCHANGED <<exit, run, total, tasks, slots, lifter, todo, slowed, lost>>
  PROVE  ClientInv'
<1>0. ClientShape /\ Requests /\ SlowDown
  BY DEF ClientInv
<1>1. cancelling' \subseteq DOMAIN tasks /\ session' \in {"none", "open", "closed"}
  BY <1>0 DEF ClientShape, NotDone, CloseSession
<1>2. ClientShape' /\ NotDone' = NotDone
  BY <1>0, <1>1, SameRequests DEF ClientShape, Sending
<1>3. Requests'
  BY <1>0, <1>2 DEF Requests, Live, Starting, Sending, Closing
<1>4. SlowDown'
  BY <1>0 DEF SlowDown, Starting, Sending, Closing
<1> QED
  BY <1>2, <1>3, <1>4 DEF ClientInv

LEMMA UnwindKeeps ==
  ASSUME ClientInv, GatherRaises \/ InterruptIssue \/ InterruptGather \/ InterruptedGather \/ Drained
  PROVE  ClientInv'
<1>1. (phase \in {"issue", "gather", "interrupted", "drain"} /\ session # "closed") \/ Drained
  BY DEF GatherRaises, InterruptIssue, InterruptGather, InterruptedGather, ClientInv, Requests
<1>2. CASE ~Drained
  <2>1. /\ phase' \in {"interrupted", "drain", "ending"} /\ session' = session /\ cancelling' = NotDone
        /\ UNCHANGED <<exit, run, total, tasks, slots, lifter, todo, slowed, lost>>
    BY <1>2 DEF GatherRaises, InterruptIssue, InterruptGather, InterruptedGather, Unwind
  <2> QED
    BY <1>1, <1>2, <2>1, OnwardKeeps DEF Sending
<1>3. CASE Drained
  BY <1>3, OnwardKeeps DEF Drained, Sending
<1> QED
  BY <1>2, <1>3

LEMMA EndsKeep ==
  ASSUME ClientInv, Ended \/ InterruptElsewhere
  PROVE  ClientInv'
<1>1. /\ Live /\ Exits("error") /\ NotDone = {} /\ (session' = session \/ CloseSession)
      /\ UNCHANGED <<run, total, tasks, slots, slowed, lost>>
  BY DEF Ended, InterruptElsewhere, Live, ClientInv, Requests, Starting, Closing, NotDone
<1> QED
  BY <1>1, ErrorKeeps DEF ClientInv, ClientShape

\* All the requests are over: the lifter is cut short, and the servers are freed at once.
LEMMA GatheredKeeps ==
  ASSUME ClientInv, Gathered
  PROVE  ClientInv'
<1>0. ClientShape /\ Requests /\ SlowDown
  BY DEF ClientInv
<1>1. /\ phase = "gather" /\ NotDone = {} /\ phase' \in {"lift", "close"}
      /\ UNCHANGED <<exit, run, total, tasks, slots, cancelling, session, slowed, lost>>
      /\ lifter \in {"sleeping", "posting"} =>
            phase' = "lift" /\ lifter' = "cancelled" /\ todo' = SlowServers
      /\ lifter \notin {"sleeping", "posting"} => phase' = "close" /\ UNCHANGED <<lifter, todo>>
  BY DEF Gathered
<1>2. ClientShape' /\ NotDone' = NotDone
  BY <1>0, <1>1, SameRequests, SlowServersAre DEF ClientShape, Closing
<1>3. Requests'
  BY <1>0, <1>1, <1>2 DEF Requests, Live, Starting, Closing
<1>4. SlowDown'
  <2>1. slowed \subseteq Range(SlowServers)
    BY <1>0 DEF ClientShape, Servers
  <2>2. lifter # "cancelled" /\ (lifter = "raised" => lost)
        /\ (~lost /\ lifter \in {"none", "done"} => slowed = {})
    BY <1>0, <1>1 DEF SlowDown, Sending, Closing
  <2>3. lifter \in {"none", "sleeping", "posting", "done", "raised"}
    BY <1>0, <2>2 DEF ClientShape
  <2> QED
    BY <1>1, <2>1, <2>2, <2>3 DEF SlowDown, Starting, Sending, Closing
<1> QED
  BY <1>2, <1>3, <1>4 DEF ClientInv

LEMMA ResultKeeps ==
  ASSUME ClientInv, CloseBeforeMetrics \/ Measure \/ OpenResult \/ WriteResult
  PROVE  /\ ClientInv'
         /\ ~Live' => exit' = "ok" /\ Quiet'
<1>0. ClientShape /\ Requests /\ SlowDown
  BY DEF ClientInv
<1>1. /\ phase \in Closing \ {"lift"} /\ Live /\ NotDone = {}
      /\ lifter \notin {"sleeping", "posting"} /\ (~lost => slowed = {})
      /\ UNCHANGED <<run, total, tasks, slots, slowed, lost>>
      /\ session' = session \/ CloseSession
      /\ session' = "closed" => phase' \in {"gone", "measure", "write", "writing"}
  <2>1. /\ phase \in {"close", "measure", "write", "writing"}
        /\ UNCHANGED <<run, total, tasks, slots, slowed, lost>>
        /\ session' = session \/ (CloseSession /\ phase' = "measure")
        /\ phase # "close" => phase' \in {"gone", "write", "writing"}
    BY DEF CloseBeforeMetrics, Measure, OpenResult, WriteResult, Exits
  <2>2. phase \in Closing /\ phase # "lift" /\ Live
    BY <2>1 DEF Closing, Live
  <2>3. /\ NotDone = {} /\ lifter \notin {"sleeping", "posting"} /\ (~lost => slowed = {})
        /\ session = "closed" => phase # "close"
    BY <1>0, <2>2 DEF Requests, SlowDown
  <2> QED
    BY <2>1, <2>2, <2>3
<1>2. \/ phase' \in {"measure", "write", "writing"} /\ UNCHANGED <<exit, cancelling, lifter, todo>>
      \/ Exits("ok")
  BY DEF CloseBeforeMetrics, Measure, OpenResult, WriteResult
<1>3. session' \in {"none", "open", "closed"}
  BY <1>0, <1>1 DEF ClientShape, CloseSession
<1>4. CASE Exits("ok")
  <2>1. /\ phase' = "gone" /\ exit' = "ok" /\ lifter' = "none" /\ todo' = <<>> /\ cancelling' = {}
        /\ todo' \in Seq(Servers) /\ Remains(todo', SlowServers)
    BY <1>4, ExitsIs
  <2>2. ClientShape' /\ NotDone' = NotDone
    BY <1>0, <1>1, <1>3, <2>1, SameRequests DEF ClientShape
  <2>3. Requests'
    BY <1>1, <2>1, <2>2 DEF Requests, Live, Starting, Closing
  <2>4. SlowDown'
    BY <1>1, <2>1 DEF SlowDown, Starting, Sending, Closing
  <2> QED
    BY <2>1, <2>2, <2>3, <2>4 DEF ClientInv, Quiet
<1>5. CASE phase' \in {"measure", "write", "writing"} /\ UNCHANGED <<exit, cancelling, lifter, todo>>
  <2>1. ClientShape' /\ NotDone' = NotDone
    BY <1>0, <1>1, <1>3, <1>5, SameRequests DEF ClientShape, Closing
  <2>2. Requests'
    BY <1>0, <1>1, <1>5, <2>1 DEF Requests, Live, Starting, Closing
  <2>3. SlowDown'
    BY <1>0, <1>1, <1>5 DEF SlowDown, Starting, Sending, Closing
  <2> QED
    BY <1>5, <2>1, <2>2, <2>3 DEF ClientInv, Live
<1> QED
  BY <1>2, <1>4, <1>5

\* A new process, after none or one that succeeded.
LEMMA StartKeeps ==
  ASSUME ClientInv, Quiet, exit # "error", NEW args \in Arguments, StartClient(args)
  PROVE  ClientInv'
<1>0. ClientShape /\ Requests /\ SlowDown
  BY DEF ClientInv
<1>1. /\ phase = "gone" /\ phase' = "load" /\ exit' = "none" /\ run' = args
      /\ total' = 0 /\ tasks' = <<>> /\ slots' = args.c /\ session' = "none"
      /\ cancelling' = {} /\ lifter' = "none" /\ todo' = <<>>
      /\ UNCHANGED <<slowed, lost>>
  BY DEF StartClient, Quiet
<1>2. args.c \in Nat /\ args.prompts \in Nat
  BY DEF Arguments
<1>3. InFlight' = {} /\ NotDone' = {} /\ tasks' \in Seq(TaskStates) /\ Len(tasks') = 0
  BY <1>1 DEF InFlight, NotDone
<1>4. Cardinality(InFlight') = 0
  BY <1>3, FS_EmptySet
<1>5. ClientShape'
  BY <1>0, <1>1, <1>2, <1>3, <1>4, SlowServersAre DEF ClientShape, Starting
<1>6. Requests'
  BY <1>1 DEF Requests, Live, Starting, Closing
<1>7. SlowDown'
  BY <1>0, <1>1 DEF SlowDown, Starting, Sending, Closing
<1> QED
  BY <1>5, <1>6, <1>7 DEF ClientInv

LEMMA KillKeeps ==
  ASSUME ClientInv, Kill
  PROVE  ClientInv'
<1>0. ClientShape /\ Requests /\ SlowDown
  BY DEF ClientInv
<1>1. /\ phase' = "gone" /\ exit' = (IF Live THEN "error" ELSE exit)
      /\ UNCHANGED <<run, total, tasks, slots, cancelling, session, lifter, todo, slowed, lost>>
  BY DEF Kill
<1>2. ClientShape' /\ NotDone' = NotDone
  BY <1>0, <1>1, SameRequests DEF ClientShape
<1>3. Requests'
  BY <1>0, <1>1, <1>2 DEF Requests, Live, Starting, Closing
<1>4. SlowDown'
  BY <1>0, <1>1 DEF SlowDown, Live, Starting, Sending, Closing
<1> QED
  BY <1>2, <1>3, <1>4 DEF ClientInv

LEMMA ClientSame ==
  ASSUME ClientInv, UNCHANGED <<phase, exit, run, total, tasks, slots, cancelling, session, lifter,
                                todo, slowed, lost>>
  PROVE  ClientInv'
BY DEF ClientInv, ClientShape, Requests, SlowDown, Live, NotDone, Over, InFlight

\* Every step of the client keeps its invariant.
LEMMA ClientKeeps ==
  ASSUME ClientInv, ClientStep \/ Interrupt
  PROVE  ClientInv'
BY BeforeRequestsKeep, PostsKeep, LifterKeeps, IssueKeeps, RequestKeeps, UnwindKeeps, EndsKeep,
   GatheredKeeps, ResultKeeps DEF ClientStep, Interrupt

-----------------------------------------------------------------------------
(* The jobs                                                                *)

LEMMA JobIs ==
  ASSUME ScriptShape
  PROVE  /\ job.concurrencies \in Seq(Nat \ {0}) /\ Turns = 1..Len(job.concurrencies)
         /\ Len(job.concurrencies) \in Nat /\ at \in 1..Len(job.concurrencies)
         /\ Concurrency \in Nat \ {0} /\ Concurrency \in Concurrencies(job)
         /\ \A c \in Concurrencies(job) : c # 0
         /\ job.workers \in Seq(Nat) /\ Remains(job.workers, job.workers)
         /\ Remains(<<>>, job.workers) /\ <<>> \in Seq(Nat)
<1>1. job \in Job /\ at \in Turns
  BY JobsAssumption DEF ScriptShape
<1>2. job.concurrencies \in Seq(Nat \ {0}) /\ job.workers \in Seq(Nat)
  BY <1>1 DEF Job
<1>3. Turns = 1..Len(job.concurrencies) /\ Len(job.concurrencies) \in Nat
  BY <1>2 DEF Turns
<1>4. Concurrency \in Nat \ {0} /\ Concurrency \in Concurrencies(job)
  BY <1>1, <1>2, <1>3 DEF Concurrency, Concurrencies, Range
<1>5. \A c \in Concurrencies(job) : c # 0
  BY <1>2 DEF Concurrencies, Range
<1> QED
  BY <1>1, <1>2, <1>3, <1>4, <1>5, RemainsAll

\* What the script calls the load generator with.
LEMMA ArgumentsAre ==
  ASSUME ScriptShape
  PROVE  /\ job.warmup_mult > 0 => WarmupArguments \in Arguments
         /\ FormalArguments \in Arguments
<1>1. /\ Concurrency \in Nat /\ Concurrency > 0 /\ at \in Nat
  BY JobIs
<1>2. job \in Job
  BY JobsAssumption DEF ScriptShape
<1>3. /\ job.mult \in Nat \ {0} /\ job.warmup_mult \in Nat
      /\ job.rate \in {"inf", "finite"} /\ job.dataset \in Datasets
  BY <1>2 DEF Job
<1>6. job.pooled \in BOOLEAN /\ job.slow_down \in BOOLEAN /\ job.trace \in BOOLEAN
  BY <1>2, Zenon DEF Job
<1>4. \A c, m \in Nat : c > 0 /\ m > 0 => c * m \in Nat \ {0}
  OBVIOUS
<1>5. /\ Concurrency * job.mult \in Nat \ {0}
      /\ job.warmup_mult > 0 => Concurrency * job.warmup_mult \in Nat \ {0}
  BY <1>1, <1>3, <1>4
<1> QED
  BY <1>1, <1>3, <1>5, <1>6 DEF WarmupArguments, FormalArguments, Arguments

\* What was measured is a matter of the job, the results and the traces alone.
LEMMA SameKept ==
  ASSUME UNCHANGED <<job, results, traces>>
  PROVE  /\ Concurrencies(job)' = Concurrencies(job) /\ Turns' = Turns /\ Runs' = Runs
         /\ \A c : Good(c)' = Good(c)
         /\ \A k : Kept(k)' = Kept(k)
BY DEF Concurrencies, Turns, Runs, Good, Kept

-----------------------------------------------------------------------------
(* The script while the client runs                                        *)

\* What a step of the client that neither measures nor writes can change of what the
\* script looks at.
LEMMA PlainStep ==
  ASSUME ClientInv, ClientStep \/ Interrupt, ~Measure, ~OpenResult, ~WriteResult
  PROVE  /\ Live /\ exit = "none" /\ exit' \in {"none", "error"}
         /\ UNCHANGED <<run, results, traces>>
         /\ ~Live' => Quiet'
         /\ phase' \in {"write", "writing"} => phase' = phase
<1> DEFINE Plain == /\ Live /\ exit' \in {exit, "error"} /\ UNCHANGED <<run, results, traces>>
                    /\ ~Live' => Quiet'
                    /\ phase' \in {"write", "writing"} => phase' = phase
<1>1. Load \/ LoadRaises \/ TestSucceeds \/ TestFails => Plain
  BY DEF Load, LoadRaises, TestSucceeds, TestFails, Live, Exits, Quiet
<1>2. PostAnswered \/ PostRefused => Plain
  BY DEF PostAnswered, PostRefused, Posting, AfterPosts, Live
<1>3. PostHangs \/ LifterWakes => Plain
  BY DEF PostHangs, LifterWakes, Posting, Live, Exits, Quiet
<1>4. IssueAll \/ IssueNext => Plain
  BY DEF IssueAll, IssueNext, Live
<1>5. \A i \in DOMAIN tasks : Begin(i) \/ Answer(i) \/ Raise(i) \/ Cancelled(i) => Plain
  BY DEF Begin, Answer, Raise, Cancelled, Live
<1>6. Gathered \/ GatherRaises \/ InterruptedGather \/ Drained \/ Ended => Plain
  BY DEF Gathered, GatherRaises, InterruptedGather, Drained, Ended, Unwind, Live, Exits, Quiet
<1>7. CloseBeforeMetrics \/ Interrupt => Plain
  BY DEF CloseBeforeMetrics, Interrupt, InterruptIssue, InterruptGather, InterruptElsewhere,
         Unwind, Live, Exits, Quiet
<1>8. Plain
  BY <1>1, <1>2, <1>3, <1>4, <1>5, <1>6, <1>7 DEF ClientStep
<1>9. exit = "none"
  BY <1>8 DEF ClientInv, Requests
<1> QED
  BY <1>8, <1>9

\* The parts of the invariant that only the script can disturb.
LEMMA ScriptSame ==
  ASSUME ScriptInv, UNCHANGED scriptVars
  PROVE  /\ Scrapes' /\ Profilers' /\ WarmupArguments' = WarmupArguments
         /\ FormalArguments' = FormalArguments /\ Concurrency' = Concurrency
         /\ Turns' = Turns /\ Concurrencies(job)' = Concurrencies(job) /\ Behind' = Behind
<1>1. UNCHANGED <<job, step, at, code, scraping, target, index, pending, started, profiled, deaf, rollup>>
  BY DEF scriptVars
<1>2. Scrapes'
  BY <1>1 DEF ScriptInv, Scrapes, Concurrencies
<1>3. Profilers'
  BY <1>1 DEF ScriptInv, Profilers
<1> QED
  BY <1>1, <1>2, <1>3 DEF WarmupArguments, FormalArguments, Concurrency, Turns, Concurrencies, Behind

LEMMA PlainKeeps ==
  ASSUME IInv, ClientStep \/ Interrupt, ~Measure, ~OpenResult, ~WriteResult, UNCHANGED scriptVars
  PROVE  ScriptInv'
<1>0. ClientInv /\ ScriptInv /\ ScriptShape /\ Clients /\ Scrapes /\ Profilers /\ Results
  BY DEF IInv, ScriptInv
<1>1. /\ Live /\ exit = "none" /\ exit' \in {"none", "error"} /\ UNCHANGED <<run, results, traces>>
      /\ ~Live' => Quiet'
      /\ phase' \in {"write", "writing"} => phase' = phase
  BY <1>0, PlainStep
<1>2. UNCHANGED <<job, step, at, code, scraping, target, index, pending, started, profiled, deaf, rollup>>
  BY DEF scriptVars
<1>3. /\ Scrapes' /\ Profilers' /\ WarmupArguments' = WarmupArguments
      /\ FormalArguments' = FormalArguments /\ Concurrency' = Concurrency
      /\ Turns' = Turns /\ Concurrencies(job)' = Concurrencies(job) /\ Behind' = Behind
  BY <1>0, ScriptSame
<1>4. ScriptShape'
  BY <1>0, <1>1, <1>2, <1>3 DEF ScriptShape
<1>5. Clients'
  BY <1>0, <1>1, <1>2, <1>3 DEF Clients
<1>6. Results'
  <2>1. /\ \A c : Good(c)' = Good(c)
        /\ \A k : Kept(k)' = Kept(k)
        /\ Runs' = Runs
    BY <1>1, <1>2, SameKept
  <2> QED
    BY <1>0, <1>1, <1>2, <1>3, <2>1 DEF Results
<1> QED
  BY <1>3, <1>4, <1>5, <1>6 DEF ScriptInv

\* Metrics are computed: a warm-up ends here, a measured run goes on to its result.
LEMMA MeasureKeeps ==
  ASSUME IInv, Measure, UNCHANGED scriptVars
  PROVE  ScriptInv'
<1>0. ClientInv /\ ScriptInv /\ ScriptShape /\ Clients /\ Scrapes /\ Profilers /\ Results
  BY DEF IInv, ScriptInv
<1>1. /\ phase = "measure" /\ Live /\ UNCHANGED <<run, results>>
      /\ traces' = (IF run.trace THEN traces \cup {run.c} ELSE traces)
      /\ run.save > 0 => phase' = "write" /\ UNCHANGED exit
      /\ ~(run.save > 0) => phase' = "gone" /\ exit' = "ok" /\ Quiet'
  BY DEF Measure, Live, Exits, Quiet
<1>2. UNCHANGED <<job, step, at, code, scraping, target, index, pending, started, profiled, deaf, rollup>>
  BY DEF scriptVars
<1>3. /\ Scrapes' /\ Profilers' /\ WarmupArguments' = WarmupArguments
      /\ FormalArguments' = FormalArguments /\ Concurrency' = Concurrency
      /\ Turns' = Turns /\ Concurrencies(job)' = Concurrencies(job) /\ Behind' = Behind
  BY <1>0, ScriptSame
<1>4. /\ Concurrency \in Concurrencies(job) /\ at \in Nat /\ at > 0
  BY <1>0, JobIs
<1>5. /\ run.c = Concurrency
      /\ step = "measured" <=> run.save > 0
      /\ step \in {"warmup", "measured"}
  BY <1>0, <1>1, <1>4 DEF Clients, WarmupArguments, FormalArguments
<1>6. exit = "none"
  BY <1>0, <1>1 DEF ClientInv, Requests
<1>7. /\ traces \subseteq traces' /\ traces' \subseteq Concurrencies(job)
      /\ run.trace => run.c \in traces'
  BY <1>0, <1>1, <1>4, <1>5 DEF ScriptShape
<1>8. ScriptShape'
  BY <1>0, <1>1, <1>2, <1>3, <1>7 DEF ScriptShape
<1>9. Clients'
  BY <1>0, <1>1, <1>2, <1>3, <1>5, <1>6 DEF Clients, Live
<1>10. Results'
  <2>1. /\ \A c : Good(c)' = Good(c)
        /\ \A k : Kept(k) => Kept(k)'
    BY <1>1, <1>2, <1>3, <1>7 DEF Good, Kept
  <2>2. rollup = NotRun
    BY <1>0, <1>5 DEF Results
  <2>3. \A c \in Concurrencies(job) : results[c] \in {NoFile, Truncated} \/ Good(c)
    BY <1>0 DEF Results
  <2>4. step \notin {"trap", "cleanup"} /\ code \in {"none", "ok"} =>
           \A k \in 1..Behind : (step = "measured" => job.concurrencies[k] # Concurrency) => Kept(k)'
    BY <1>0, <2>1 DEF Results
  <2>5. step = "measured" /\ exit' = "ok" => FALSE
    BY <1>1, <1>5, <1>6
  <2>6. step # "unprofile" /\ code = "none"
    BY <1>0, <1>5 DEF ScriptShape
  <2> QED
    BY <1>1, <1>2, <1>3, <1>5, <1>7, <2>1, <2>2, <2>3, <2>4, <2>5, <2>6 DEF Results
<1> QED
  BY <1>3, <1>8, <1>9, <1>10 DEF ScriptInv

\* The result file is emptied, then filled, with what the requests came to.
LEMMA WriteKeeps ==
  ASSUME IInv, OpenResult \/ WriteResult, UNCHANGED scriptVars
  PROVE  ScriptInv'
<1>0. ClientInv /\ ScriptInv /\ ScriptShape /\ Clients /\ Scrapes /\ Profilers /\ Results
  BY DEF IInv, ScriptInv
<1>1. PICK r \in {Truncated, Metrics} :
      /\ results' = [results EXCEPT ![run.c] = r]
      /\ UNCHANGED <<run, traces>> /\ phase \in {"write", "writing"} /\ Live
      /\ \/ OpenResult /\ r = Truncated /\ phase' = "writing" /\ exit' = exit
         \/ r = Metrics /\ phase' = "gone" /\ exit' = "ok" /\ Quiet'
  BY DEF OpenResult, WriteResult, Live, Exits, Quiet
<1>2. UNCHANGED <<job, step, at, code, scraping, target, index, pending, started, profiled, deaf, rollup>>
  BY DEF scriptVars
<1>3. /\ Scrapes' /\ Profilers' /\ WarmupArguments' = WarmupArguments
      /\ FormalArguments' = FormalArguments /\ Concurrency' = Concurrency
      /\ Turns' = Turns /\ Concurrencies(job)' = Concurrencies(job) /\ Behind' = Behind
  BY <1>0, ScriptSame
<1>4. /\ Concurrency \in Concurrencies(job) /\ at \in Nat /\ at > 0 /\ at \in Turns
  BY <1>0, JobIs DEF ScriptShape
<1>5. /\ step = "measured" /\ run.c = Concurrency /\ run.save = at
      /\ run.trace = job.trace
      /\ run.trace => Concurrency \in traces
  BY <1>0, <1>1 DEF Clients, Results, FormalArguments
<1>6. exit = "none"
  BY <1>0, <1>1 DEF ClientInv, Requests
<1>7. /\ results'[Concurrency] = r
      /\ \A c \in Concurrencies(job) : c # Concurrency => results'[c] = results[c]
      /\ DOMAIN results' = Concurrencies(job)
      /\ results' = [c \in Concurrencies(job) |-> results'[c]]
  BY <1>0, <1>1, <1>4, <1>5 DEF ScriptShape
<1>8. ScriptShape'
  BY <1>0, <1>1, <1>2, <1>3, <1>7 DEF ScriptShape
<1>9. Clients'
  BY <1>0, <1>1, <1>2, <1>3, <1>5, <1>6 DEF Clients, Live
<1>10. r = Metrics => Good(Concurrency)' /\ results'[Concurrency].run = at /\ Kept(at)'
  <2> SUFFICES ASSUME r = Metrics
               PROVE  Good(Concurrency)' /\ results'[Concurrency].run = at /\ Kept(at)'
    OBVIOUS
  <2>1. /\ tasks \in Seq(TaskStates) /\ Len(tasks) = total /\ total > 0
    BY <1>0, <1>1 DEF ClientInv, ClientShape, Requests, Closing, Live
  <2>2. /\ Len(tasks) \in Nat
        /\ Cardinality({i \in DOMAIN tasks : tasks[i] = "ok"}) <= Len(tasks)
    BY <2>1, TasksFinite
  <2>3. /\ r.state = "complete" /\ r.run = at /\ r.completed <= r.outputs /\ r.outputs > 0
    BY <1>5, <2>1, <2>2 DEF Metrics
  <2>4. job.concurrencies[at] = Concurrency
    BY DEF Concurrency
  <2>5. Good(Concurrency)'
    BY <1>2, <1>3, <1>4, <1>7, <2>3, <2>4 DEF Good
  <2>0. at' = at /\ job' = job /\ job'.concurrencies[at'] = Concurrency /\ job'.trace = job.trace
    BY <1>2, <2>4
  <2>6. Kept(at)'
    BY <1>1, <1>2, <1>3, <1>4, <1>5, <1>7, <2>3, <2>4, <2>5, <2>0 DEF Kept
  <2> QED
    BY <1>7, <2>3, <2>5, <2>6
<1>11. \A c \in Concurrencies(job) : c # Concurrency => Good(c)' = Good(c)
  BY <1>2, <1>3, <1>7 DEF Good
<1>12. \A k \in Turns : job.concurrencies[k] # Concurrency => Kept(k)' = Kept(k)
  <2>1. \A k \in Turns : job.concurrencies[k] \in Concurrencies(job)
    BY DEF Turns, Concurrencies, Range
  <2> QED
    BY <1>1, <1>2, <1>7, <1>11, <2>1 DEF Kept
<1>13. Results'
  <2>1. rollup = NotRun /\ code = "none"
    BY <1>0, <1>5 DEF Results, ScriptShape
  <2>2. Behind = at - 1 /\ \A k \in 1..Behind : k \in Turns
    BY <1>0, <1>5, <2>1, JobIs DEF Behind
  <2>3. \A c \in Concurrencies(job) : results'[c] \in {NoFile, Truncated} \/ Good(c)'
    BY <1>0, <1>1, <1>3, <1>7, <1>10, <1>11 DEF Results
  <2>4. \A k \in 1..Behind : job.concurrencies[k] # Concurrency => Kept(k)'
    BY <1>0, <1>5, <1>12, <2>1, <2>2 DEF Results
  <2>5. exit' = "ok" => Kept(at)' /\ results'[Concurrency].run = at
    BY <1>1, <1>6, <1>10
  <2>6. phase' \in {"write", "writing"} => step' = "measured" /\ (run'.trace => run'.c \in traces')
    <3>1. run' = run /\ traces' = traces /\ step' = step
      BY <1>1, <1>2
    <3> QED
      BY <1>5, <3>1, Zenon
  <2>7. step' # "unprofile" /\ code' # "ok" /\ rollup' = NotRun
    BY <1>2, <1>5, <2>1
  <2>8. \A k \in 1..Behind' : (step' = "measured" => job'.concurrencies[k] # Concurrency') => Kept(k)'
    BY <1>2, <1>3, <1>5, <2>4
  <2>9. \A c \in Concurrencies(job)' : results'[c] \in {NoFile, Truncated} \/ Good(c)'
    BY <1>3, <2>3
  <2>10. step' = "measured" /\ exit' = "ok" => Kept(at)' /\ results'[Concurrency'].run = at'
    BY <1>2, <1>3, <2>5
  <2> QED
    BY <2>6, <2>7, <2>8, <2>9, <2>10 DEF Results
<1> QED
  BY <1>3, <1>8, <1>9, <1>13 DEF ScriptInv

\* While the client runs the invariant of the script holds as well.
LEMMA ClientKeepsScript ==
  ASSUME IInv, ClientStep \/ Interrupt, UNCHANGED scriptVars
  PROVE  ScriptInv'
BY PlainKeeps, MeasureKeeps, WriteKeeps

-----------------------------------------------------------------------------
(* Steps of the script                                                     *)

\* An index file grows: a series begins where there was none or after a final snapshot,
\* and goes on where there was another.
LEMMA IndexGrows ==
  ASSUME ScriptShape, Scrapes, NEW d \in Concurrencies(job), NEW x \in Snapshots,
         index' = [index EXCEPT ![d] = Append(@, x)], job' = job,
         index[d] # <<>> => (Last(index[d]) = "final" <=> x = "baseline")
  PROVE  /\ index' \in [Concurrencies(job) -> Seq(Snapshots)]
         /\ index'[d] # <<>> /\ Last(index'[d]) = x
         /\ \A c \in Concurrencies(job) : c # d => index'[c] = index[c]
         /\ \A c \in Concurrencies(job) : \A k \in 1..(Len(index'[c]) - 1) :
               index'[c][k] = "final" <=> index'[c][k + 1] = "baseline"
<1>1. index \in [Concurrencies(job) -> Seq(Snapshots)]
  BY DEF ScriptShape
<1>2. PICK s \in Seq(Snapshots) : s = index[d]
  BY <1>1
<1>3. /\ index'[d] = Append(s, x)
      /\ \A c \in Concurrencies(job) : c # d => index'[c] = index[c]
  BY <1>1, <1>2
<1>4. /\ Append(s, x) \in Seq(Snapshots) /\ Len(Append(s, x)) = Len(s) + 1 /\ Append(s, x) # <<>>
      /\ \A i \in 1..Len(s) : Append(s, x)[i] = s[i]
      /\ Append(s, x)[Len(s) + 1] = x /\ Last(Append(s, x)) = x
  BY Appended
<1>5. index' \in [Concurrencies(job) -> Seq(Snapshots)]
  BY <1>1, <1>2, <1>4
<1>6. \A k \in 1..(Len(s) - 1) : s[k] = "final" <=> s[k + 1] = "baseline"
  BY <1>2 DEF Scrapes
<1>7. \A k \in 1..Len(s) : Append(s, x)[k] = "final" <=> Append(s, x)[k + 1] = "baseline"
  <2> TAKE k \in 1..Len(s)
  <2>1. Len(s) \in Nat /\ Append(s, x)[k] = s[k] /\ s # <<>>
    BY <1>4
  <2>2. CASE k = Len(s)
    <3>1. Last(s) = s[k]
      BY <2>2 DEF Last
    <3> QED
      BY <1>2, <1>4, <2>1, <2>2, <3>1
  <2>3. CASE k \in 1..(Len(s) - 1)
    <3>1. k + 1 \in 1..Len(s)
      BY <2>1, <2>3
    <3> QED
      BY <1>4, <1>6, <2>1, <2>3, <3>1
  <2> QED
    BY <2>1, <2>2, <2>3
<1>8. \A c \in Concurrencies(job) : \A k \in 1..(Len(index'[c]) - 1) :
         index'[c][k] = "final" <=> index'[c][k + 1] = "baseline"
  <2> TAKE c \in Concurrencies(job)
  <2>1. CASE c # d
    BY <1>3, <2>1 DEF Scrapes
  <2>2. CASE c = d
    <3>1. index'[c] = Append(s, x) /\ Len(index'[c]) - 1 = Len(s)
      BY <1>3, <1>4, <2>2
    <3> QED
      BY <1>7, <3>1
  <2> QED
    BY <2>1, <2>2
<1> QED
  BY <1>3, <1>4, <1>5, <1>8

\* However the loop is stopped, each series is closed afterwards.
LEMMA StopScrapeCloses ==
  ASSUME ScriptShape, Scrapes, StopScrape, job' = job
  PROVE  /\ scraping' = FALSE /\ target' = 0
         /\ index' \in [Concurrencies(job) -> Seq(Snapshots)]
         /\ \A c \in Concurrencies(job) : index'[c] # <<>> => Last(index'[c]) = "final"
         /\ \A c \in Concurrencies(job) : \A k \in 1..(Len(index'[c]) - 1) :
               index'[c][k] = "final" <=> index'[c][k + 1] = "baseline"
<1>1. scraping' = FALSE /\ target' = 0 /\ target \in {0} \cup Concurrencies(job)
  BY DEF StopScrape, ScriptShape
<1>2. CASE target = 0
  <2>1. index' = index /\ \A c \in Concurrencies(job) : c # 0
    BY <1>2, JobIs DEF StopScrape
  <2> QED
    BY <1>1, <1>2, <2>1 DEF ScriptShape, Scrapes
<1>3. CASE target # 0
  <2>1. index' = [index EXCEPT ![target] = Append(@, "final")] /\ "final" \in Snapshots
    BY <1>3 DEF StopScrape, Listed, Snapshots
  <2>2. PICK d \in Concurrencies(job) : d = target
    BY <1>1, <1>3
  <2>3. index[d] # <<>> /\ Last(index[d]) # "final"
    BY <1>3, <2>2 DEF Scrapes
  <2>4. /\ index' \in [Concurrencies(job) -> Seq(Snapshots)]
        /\ index'[d] # <<>> /\ Last(index'[d]) = "final"
        /\ \A c \in Concurrencies(job) : c # d => index'[c] = index[c]
        /\ \A c \in Concurrencies(job) : \A k \in 1..(Len(index'[c]) - 1) :
               index'[c][k] = "final" <=> index'[c][k + 1] = "baseline"
    BY <2>1, <2>2, <2>3, IndexGrows
  <2>5. \A c \in Concurrencies(job) : c # d /\ index[c] # <<>> => Last(index[c]) = "final"
    BY <2>2 DEF Scrapes
  <2> QED
    BY <1>1, <2>4, <2>5
<1> QED
  BY <1>2, <1>3

\* The invariant with each series of snapshots closed.
LEMMA ScrapesClosed ==
  ASSUME scraping' = FALSE, target' = 0, job' = job,
         \A c \in Concurrencies(job) : index'[c] # <<>> => Last(index'[c]) = "final",
         \A c \in Concurrencies(job) : \A k \in 1..(Len(index'[c]) - 1) :
            index'[c][k] = "final" <=> index'[c][k + 1] = "baseline"
  PROVE  Scrapes'
<1>1. Concurrencies(job)' = Concurrencies(job)
  BY DEF Concurrencies
<1> QED
  BY <1>1 DEF Scrapes

\* Before the first turn and after the last nothing is scraped.
LEMMA NoScrape ==
  ASSUME ScriptShape, Scrapes, step \notin {"formal", "measured", "unscrape", "trap"}, code # "killed",
         UNCHANGED <<job, scraping, target, index>>
  PROVE  scraping = FALSE /\ target = 0 /\ Scrapes'
<1>1. scraping = FALSE /\ target = 0
  BY DEF ScriptShape, Scrapes
<1>2. Concurrencies(job)' = Concurrencies(job)
  BY DEF Concurrencies
<1> QED
  BY <1>1, <1>2 DEF Scrapes

\* Before the loop: the packages, and the profilers one worker after the other.
LEMMA BeforeLoopKeeps ==
  ASSUME IInv, Deps \/ StartProfile
  PROVE  ScriptInv'
<1>0. ClientInv /\ ScriptInv /\ ScriptShape /\ Clients /\ Scrapes /\ Profilers /\ Results
  BY DEF IInv, ScriptInv
<1>1. /\ step \in {"deps", "profile"} /\ step' \in {"turn", "profile", "trap", "over"}
      /\ UNCHANGED <<clientVars, job, at, scraping, target, index, deaf, rollup>>
      /\ UNCHANGED <<phase, exit, run, cancelling, lifter, todo, results, traces>>
  BY DEF Deps, StartProfile, clientVars
<1>2. /\ code = "none" /\ ~started /\ (step = "deps" => profiled = {}) /\ exit # "error" /\ ~Live /\ Quiet
      /\ rollup = NotRun
  BY <1>0, <1>1 DEF ScriptShape, Profilers, Clients, Results
<1>3. Concurrencies(job)' = Concurrencies(job) /\ Turns' = Turns
  BY <1>1 DEF Concurrencies, Turns
<1>4. Scrapes'
  BY <1>0, <1>1, <1>2, NoScrape
<1>5. /\ pending' \in Seq(Nat) /\ Remains(pending', job.workers)
      /\ profiled' \subseteq Range(job.workers) /\ started' \in BOOLEAN
      /\ code' \in {"none", "error"} /\ (step' = "over" <=> code' = "error")
      /\ step' = "profile" /\ job.profile = "other frontend" => profiled' = {}
      /\ step' = "profile" => started' = FALSE
      /\ step' \in {"turn", "trap"} /\ ~started' => profiled' = {}
      /\ step' = "over" => profiled' = {}
  <2>1. CASE Deps
    <3>1. /\ pending' \in {<<>>, job.workers, pending} /\ UNCHANGED <<started, profiled>>
          /\ code' \in {"none", "error"} /\ (step' = "over" <=> code' = "error") /\ profiled = {}
      BY <1>2, <2>1 DEF Deps
    <3> QED
      BY <1>0, <1>2, <3>1, JobIs DEF ScriptShape
  <2>2. CASE StartProfile /\ pending = <<>>
    BY <1>0, <1>2, <2>2 DEF StartProfile, ScriptShape
  <2>3. CASE StartProfile /\ pending # <<>>
    <3>1. /\ Tail(pending) \in Seq(Nat) /\ Remains(Tail(pending), job.workers)
          /\ Head(pending) \in Range(job.workers)
      BY <1>0, <2>3, JobIs, RemainsTail DEF ScriptShape
    <3>2. UNCHANGED <<started, code>> /\ step = "profile"
      BY <2>3 DEF StartProfile
    <3>3. CASE job.profile = "other frontend"
      <4>1. step' = "trap" /\ pending' = <<>> /\ UNCHANGED profiled /\ profiled = {}
        BY <1>0, <2>3, <3>2, <3>3 DEF StartProfile, Profilers
      <4> QED
        BY <1>0, <1>2, <3>2, <4>1, JobIs DEF ScriptShape
    <3>4. CASE job.profile # "other frontend"
      <4>1. /\ step' = "profile" /\ pending' = Tail(pending)
            /\ profiled' \in {profiled, profiled \cup {Head(pending)}}
        BY <2>3, <3>2, <3>4 DEF StartProfile
      <4> QED
        BY <1>0, <1>2, <3>1, <3>2, <3>4, <4>1 DEF ScriptShape
    <3> QED
      BY <3>3, <3>4
  <2> QED
    BY <2>1, <2>2, <2>3
<1>6. ScriptShape'
  BY <1>0, <1>1, <1>3, <1>5 DEF ScriptShape, Steps
<1>7. Clients'
  BY <1>0, <1>1, <1>2 DEF Clients, Live, Quiet
<1>8. Profilers'
  BY <1>1, <1>5 DEF Profilers
<1>9. Results'
  <2>1. /\ \A c : Good(c)' = Good(c)
        /\ \A k : Kept(k)' = Kept(k)
    BY <1>1, SameKept
  <2>2. step' # "over" => Behind' = Behind
    BY <1>1, <1>2, <1>5 DEF Behind
  <2> QED
    BY <1>0, <1>1, <1>2, <1>3, <1>5, <2>1, <2>2 DEF Results, Live
<1> QED
  BY <1>4, <1>6, <1>7, <1>8, <1>9 DEF ScriptInv

\* A process of the load generator is started, for a warm-up or to measure.
LEMMA StartsKeep ==
  ASSUME IInv, Warmup \/ Formal
  PROVE  IInv'
<1>0. ClientInv /\ ScriptInv /\ ScriptShape /\ Clients /\ Scrapes /\ Profilers /\ Results
  BY DEF IInv, ScriptInv
<1>1. PICK args \in {WarmupArguments, FormalArguments} :
      /\ StartClient(args) /\ args \in Arguments
      /\ \/ step = "turn" /\ step' = "warmup" /\ args = WarmupArguments
         \/ step = "formal" /\ step' = "measured" /\ args = FormalArguments
      /\ UNCHANGED <<job, at, code, scraping, target, index, pending, started, profiled, deaf, rollup>>
  BY <1>0, ArgumentsAre DEF Warmup, Formal
<1>2. /\ phase = "gone" /\ phase' = "load" /\ exit' = "none" /\ run' = args
      /\ UNCHANGED <<results, traces>>
  BY <1>1 DEF StartClient
<1>3. code = "none" /\ rollup = NotRun /\ exit # "error" /\ Quiet
  BY <1>0, <1>1, <1>2 DEF ScriptShape, Clients, Results, Live
<1>4. ClientInv'
  BY <1>0, <1>1, <1>3, StartKeeps
<1>5. /\ Concurrencies(job)' = Concurrencies(job) /\ Turns' = Turns
      /\ WarmupArguments' = WarmupArguments /\ FormalArguments' = FormalArguments
      /\ Concurrency' = Concurrency
  BY <1>1 DEF Concurrencies, Turns, WarmupArguments, FormalArguments, Concurrency
<1>6. ScriptShape'
  BY <1>0, <1>1, <1>2, <1>3, <1>5 DEF ScriptShape, Steps
<1>7. Clients'
  BY <1>1, <1>2, <1>5 DEF Clients, Live
<1>8. Scrapes'
  BY <1>0, <1>1, <1>3, <1>5 DEF Scrapes
<1>9. Profilers'
  BY <1>0, <1>1, <1>3 DEF Profilers
<1>10. Results'
  <2>1. /\ \A c : Good(c)' = Good(c)
        /\ \A k : Kept(k)' = Kept(k)
    BY <1>1, <1>2, SameKept
  <2>2. Behind' = Behind /\ step # "measured"
    BY <1>1, <1>3 DEF Behind
  <2>3. \A k \in 1..Behind : Kept(k)
    BY <1>0, <1>1, <1>3, <2>2 DEF Results
  <2> QED
    BY <1>0, <1>1, <1>2, <1>3, <1>5, <2>1, <2>2, <2>3 DEF Results
<1> QED
  BY <1>4, <1>6, <1>7, <1>8, <1>9, <1>10 DEF IInv, ScriptInv

\* The script goes on within its turn; after a measured run that one counts as well.
LEMMA WithinTurnKeeps ==
  ASSUME IInv, NoWarmup \/ WarmedUp \/ Measured
  PROVE  ScriptInv'
<1>0. ClientInv /\ ScriptInv /\ ScriptShape /\ Clients /\ Scrapes /\ Profilers /\ Results
  BY DEF IInv, ScriptInv
<1>1. /\ \/ step = "turn" /\ step' = "scrape"
         \/ step = "warmup" /\ phase = "gone" /\ step' = (IF exit = "ok" THEN "scrape" ELSE "trap")
         \/ step = "measured" /\ phase = "gone" /\ step' = (IF exit = "ok" THEN "unscrape" ELSE "trap")
      /\ UNCHANGED <<job, at, code, scraping, target, index, pending, started, profiled, deaf, rollup>>
      /\ UNCHANGED <<phase, exit, run, cancelling, lifter, todo, results, traces>>
  BY DEF NoWarmup, WarmedUp, Measured, ClientEnded, clientVars
<1>2. code = "none" /\ rollup = NotRun /\ phase = "gone" /\ Quiet
  BY <1>0, <1>1 DEF ScriptShape, Clients, Results, Live
<1>3. /\ Concurrencies(job)' = Concurrencies(job) /\ Turns' = Turns /\ Concurrency' = Concurrency
  BY <1>1 DEF Concurrencies, Turns, Concurrency
<1>4. ScriptShape'
  BY <1>0, <1>1, <1>2, <1>3 DEF ScriptShape, Steps
<1>5. Clients'
  BY <1>0, <1>1, <1>2 DEF Clients, Live, Quiet
<1>6. Scrapes'
  <2>1. CASE step = "measured"
    BY <1>0, <1>1, <1>2, <1>3, <2>1 DEF Scrapes
  <2>2. CASE step # "measured"
    BY <1>0, <1>1, <1>2, <2>2, NoScrape
  <2> QED
    BY <2>1, <2>2
<1>7. Profilers'
  BY <1>0, <1>1, <1>2 DEF Profilers
<1>8. Results'
  <2>1. /\ \A c : Good(c)' = Good(c)
        /\ \A k : Kept(k)' = Kept(k)
    BY <1>1, SameKept
  <2>2. at \in Nat /\ at > 0 /\ at \in Turns /\ Turns = 1..Len(job.concurrencies)
    BY <1>0, JobIs DEF ScriptShape
  <2>3. step' # "trap" => \A k \in 1..Behind' : Kept(k)
    <3>1. CASE step' \in {"scrape", "trap"}
      <4>1. step' # "trap" => Behind' = at - 1 /\ Behind = at - 1 /\ step \in {"turn", "warmup"}
        BY <1>1, <1>2, <3>1 DEF Behind
      <4> QED
        BY <1>0, <1>2, <4>1 DEF Results
    <3>2. CASE step' = "unscrape"
      <4>1. Behind' = at /\ Behind = at - 1 /\ step = "measured" /\ exit = "ok"
        BY <1>1, <1>2, <3>2 DEF Behind
      <4>2. Kept(at) /\ results[Concurrency].run = at /\ Good(Concurrency)
        BY <1>0, <4>1 DEF Results, Kept, Concurrency
      <4>3. \A k \in 1..(at - 1) : job.concurrencies[k] # Concurrency => Kept(k)
        BY <1>0, <1>2, <4>1 DEF Results
      <4>4. job.trace => Concurrency \in traces
        BY <4>2 DEF Kept, Concurrency
      <4>5. \A k \in 1..(at - 1) : job.concurrencies[k] = Concurrency => Kept(k)
        BY <2>2, <4>2, <4>4 DEF Kept
      <4> QED
        BY <2>2, <4>1, <4>2, <4>3, <4>5
    <3> QED
      BY <1>1, <3>1, <3>2
  <2> QED
    BY <1>0, <1>1, <1>2, <1>3, <2>1, <2>3 DEF Results
<1> QED
  BY <1>4, <1>5, <1>6, <1>7, <1>8 DEF ScriptInv

\* The baseline, and the ticks of the loop in the background.
LEMMA ScrapeKeeps ==
  ASSUME IInv, StartScrape \/ Tick
  PROVE  ScriptInv'
<1>0. ClientInv /\ ScriptInv /\ ScriptShape /\ Clients /\ Scrapes /\ Profilers /\ Results
  BY DEF IInv, ScriptInv
<1>1. /\ \/ step = "scrape" /\ step' = "formal"
         \/ scraping /\ step' = step
      /\ UNCHANGED <<job, at, code, pending, started, profiled, deaf, rollup>>
      /\ UNCHANGED <<phase, exit, run, cancelling, lifter, todo, results, traces>>
  BY DEF StartScrape, Tick, clientVars
<1>2. /\ step # "over" /\ code = "none" /\ rollup = NotRun
      /\ step = "scrape" => ~scraping /\ target = 0
  BY <1>0, <1>1 DEF ScriptShape, Scrapes, Results
<1>3. /\ Concurrencies(job)' = Concurrencies(job) /\ Turns' = Turns /\ Concurrency' = Concurrency
      /\ WarmupArguments' = WarmupArguments /\ FormalArguments' = FormalArguments
  BY <1>1 DEF Concurrencies, Turns, Concurrency, WarmupArguments, FormalArguments
<1>4. /\ Scrapes' /\ index' \in [Concurrencies(job) -> Seq(Snapshots)]
      /\ scraping' \in BOOLEAN /\ target' \in {0} \cup Concurrencies(job)
  <2>1. CASE StartScrape /\ job.metrics
    <3>1. PICK d \in Concurrencies(job) : d = Concurrency
      BY <1>0, JobIs
    <3>2. /\ target' = d /\ scraping' = TRUE /\ "baseline" \in Snapshots /\ step' = "formal"
          /\ index' = [index EXCEPT ![d] = Append(@, "baseline")] /\ target = 0 /\ d # 0
      BY <1>0, <1>2, <2>1, <3>1, JobIs DEF StartScrape, Snapshots
    <3>3. \A c \in Concurrencies(job) : index[c] # <<>> => Last(index[c]) = "final"
      BY <1>0, <3>2, JobIs DEF Scrapes
    <3>4. /\ index' \in [Concurrencies(job) -> Seq(Snapshots)]
          /\ index'[d] # <<>> /\ Last(index'[d]) = "baseline"
          /\ \A c \in Concurrencies(job) : c # d => index'[c] = index[c]
          /\ \A c \in Concurrencies(job) : \A k \in 1..(Len(index'[c]) - 1) :
               index'[c][k] = "final" <=> index'[c][k + 1] = "baseline"
      BY <1>0, <1>1, <3>2, <3>3, IndexGrows
    <3> QED
      BY <1>3, <3>2, <3>3, <3>4 DEF Scrapes
  <2>2. CASE StartScrape /\ ~job.metrics
    <3>1. UNCHANGED <<target, scraping, index>> /\ step = "scrape"
      BY <2>2 DEF StartScrape
    <3> QED
      BY <1>0, <1>1, <1>2, <3>1, NoScrape DEF ScriptShape
  <2>3. CASE Tick
    <3>1. scraping /\ target # 0 /\ UNCHANGED <<step, scraping, target>>
      BY <1>0, <2>3 DEF Tick, Scrapes
    <3>2. PICK d \in Concurrencies(job) : d = target
      BY <1>0, <3>1 DEF ScriptShape
    <3>3. /\ index' = [index EXCEPT ![d] = Append(@, "tick")] /\ "tick" \in Snapshots
          /\ index[d] # <<>> /\ Last(index[d]) # "final"
      BY <1>0, <2>3, <3>1, <3>2 DEF Tick, Listed, Snapshots, Scrapes
    <3>4. /\ index' \in [Concurrencies(job) -> Seq(Snapshots)]
          /\ index'[d] # <<>> /\ Last(index'[d]) = "tick"
          /\ \A c \in Concurrencies(job) : c # d => index'[c] = index[c]
          /\ \A c \in Concurrencies(job) : \A k \in 1..(Len(index'[c]) - 1) :
               index'[c][k] = "final" <=> index'[c][k + 1] = "baseline"
      BY <1>0, <1>1, <3>3, IndexGrows
    <3>5. \A c \in Concurrencies(job) : c # d /\ index[c] # <<>> => Last(index[c]) = "final"
      BY <1>0, <3>2 DEF Scrapes
    <3>6. scraping' => target' # 0 /\ step' # "over"
      BY <1>2, <3>1
    <3>7. target' # 0 => step' \in {"formal", "measured", "unscrape", "trap"} \/ code' = "killed"
      BY <1>0, <1>1, <3>1 DEF Scrapes
    <3> QED
      BY <1>0, <1>3, <3>1, <3>2, <3>4, <3>5, <3>6, <3>7 DEF Scrapes, ScriptShape
  <2> QED
    BY <2>1, <2>2, <2>3
<1>5. ScriptShape'
  BY <1>0, <1>1, <1>2, <1>3, <1>4 DEF ScriptShape, Steps
<1>6. Clients'
  BY <1>0, <1>1, <1>3 DEF Clients, Live, Quiet
<1>7. Profilers'
  BY <1>0, <1>1 DEF Profilers
<1>8. Results'
  <2>1. /\ \A c : Good(c)' = Good(c)
        /\ \A k : Kept(k)' = Kept(k)
    BY <1>1, SameKept
  <2>2. Behind' = Behind
    BY <1>1, <1>2 DEF Behind
  <2> QED
    BY <1>0, <1>1, <1>2, <1>3, <2>1, <2>2 DEF Results
<1> QED
  BY <1>4, <1>5, <1>6, <1>7, <1>8 DEF ScriptInv

\* A turn is over; after the last one, or in the trap, the profilers are gone through.
LEMMA UnscrapeKeeps ==
  ASSUME IInv, NextTurn \/ Trap
  PROVE  ScriptInv'
<1>0. ClientInv /\ ScriptInv /\ ScriptShape /\ Clients /\ Scrapes /\ Profilers /\ Results
  BY DEF IInv, ScriptInv
<1>1. /\ StopScrape
      /\ \/ step = "unscrape" /\ at < Len(job.concurrencies) /\ at' = at + 1 /\ step' = "turn"
         \/ step = "unscrape" /\ ~(at < Len(job.concurrencies)) /\ at' = at /\ step' = "unprofile"
         \/ step = "trap" /\ at' = at /\ step' = "cleanup"
      /\ \/ step' = "turn" /\ pending' = pending
         \/ step' # "turn" /\ pending' = (IF started THEN job.workers ELSE <<>>)
      /\ UNCHANGED <<job, code, started, profiled, deaf, rollup>>
      /\ UNCHANGED <<phase, exit, run, cancelling, lifter, todo, results, traces>>
  BY DEF NextTurn, Trap, clientVars
<1>2. code = "none" /\ rollup = NotRun /\ ~Live /\ Quiet
  BY <1>0, <1>1 DEF ScriptShape, Clients, Results
<1>3. /\ Concurrencies(job)' = Concurrencies(job) /\ Turns' = Turns /\ Turns = 1..Len(job.concurrencies)
      /\ at \in Nat /\ at > 0 /\ at <= Len(job.concurrencies) /\ Len(job.concurrencies) \in Nat
  BY <1>0, <1>1, JobIs DEF Concurrencies, Turns
<1>4. /\ scraping' = FALSE /\ target' = 0
      /\ index' \in [Concurrencies(job) -> Seq(Snapshots)]
      /\ \A c \in Concurrencies(job) : index'[c] # <<>> => Last(index'[c]) = "final"
      /\ \A c \in Concurrencies(job) : \A k \in 1..(Len(index'[c]) - 1) :
            index'[c][k] = "final" <=> index'[c][k + 1] = "baseline"
  BY <1>0, <1>1, StopScrapeCloses
<1>5. Scrapes'
  BY <1>1, <1>4, ScrapesClosed
<1>6. /\ pending' \in Seq(Nat) /\ Remains(pending', job.workers) /\ at' \in Turns
  <2>1. at' \in Turns
    BY <1>1, <1>3
  <2>2. pending' \in {pending, job.workers, <<>>}
    BY <1>1
  <2>3. /\ job.workers \in Seq(Nat) /\ Remains(job.workers, job.workers)
        /\ Remains(<<>>, job.workers) /\ <<>> \in Seq(Nat)
        /\ pending \in Seq(Nat) /\ Remains(pending, job.workers)
    BY <1>0, JobIs DEF ScriptShape
  <2> QED
    BY <2>1, <2>2, <2>3
<1>7. ScriptShape'
  BY <1>0, <1>1, <1>2, <1>3, <1>4, <1>6 DEF ScriptShape, Steps
<1>8. Clients'
  BY <1>0, <1>1, <1>2 DEF Clients, Live, Quiet
<1>9. Profilers'
  BY <1>0, <1>1, <1>2 DEF Profilers, ScriptShape
<1>10. Results'
  <2>1. /\ \A c : Good(c)' = Good(c)
        /\ \A k : Kept(k)' = Kept(k)
    BY <1>1, SameKept
  <2>2. step = "unscrape" => Behind' = at /\ Behind = at
    BY <1>1, <1>2, <1>3 DEF Behind
  <2>3. step' = "unprofile" => at = Len(job.concurrencies)
    BY <1>1, <1>3
  <2> QED
    BY <1>0, <1>1, <1>2, <1>3, <2>1, <2>2, <2>3 DEF Results
<1> QED
  BY <1>5, <1>7, <1>8, <1>9, <1>10 DEF ScriptInv

\* The profilers stop, and the script ends.
LEMMA FinishKeeps ==
  ASSUME IInv, StopProfile \/ Complete \/ TrapEnds
  PROVE  ScriptInv'
<1>0. ClientInv /\ ScriptInv /\ ScriptShape /\ Clients /\ Scrapes /\ Profilers /\ Results
  BY DEF IInv, ScriptInv
<1>1. /\ step \in {"unprofile", "cleanup"}
      /\ UNCHANGED <<job, at, rollup>>
      /\ UNCHANGED <<phase, exit, run, cancelling, lifter, todo, results, traces>>
      /\ \/ pending # <<>> /\ pending' = Tail(pending) /\ UNCHANGED <<step, code, started>>
         \/ /\ pending = <<>> /\ pending' = <<>> /\ started' = FALSE /\ step' = "over"
            /\ code' = (IF step = "unprofile" THEN "ok" ELSE "error")
            /\ UNCHANGED <<profiled, deaf>>
  BY DEF StopProfile, Complete, TrapEnds, clientVars
<1>2. code = "none" /\ rollup = NotRun /\ ~Live /\ Quiet
  BY <1>0, <1>1 DEF ScriptShape, Clients, Results
<1>3. scraping = FALSE /\ target = 0
  BY <1>0, <1>1, <1>2 DEF Scrapes, ScriptShape
<1>4. UNCHANGED <<scraping, target, index>>
  BY <1>3 DEF StopProfile, Complete, TrapEnds, StopScrape
<1>5. Scrapes'
  BY <1>0, <1>1, <1>2, <1>4, NoScrape
<1>6. /\ Concurrencies(job)' = Concurrencies(job) /\ Turns' = Turns
  BY <1>1 DEF Concurrencies, Turns
<1>7. pending # <<>> => /\ Tail(pending) \in Seq(Nat) /\ Remains(Tail(pending), job.workers)
                        /\ Head(pending) \in Range(job.workers)
                        /\ Range(pending) = {Head(pending)} \cup Range(Tail(pending))
  BY <1>0, JobIs, RemainsTail DEF ScriptShape
<1>8. /\ profiled' \subseteq profiled /\ deaf \subseteq deaf' /\ deaf' \subseteq Range(job.workers)
      /\ pending' \in Seq(Nat) /\ Remains(pending', job.workers)
      /\ profiled' \subseteq Range(pending') \cup deaf'
  <2>1. profiled \subseteq Range(pending) \cup deaf
    BY <1>0, <1>1 DEF Profilers
  <2>2. CASE pending # <<>>
    <3>1. /\ pending' = Tail(pending)
          /\ \/ profiled' = profiled \ {Head(pending)} /\ UNCHANGED deaf
             \/ deaf' = deaf \cup {Head(pending)} /\ UNCHANGED profiled
      BY <2>2 DEF StopProfile, Complete, TrapEnds
    <3> QED
      BY <1>0, <1>7, <2>1, <2>2, <3>1 DEF ScriptShape
  <2>3. CASE pending = <<>>
    BY <1>0, <1>1, <2>1, <2>3 DEF ScriptShape
  <2> QED
    BY <2>2, <2>3
<1>9. ScriptShape'
  BY <1>0, <1>1, <1>2, <1>4, <1>6, <1>8 DEF ScriptShape, Steps
<1>10. Clients'
  BY <1>0, <1>1, <1>2 DEF Clients, Live, Quiet
<1>11. Profilers'
  <2>1. CASE pending # <<>>
    <3>1. UNCHANGED <<step, code, started>> /\ (~started => profiled = {})
      BY <1>0, <1>1, <2>1 DEF Profilers
    <3> QED
      BY <1>1, <1>2, <1>8, <3>1 DEF Profilers
  <2>2. CASE pending = <<>>
    <3>1. step' = "over" /\ Range(pending') = {}
      BY <1>1, <2>2 DEF Range
    <3> QED
      BY <1>8, <3>1 DEF Profilers
  <2> QED
    BY <2>1, <2>2
<1>12. Results'
  <2>1. /\ \A c : Good(c)' = Good(c)
        /\ \A k : Kept(k)' = Kept(k)
    BY <1>1, SameKept
  <2>2. step = "unprofile" => Behind' = at /\ Behind = at /\ at = Len(job.concurrencies)
    BY <1>0, <1>1 DEF Behind, Results
  <2>3. code' = "ok" => step = "unprofile"
    BY <1>1, <1>2
  <2>4. step' \in {step, "over"} /\ step' # "measured"
    BY <1>1
  <2>5. step' \notin {"trap", "cleanup"} /\ code' \in {"none", "ok"} =>
           step = "unprofile"
    BY <1>1, <1>2
  <2> QED
    BY <1>0, <1>1, <1>2, <1>6, <2>1, <2>2, <2>3, <2>4, <2>5 DEF Results, Live
<1> QED
  BY <1>5, <1>9, <1>10, <1>11, <1>12 DEF ScriptInv

\* The job's cleanup kills everything, whatever it is at.
LEMMA KillKeepsScript ==
  ASSUME IInv, Kill
  PROVE  ScriptInv'
<1>0. ClientInv /\ ScriptInv /\ ScriptShape /\ Clients /\ Scrapes /\ Profilers /\ Results
  BY DEF IInv, ScriptInv
<1>1. /\ step # "over" /\ step' = "over" /\ code' = "killed" /\ scraping' = FALSE /\ phase' = "gone"
      /\ UNCHANGED <<results, traces, job, at, target, index, pending, started, profiled, deaf, rollup>>
  BY DEF Kill
<1>2. rollup = NotRun
  BY <1>0, <1>1 DEF Results
<1>3. /\ Concurrencies(job)' = Concurrencies(job) /\ Turns' = Turns
  BY <1>1 DEF Concurrencies, Turns
<1>4. ScriptShape'
  BY <1>0, <1>1, <1>3 DEF ScriptShape, Steps
<1>5. Clients'
  BY <1>1 DEF Clients, Live
<1>6. Scrapes'
  BY <1>0, <1>1, <1>3 DEF Scrapes
<1>7. Profilers'
  BY <1>1 DEF Profilers
<1>8. Results'
  <2>1. \A c : Good(c)' = Good(c)
    BY <1>1, SameKept
  <2> QED
    BY <1>0, <1>1, <1>2, <1>3, <2>1 DEF Results
<1> QED
  BY <1>4, <1>5, <1>6, <1>7, <1>8 DEF ScriptInv

LEMMA RollupKeeps ==
  ASSUME IInv, Rollup
  PROVE  ScriptInv'
<1>0. ClientInv /\ ScriptInv /\ ScriptShape /\ Clients /\ Scrapes /\ Profilers /\ Results
  BY DEF IInv, ScriptInv
<1>1. /\ step = "over" /\ rollup' = Runs
      /\ UNCHANGED <<job, step, at, code, scraping, target, index, pending, started, profiled, deaf>>
      /\ UNCHANGED <<phase, exit, run, cancelling, lifter, todo, results, traces>>
  BY DEF Rollup, clientVars
<1>2. /\ Concurrencies(job)' = Concurrencies(job) /\ Turns' = Turns /\ Runs' = Runs
      /\ \A c : Good(c)' = Good(c)
      /\ \A k : Kept(k)' = Kept(k)
  BY <1>1, SameKept
<1>3. ScriptShape'
  BY <1>0, <1>1, <1>2 DEF ScriptShape
<1>4. Clients'
  BY <1>0, <1>1 DEF Clients, Live
<1>5. Scrapes'
  BY <1>0, <1>1, <1>2 DEF Scrapes
<1>6. Profilers'
  BY <1>0, <1>1 DEF Profilers
<1>7. Behind' = Behind
  BY <1>1 DEF Behind
<1>8. Results'
  BY <1>0, <1>1, <1>2, <1>7 DEF Results
<1> QED
  BY <1>3, <1>4, <1>5, <1>6, <1>8 DEF ScriptInv

-----------------------------------------------------------------------------
(* The invariant                                                           *)

LEMMA InitIInv == Init => IInv
<1> SUFFICES ASSUME Init PROVE IInv
  OBVIOUS
<1>1. /\ phase = "gone" /\ exit = "none" /\ total = 0 /\ tasks = <<>> /\ slots = 1 /\ cancelling = {}
      /\ session = "none" /\ lifter = "none" /\ todo = <<>> /\ slowed = {} /\ lost = FALSE
      /\ run = [c |-> 1, prompts |-> 1, dataset |-> "random", rate |-> "inf", pooled |-> FALSE,
                slow_down |-> FALSE, trace |-> FALSE, save |-> 0]
      /\ results = [c \in Concurrencies(job) |-> NoFile] /\ traces = {}
  BY DEF Init, ClientInit
<1>2. /\ job \in Jobs /\ step = "deps" /\ at = 1 /\ code = "none" /\ scraping = FALSE /\ target = 0
      /\ index = [c \in Concurrencies(job) |-> <<>>]
      /\ pending = <<>> /\ started = FALSE /\ profiled = {} /\ deaf = {} /\ rollup = NotRun
  BY DEF Init
<1>3. run \in Arguments
  BY <1>1 DEF Arguments, Datasets
<1>4. InFlight = {} /\ NotDone = {} /\ Cardinality(InFlight) = 0 /\ tasks \in Seq(TaskStates) /\ Len(tasks) = 0
  BY <1>1, FS_EmptySet DEF InFlight, NotDone
<1>5. ClientInv
  <2>1. ClientShape
    <3>1. run.c = 1 /\ run.prompts = 1
      BY <1>1
    <3>2. /\ tasks \in Seq(TaskStates) /\ Len(tasks) <= total /\ total \in 0..run.prompts
          /\ slots \in Int /\ slots + Cardinality(InFlight) = run.c
      BY <1>1, <1>4, <3>1
    <3> QED
      BY <1>1, <1>3, <3>2, SlowServersAre DEF ClientShape
  <2>2. Requests
    BY <1>1 DEF Requests, Live, Starting, Closing
  <2>3. SlowDown
    BY <1>1 DEF SlowDown, Starting, Sending, Closing
  <2> QED
    BY <2>1, <2>2, <2>3 DEF ClientInv
<1>6. ScriptInv
  <2>1. job.concurrencies \in Seq(Nat \ {0}) /\ job.concurrencies # <<>> /\ job.workers \in Seq(Nat)
    BY <1>2, JobsAssumption DEF Job
  <2>2. Turns = 1..Len(job.concurrencies) /\ 1 \in Turns
    BY <2>1 DEF Turns
  <2>3. Remains(<<>>, job.workers) /\ <<>> \in Seq(Nat) /\ <<>> \in Seq(Snapshots)
    BY <2>1, RemainsAll
  <2>4. ScriptShape
    BY <1>1, <1>2, <2>2, <2>3 DEF ScriptShape, Steps
  <2>5. Clients
    BY <1>1, <1>2 DEF Clients, Live, Quiet
  <2>6. Scrapes
    BY <1>2 DEF Scrapes
  <2>7. Profilers
    BY <1>2 DEF Profilers
  <2>8. Results
    BY <1>1, <1>2 DEF Results, Behind
  <2> QED
    BY <2>4, <2>5, <2>6, <2>7, <2>8 DEF ScriptInv
<1> QED
  BY <1>5, <1>6 DEF IInv

LEMMA NextIInv == IInv /\ [Next]_vars => IInv'
<1> SUFFICES ASSUME IInv, [Next]_vars PROVE IInv'
  OBVIOUS
<1>0. ClientInv /\ ScriptInv
  BY DEF IInv
<1>1. CASE ScriptStep
  <2>1. CASE Warmup \/ Formal
    BY <2>1, StartsKeep
  <2>2. CASE ~(Warmup \/ Formal)
    <3>1. ScriptInv'
      BY <1>1, <2>2, BeforeLoopKeeps, WithinTurnKeeps, ScrapeKeeps, UnscrapeKeeps, FinishKeeps,
         RollupKeeps DEF ScriptStep
    <3>2. UNCHANGED clientVars
      BY <1>1, <2>2 DEF ScriptStep, Deps, StartProfile, NoWarmup, WarmedUp, StartScrape, Measured,
                        NextTurn, StopProfile, Complete, Trap, TrapEnds, Rollup
    <3> QED
      BY <1>0, <3>1, <3>2, ClientSame DEF IInv, clientVars
  <2> QED
    BY <2>1, <2>2
<1>2. CASE (ClientStep \/ Interrupt) /\ UNCHANGED scriptVars
  BY <1>0, <1>2, ClientKeeps, ClientKeepsScript DEF IInv
<1>3. CASE Tick
  <2>1. UNCHANGED clientVars
    BY <1>3 DEF Tick
  <2> QED
    BY <1>0, <1>3, <2>1, ScrapeKeeps, ClientSame DEF IInv, clientVars
<1>4. CASE Kill
  BY <1>0, <1>4, KillKeeps, KillKeepsScript DEF IInv
<1>5. CASE UNCHANGED vars
  <2>1. UNCHANGED clientVars /\ UNCHANGED scriptVars
    BY <1>5 DEF vars
  <2>2. ClientInv'
    BY <1>0, <2>1, ClientSame DEF clientVars
  <2>3. UNCHANGED <<job, step, at, code, scraping, target, index, pending, started, profiled, deaf, rollup>>
        /\ UNCHANGED <<phase, exit, run, cancelling, lifter, todo, results, traces>>
    BY <2>1 DEF clientVars, scriptVars
  <2>4. /\ Scrapes' /\ Profilers' /\ WarmupArguments' = WarmupArguments
        /\ FormalArguments' = FormalArguments /\ Concurrency' = Concurrency
        /\ Turns' = Turns /\ Concurrencies(job)' = Concurrencies(job) /\ Behind' = Behind
    BY <1>0, <2>1, ScriptSame
  <2>5. ScriptShape' /\ Clients'
    BY <1>0, <2>3, <2>4 DEF ScriptInv, ScriptShape, Clients, Live, Quiet
  <2>6. /\ \A c : Good(c)' = Good(c)
        /\ \A k : Kept(k)' = Kept(k)
        /\ Runs' = Runs
    BY <2>3, SameKept
  <2>7. Results'
    BY <1>0, <2>3, <2>4, <2>6 DEF ScriptInv, Results
  <2> QED
    BY <2>2, <2>4, <2>5, <2>7 DEF IInv, ScriptInv
<1> QED
  BY <1>1, <1>2, <1>3, <1>4, <1>5 DEF Next

-----------------------------------------------------------------------------
(* Theorems                                                                *)

\* The client and the script that calls it keep what each of them keeps for the other:
\* the results of the turns behind, the snapshots, the profilers and the slow_down.
THEOREM BenchmarkInvariant == Spec => []IInv
<1>1. Init => IInv
  BY InitIInv
<1>2. IInv /\ [Next]_vars => IInv'
  BY NextIInv
<1> QED
  BY <1>1, <1>2, PTL DEF Spec

LEMMA IInvTypes == IInv => TypeOK
<1> SUFFICES ASSUME IInv PROVE TypeOK
  OBVIOUS
<1>0. ClientShape /\ ScriptShape
  BY DEF IInv, ClientInv, ScriptInv
<1>1. IsSuffix(todo, SlowServers)
  BY <1>0, SuffixIs, SlowServersAre DEF ClientShape
<1>2. IsSuffix(pending, job.workers)
  BY <1>0, SuffixIs, JobIs DEF ScriptShape
<1>3. ClientTypeOK
  <2>1. \A i \in DOMAIN tasks :
          tasks[i] \in {"waiting", "inflight", "ok", "failed", "raised", "cancelled"}
    BY <1>0 DEF ClientShape, TaskStates
  <2> QED
    BY <1>0, <1>1, <2>1 DEF ClientShape, ClientTypeOK, Starting, Sending, Closing, Servers
<1> QED
  BY <1>0, <1>2, <1>3 DEF TypeOK, ScriptShape, Steps

\* The last run with a concurrency is the one its result is of.
LEMMA LastIs ==
  ASSUME ScriptShape, NEW c \in Concurrencies(job), Good(c),
         \A k \in Turns : job.concurrencies[k] = c => results[c].run >= k
  PROVE  results[c].run = LastTurn(c)
<1> DEFINE K == {k \in Turns : job.concurrencies[k] = c}
           r == results[c].run
<1>1. r \in K /\ (\A k \in K : r >= k) /\ \A k \in K : k \in Nat
  BY JobIs DEF Good
<1>2. \A m \in K : (\A k \in K : m >= k) => m = r
  BY <1>1
<1>3. Max(K) = r
  <2>1. Max(K) = CHOOSE m \in K : \A k \in K : m >= k
    BY DEF Max
  <2> HIDE DEF K, r
  <2> QED
    BY <1>1, <1>2, <2>1
<1> QED
  BY <1>3 DEF LastTurn

\* As many results as concurrencies: no two are about the same run.
LEMMA RunsCount ==
  ASSUME ScriptShape, \A c \in Concurrencies(job) : Good(c)
  PROVE  Cardinality(Runs) = Cardinality(Concurrencies(job))
<1> DEFINE C == Concurrencies(job)
           f == [c \in C |-> results[c]]
           g == [k \in Turns |-> job.concurrencies[k]]
<1>1. \A c \in C : results[c] \notin {NoFile, Truncated}
  BY DEF Good, NoFile, Truncated, Blank
<1>2. Runs = {results[c] : c \in C}
  BY <1>1 DEF Runs, ScriptShape
<1>3. \A c, d \in C : results[c] = results[d] => c = d
  BY DEF Good
<1>4. f \in Bijection(C, Runs)
  <2>1. f \in [C -> Runs]
    BY <1>2
  <2>2. \A c, d \in C : f[c] = f[d] => c = d
    BY <1>3
  <2>3. \A r \in Runs : \E c \in C : f[c] = r
    BY <1>2
  <2> HIDE DEF f
  <2> QED
    BY <2>1, <2>2, <2>3, Fun_IsBij
<1>5. IsFiniteSet(C)
  <2>1. Turns = 1..Len(job.concurrencies) /\ Len(job.concurrencies) \in Nat
        /\ DOMAIN job.concurrencies = Turns
    BY JobIs DEF Turns
  <2>2. IsFiniteSet(Turns)
    BY <2>1, FS_Interval
  <2>3. g \in Surjection(Turns, C)
    <3>1. g \in [Turns -> C] /\ \A c \in C : \E k \in Turns : g[k] = c
      BY <2>1 DEF Concurrencies, Range
    <3> HIDE DEF g
    <3> QED
      BY <3>1, Fun_IsSurj
  <2> HIDE DEF g
  <2> QED
    BY <2>2, <2>3, FS_Surjection
<1>6. ExistsBijection(C, Runs)
  BY <1>4 DEF ExistsBijection
<1> QED
  BY <1>5, <1>6, FS_Bijection

\* bench.sh ends with 0 only when every concurrency has a complete result of its last
\* measured run, with a trace where one was asked for; no warm-up or truncated file is
\* ever rolled up, and then there are as many results in the rollup as concurrencies.
THEOREM ResultsAreOfTheRun == Spec => []MeasurementsSound
<1>1. IInv => ZeroMeansMeasured
  <2> SUFFICES ASSUME IInv PROVE ZeroMeansMeasured
    OBVIOUS
  <2>0. ScriptShape /\ Results
    BY DEF IInv, ScriptInv
  <2>1. ASSUME code = "ok"
        PROVE  /\ \A k \in Turns : Kept(k)
               /\ \A c \in Concurrencies(job) : Good(c) /\ results[c].run = LastTurn(c)
                                                /\ (job.trace => c \in traces)
    <3>1. step = "over" /\ at = Len(job.concurrencies) /\ Behind = at
      BY <2>0, <2>1 DEF ScriptShape, Results, Behind
    <3>2. Turns = 1..at
      BY <2>0, <3>1, JobIs
    <3>3. \A k \in Turns : Kept(k)
      BY <2>0, <2>1, <3>1, <3>2 DEF Results
    <3>4. ASSUME NEW c \in Concurrencies(job)
          PROVE  Good(c) /\ results[c].run = LastTurn(c) /\ (job.trace => c \in traces)
      <4>1. PICK k \in Turns : job.concurrencies[k] = c
        BY DEF Turns, Concurrencies, Range
      <4>2. Good(c) /\ (job.trace => c \in traces)
        BY <3>3, <4>1 DEF Kept
      <4>3. \A j \in Turns : job.concurrencies[j] = c => results[c].run >= j
        BY <3>3 DEF Kept
      <4> QED
        BY <2>0, <4>2, <4>3, LastIs
    <3> QED
      BY <3>3, <3>4
  <2>2. code = "ok" => \A c \in Concurrencies(job) :
          /\ results[c] \notin {NoFile, Truncated}
          /\ results[c].run = LastTurn(c)
          /\ results[c].completed <= results[c].outputs /\ results[c].outputs > 0
          /\ job.trace => c \in traces
    BY <2>1 DEF Good, NoFile, Truncated, Blank
  <2>3. rollup # NotRun => rollup = Runs
    BY <2>0 DEF Results
  <2>4. \A r \in Runs : r # Truncated /\ r.run \in Turns
    <3> TAKE r \in Runs
    <3>1. PICK c \in Concurrencies(job) : results[c] = r /\ r \notin {NoFile, Truncated}
      BY <2>0 DEF Runs, ScriptShape
    <3> QED
      BY <2>0, <3>1 DEF Results, Good
  <2>5. code = "ok" => Cardinality(Runs) = Cardinality(Concurrencies(job))
    BY <2>0, <2>1, RunsCount
  <2> QED
    BY <2>2, <2>3, <2>4, <2>5 DEF ZeroMeansMeasured
<1> QED
  BY <1>1, IInvTypes, BenchmarkInvariant, PTL DEF MeasurementsSound

\* The pool is closed behind the last request on every way out; a client that succeeded
\* has lifted its slow_down unless a POST went unanswered; a script that was not killed
\* has stopped its scrape, closed every series and stopped the profilers that listened.
THEOREM WhatIsBegunIsUndone == Spec => []AllUndone
<1>1. IInv => AllUndone
  <2> SUFFICES ASSUME IInv PROVE AllUndone
    OBVIOUS
  <2>0. ClientShape /\ Requests /\ SlowDown /\ ScriptShape /\ Scrapes /\ Profilers
    BY DEF IInv, ClientInv, ScriptInv
  <2>1. PoolOutlivesRequests
    BY <2>0 DEF Requests, PoolOutlivesRequests
  <2>2. SlowDownLifted
    BY <2>0 DEF Requests, SlowDown, SlowDownLifted, Live
  <2>3. CleanedUp
    <3>1. code \in {"ok", "error"} => ~scraping /\ profiled \subseteq deaf /\ target = 0
      BY <2>0 DEF ScriptShape, Scrapes, Profilers
    <3>2. \A c \in Concurrencies(job) : c # 0
      BY <2>0, JobIs
    <3> QED
      BY <2>0, <3>1, <3>2 DEF CleanedUp, Scrapes
  <2> QED
    BY <2>1, <2>2, <2>3 DEF AllUndone
<1> QED
  BY <1>1, BenchmarkInvariant, PTL
=============================================================================
