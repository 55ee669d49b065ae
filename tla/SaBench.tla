------------------------------ MODULE SaBench -------------------------------
(***************************************************************************)
(* The benchmark client of a job: sa-bench/bench.sh runs one load          *)
(* generator (ServingClient) after the other, a warm-up and a measured run *)
(* for each concurrency, while it scrapes metrics in the background and    *)
(* with the workers' profilers on; the postprocess stage then gathers the  *)
(* results with rollup.py.                                                 *)
(*                                                                         *)
(* The script is under set -e: the first command that fails ends it,       *)
(* through the trap that cleans up.                                        *)
(***************************************************************************)
EXTENDS ServingClient

CONSTANTS Jobs,         \* what bench.sh is called with
          MaxTicks      \* bound: scrapes in the background for each result file

\* profile is the type of profiling together with the frontend the script is told of.
Job == [concurrencies: Seq(Nat \ {0}), mult: Nat \ {0}, warmup_mult: Nat,
        rate: {"inf", "finite"}, dataset: Datasets, pooled: BOOLEAN,
        slow_down: BOOLEAN, trace: BOOLEAN, metrics: BOOLEAN,
        profile: {"none", "known frontend", "other frontend"}, workers: Seq(Nat)]

ASSUME JobsAssumption == Jobs \subseteq Job /\ \A j \in Jobs : j.concurrencies # <<>>
ASSUME MaxTicksAssumption == MaxTicks \in Nat

VARIABLES
    job,
    step,      \* where the script is; "over": it has ended
    at,        \* the concurrency of this turn of the loop
    code,      \* the script's exit: "none", "ok", "error" or "killed"
    scraping,  \* the background loop runs
    target,    \* METRICS_SCRAPE_DIR: the concurrency whose metrics are scraped, 0 if none
    index,     \* what the index file of each concurrency lists
    pending,   \* the workers a loop over profiling endpoints has still to reach
    started,   \* profiling__started
    profiled,  \* the workers whose profiler runs
    deaf,      \* the workers whose stop request failed
    rollup     \* the runs in benchmark-rollup.json; without any it is not written

scriptVars == <<job, step, at, code, scraping, target, index, pending, started, profiled,
                deaf, rollup>>
vars == <<clientVars, scriptVars>>

Turns == DOMAIN job.concurrencies
Concurrency == job.concurrencies[at]
Concurrencies(j) == Range(j.concurrencies)
NotRun == {NoFile}

Init ==
    /\ job \in Jobs
    /\ step = "deps" /\ at = 1 /\ code = "none"
    /\ scraping = FALSE /\ target = 0
    /\ index = [c \in Concurrencies(job) |-> <<>>]
    /\ pending = <<>> /\ started = FALSE /\ profiled = {} /\ deaf = {}
    /\ rollup = NotRun
    /\ ClientInit(Concurrencies(job))

-----------------------------------------------------------------------------
(* Before the loop.                                                        *)

\* The Python packages are there or can be installed; the trap is set afterwards.
Deps ==
    /\ step = "deps"
    /\ \/ /\ step' = IF job.profile = "none" THEN "turn" ELSE "profile"
          /\ pending' = IF job.profile = "none" THEN <<>> ELSE job.workers
          /\ UNCHANGED code
       \/ step' = "over" /\ code' = "error" /\ UNCHANGED pending
    /\ UNCHANGED <<clientVars, job, at, scraping, target, index, started, profiled, deaf, rollup>>

\* A worker whose profiler does not start is a warning, a frontend for which the path is
\* not known is an error.  The flag is set after the last worker.
StartProfile ==
    /\ step = "profile"
    /\ IF pending = <<>>
         THEN started' = TRUE /\ step' = "turn" /\ UNCHANGED <<pending, profiled>>
         ELSE /\ UNCHANGED started
              /\ IF job.profile = "other frontend"
                   THEN step' = "trap" /\ pending' = <<>> /\ UNCHANGED profiled
                   ELSE /\ profiled' \in {profiled, profiled \cup {Head(pending)}}
                        /\ pending' = Tail(pending) /\ UNCHANGED step
    /\ UNCHANGED <<clientVars, job, at, code, scraping, target, index, deaf, rollup>>

-----------------------------------------------------------------------------
(* One turn of the loop: a warm-up, then the measured run.                 *)

WarmupArguments ==
    [c |-> Concurrency, prompts |-> Concurrency * job.warmup_mult, dataset |-> job.dataset,
     rate |-> "finite", pooled |-> job.pooled, slow_down |-> FALSE, trace |-> FALSE, save |-> 0]

FormalArguments ==
    [c |-> Concurrency, prompts |-> Concurrency * job.mult, dataset |-> job.dataset,
     rate |-> job.rate, pooled |-> job.pooled, slow_down |-> job.slow_down,
     trace |-> job.trace, save |-> at]

Warmup ==
    /\ step = "turn" /\ job.warmup_mult > 0
    /\ StartClient(WarmupArguments)
    /\ step' = "warmup"
    /\ UNCHANGED <<job, at, code, scraping, target, index, pending, started, profiled, deaf, rollup>>

NoWarmup ==
    /\ step = "turn" /\ job.warmup_mult = 0
    /\ step' = "scrape"
    /\ UNCHANGED <<clientVars, job, at, code, scraping, target, index, pending, started,
                   profiled, deaf, rollup>>

ClientEnded(next) == phase = "gone" /\ step' = IF exit = "ok" THEN next ELSE "trap"

WarmedUp ==
    /\ step = "warmup" /\ ClientEnded("scrape")
    /\ UNCHANGED <<clientVars, job, at, code, scraping, target, index, pending, started,
                   profiled, deaf, rollup>>

Listed(what) == index' = [index EXCEPT ![target] = Append(@, what)]

StartScrape ==
    /\ step = "scrape"
    /\ IF job.metrics
         THEN /\ target' = Concurrency /\ scraping' = TRUE
              /\ index' = [index EXCEPT ![Concurrency] = Append(@, "baseline")]
         ELSE UNCHANGED <<target, scraping, index>>
    /\ step' = "formal"
    /\ UNCHANGED <<clientVars, job, at, code, pending, started, profiled, deaf, rollup>>

Tick ==
    /\ scraping
    /\ Len(index[target]) - 1 < MaxTicks
    /\ Listed("tick")
    /\ UNCHANGED <<clientVars, job, step, at, code, scraping, target, pending, started,
                   profiled, deaf, rollup>>

Formal ==
    /\ step = "formal"
    /\ StartClient(FormalArguments)
    /\ step' = "measured"
    /\ UNCHANGED <<job, at, code, scraping, target, index, pending, started, profiled, deaf, rollup>>

Measured ==
    /\ step = "measured" /\ ClientEnded("unscrape")
    /\ UNCHANGED <<clientVars, job, at, code, scraping, target, index, pending, started,
                   profiled, deaf, rollup>>

\* stop_metrics_scrape: end the loop, take a last snapshot, and forget the directory.
StopScrape ==
    /\ scraping' = FALSE
    /\ IF target = 0 THEN UNCHANGED index ELSE Listed("final")
    /\ target' = 0

NextTurn ==
    /\ step = "unscrape"
    /\ StopScrape
    /\ IF at < Len(job.concurrencies)
         THEN at' = at + 1 /\ step' = "turn" /\ UNCHANGED pending
         ELSE /\ step' = "unprofile" /\ UNCHANGED at
              /\ pending' = IF started THEN job.workers ELSE <<>>
    /\ UNCHANGED <<clientVars, job, code, started, profiled, deaf, rollup>>

-----------------------------------------------------------------------------
(* After the loop, and the trap.                                           *)

\* The profiler of one worker is stopped, or the request fails, which is ignored.
StopProfile ==
    /\ step \in {"unprofile", "cleanup"} /\ pending # <<>>
    /\ \/ profiled' = profiled \ {Head(pending)} /\ UNCHANGED deaf
       \/ deaf' = deaf \cup {Head(pending)} /\ UNCHANGED profiled
    /\ pending' = Tail(pending)
    /\ UNCHANGED <<clientVars, job, step, at, code, scraping, target, index, started, rollup>>

\* exit 0; the trap's cleanup stops the scrape once more, and profiling if it is on.
Complete ==
    /\ step = "unprofile" /\ pending = <<>>
    /\ started' = FALSE
    /\ StopScrape
    /\ step' = "over" /\ code' = "ok"
    /\ UNCHANGED <<clientVars, job, at, pending, profiled, deaf, rollup>>

Trap ==
    /\ step = "trap"
    /\ StopScrape
    /\ step' = "cleanup" /\ pending' = IF started THEN job.workers ELSE <<>>
    /\ UNCHANGED <<clientVars, job, at, code, started, profiled, deaf, rollup>>

TrapEnds ==
    /\ step = "cleanup" /\ pending = <<>>
    /\ started' = FALSE
    /\ step' = "over" /\ code' = "error"
    /\ UNCHANGED <<clientVars, job, at, scraping, target, index, pending, profiled, deaf, rollup>>

\* The job's cleanup kills the srun step with everything in it.
Kill ==
    /\ step # "over"
    /\ step' = "over" /\ code' = "killed" /\ scraping' = FALSE
    /\ phase' = "gone"
    /\ exit' = IF Live THEN "error" ELSE exit
    /\ UNCHANGED <<run, total, tasks, slots, cancelling, session, lifter, todo, slowed, lost,
                   results, traces, job, at, target, index, pending, started, profiled, deaf, rollup>>

\* A file that cannot be parsed is skipped.
Runs == {results[c] : c \in {d \in DOMAIN results : results[d] \notin {NoFile, Truncated}}}

\* The postprocess stage runs rollup.py, whatever became of the benchmark.
Rollup ==
    /\ step = "over" /\ rollup = NotRun
    /\ rollup' = Runs
    /\ UNCHANGED <<clientVars, job, step, at, code, scraping, target, index, pending, started,
                   profiled, deaf>>

ScriptStep ==
    \/ Deps \/ StartProfile \/ Warmup \/ NoWarmup \/ WarmedUp \/ StartScrape
    \/ Formal \/ Measured \/ NextTurn \/ StopProfile \/ Complete \/ Trap \/ TrapEnds \/ Rollup

Next ==
    \/ ScriptStep
    \/ ClientStep /\ UNCHANGED scriptVars
    \/ Interrupt /\ UNCHANGED scriptVars
    \/ Tick
    \/ Kill

\* Every wait of the client has a timeout, every request and POST ends; the script's own
\* requests to the endpoint and the workers are assumed to be answered.
Fairness == WF_vars(ScriptStep) /\ WF_vars(ClientStep /\ UNCHANGED scriptVars)

Spec == Init /\ [][Next]_vars /\ Fairness

-----------------------------------------------------------------------------

TypeOK ==
    /\ ClientTypeOK
    /\ job \in Jobs /\ at \in Turns
    /\ step \in {"deps", "profile", "turn", "warmup", "scrape", "formal", "measured", "unscrape",
                 "unprofile", "trap", "cleanup", "over"}
    /\ code \in {"none", "ok", "error", "killed"}
    /\ scraping \in BOOLEAN /\ target \in {0} \cup Concurrencies(job)
    /\ IsSuffix(pending, job.workers)
    /\ started \in BOOLEAN
    /\ profiled \subseteq Range(job.workers) /\ deaf \subseteq Range(job.workers)
    /\ DOMAIN results = Concurrencies(job) /\ traces \subseteq Concurrencies(job)

LastTurn(c) == Max({k \in Turns : job.concurrencies[k] = c})

\* A script that ends with 0 has measured every concurrency it was given: each has a
\* complete result of its own last measured run, never of a warm-up, with some output and
\* no more completed requests than outputs, and a request trace if one was asked for.  The rollup consists of
\* complete results of measured runs on every way the script ends.
ZeroMeansMeasured ==
    /\ code = "ok" => \A c \in Concurrencies(job) :
          /\ results[c] \notin {NoFile, Truncated}
          /\ results[c].run = LastTurn(c)
          /\ results[c].completed <= results[c].outputs /\ results[c].outputs > 0
          /\ job.trace => c \in traces
    /\ rollup # NotRun => \A r \in rollup : r # Truncated /\ r.run \in Turns
    /\ code = "ok" /\ rollup # NotRun => Cardinality(rollup) = Cardinality(Concurrencies(job))

MeasurementsSound == TypeOK /\ ZeroMeansMeasured

\* A script that was not killed leaves nothing behind that it started: no scrape loop, and
\* a profiler only on a worker that did not take the request to stop.  Each series of
\* snapshots in an index is closed by one final snapshot, and nothing follows it.
CleanedUp ==
    /\ code \in {"ok", "error"} =>
          /\ ~scraping /\ profiled \subseteq deaf
          /\ \A c \in Concurrencies(job) : index[c] # <<>> => Last(index[c]) = "final"
    /\ \A c \in Concurrencies(job) : \A k \in 1..(Len(index[c]) - 1) :
          index[c][k] = "final" <=> index[c][k + 1] = "baseline"

\* Client and script undo what they began: requests, pool, slow_down, scrape, profilers.
AllUndone == PoolOutlivesRequests /\ SlowDownLifted /\ CleanedUp

\* The script and the rollup after it come to an end.
ScriptEnds == <>(step = "over" /\ rollup # NotRun)
=============================================================================
