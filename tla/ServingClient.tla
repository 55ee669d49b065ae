--------------------------- MODULE ServingClient ----------------------------
(***************************************************************************)
(* One process of the load generator sa-bench/benchmark_serving.py: it     *)
(* samples its prompts, sends one to see that the endpoint answers, slows  *)
(* the decode workers down if it is told to, sends the others with a       *)
(* bounded number in flight, and saves what came back.                     *)
(*                                                                         *)
(* Everything after the sampling runs on one event loop: the main          *)
(* coroutine, one task per request, and the task that lifts the slow_down  *)
(* after a while.  A step of this module is what one of them does between  *)
(* two awaits.                                                             *)
(***************************************************************************)
EXTENDS Integers, Sequences, FiniteSets, SequencesExt, FiniteSetsExt

CONSTANT SlowServers      \* the decode workers' /slow_down URLs, in order

ASSUME SlowServersAssumption ==
    /\ SlowServers \in Seq(Range(SlowServers)) /\ SlowServers # <<>>
    /\ IsInjective(SlowServers)

VARIABLES
    phase,       \* of the main coroutine; "gone": there is no process
    exit,        \* how the last process ended: "none", "ok" or "error"
    run,         \* the arguments of the process
    total,       \* how many prompts were sampled
    tasks,       \* the state of each request issued
    slots,       \* free places of the semaphore
    cancelling,  \* the tasks that a CancelledError is on its way to
    session,     \* the shared connection pool: "none", "open" or "closed"
    lifter,      \* the task that ends the slow_down
    todo,        \* the servers that the POSTs under way have still to reach
    slowed,      \* the servers that sleep between their steps
    lost,        \* some POST was not answered with success
    results,     \* result file by concurrency: NoFile, Truncated or what it says
    traces       \* the concurrencies whose request trace was written

clientVars == <<phase, exit, run, total, tasks, slots, cancelling, session, lifter, todo,
                slowed, lost, results, traces>>

Blank(state) == [state |-> state, run |-> 0, outputs |-> 0, completed |-> 0]
NoFile == Blank("none")
Truncated == Blank("truncated")

Datasets == {"random", "burstgpt", "sonnet", "sharegpt", "hf", "custom"}

\* save is --save-result with the number of the run it is for, 0 if it is not given.
Arguments == [c: Nat \ {0}, prompts: Nat \ {0}, dataset: Datasets,
              rate: {"inf", "finite"}, pooled: BOOLEAN, slow_down: BOOLEAN,
              trace: BOOLEAN, save: Nat]

Live == phase # "gone"
Over(i) == tasks[i] \in {"ok", "failed", "raised", "cancelled"}
NotDone == {i \in DOMAIN tasks : ~Over(i)}
InFlight == {i \in DOMAIN tasks : tasks[i] = "inflight"}

\* The process ends; asyncio.run has cancelled whatever was still on the loop.
Exits(how) ==
    /\ phase' = "gone" /\ exit' = how
    /\ lifter' = "none" /\ todo' = <<>> /\ cancelling' = {}

ClientInit(concurrencies) ==
    /\ phase = "gone" /\ exit = "none"
    /\ run = [c |-> 1, prompts |-> 1, dataset |-> "random", rate |-> "inf", pooled |-> FALSE,
              slow_down |-> FALSE, trace |-> FALSE, save |-> 0]
    /\ total = 0 /\ tasks = <<>> /\ slots = 1 /\ cancelling = {}
    /\ session = "none" /\ lifter = "none" /\ todo = <<>>
    /\ slowed = {} /\ lost = FALSE
    /\ results = [c \in concurrencies |-> NoFile] /\ traces = {}

StartClient(args) ==
    /\ phase = "gone"
    /\ phase' = "load" /\ exit' = "none" /\ run' = args
    /\ total' = 0 /\ tasks' = <<>> /\ slots' = args.c /\ session' = "none"
    /\ UNCHANGED <<cancelling, lifter, todo, slowed, lost, results, traces>>

-----------------------------------------------------------------------------
(* The prompts.                                                            *)

\* Some samplers make as many prompts as they are asked for, drawing again where there
\* are not enough; those that filter a dataset stop early at its end.
RandomSample(n) == {n}
BurstgptSample(n) == {n}
SonnetSample(n) == {n}
SharegptSample(n) == 0..n
HfSample(n) == 0..n
CustomSample(n) == 0..n
SampleSizes(dataset, n) ==
    CASE dataset = "random" -> RandomSample(n)
      [] dataset = "burstgpt" -> BurstgptSample(n)
      [] dataset = "sonnet" -> SonnetSample(n)
      [] dataset = "sharegpt" -> SharegptSample(n)
      [] dataset = "hf" -> HfSample(n)
      [] dataset = "custom" -> CustomSample(n)

Load ==
    /\ phase = "load"
    /\ \E n \in SampleSizes(run.dataset, run.prompts) :
          /\ n > 0
          /\ total' = n
          /\ session' = IF run.pooled THEN "open" ELSE "none"
          /\ phase' = "test"
    /\ UNCHANGED <<exit, run, tasks, slots, cancelling, lifter, todo, slowed, lost, results, traces>>

\* The tokenizer has no chat template, the dataset cannot be read, or nothing in it
\* can be used: input_requests[0] is an IndexError.
LoadRaises ==
    /\ phase = "load"
    /\ Exits("error")
    /\ UNCHANGED <<run, total, tasks, slots, session, slowed, lost, results, traces>>

-----------------------------------------------------------------------------
(* The initial request, and /slow_down.                                    *)

CloseSession == session' = IF session = "open" THEN "closed" ELSE session

TestSucceeds ==
    /\ phase = "test"
    /\ IF run.slow_down
         THEN phase' = "enable" /\ todo' = SlowServers
         ELSE phase' = "issue" /\ UNCHANGED todo
    /\ UNCHANGED <<exit, run, total, tasks, slots, cancelling, session, lifter, slowed, lost, results, traces>>

TestFails ==
    /\ phase = "test"
    /\ CloseSession /\ Exits("error")
    /\ UNCHANGED <<run, total, tasks, slots, slowed, lost, results, traces>>

MainPosts == phase \in {"enable", "lift"}
LifterPosts == lifter = "posting" /\ ~MainPosts
Posting == Live /\ todo # <<>> /\ (MainPosts \/ LifterPosts)

\* What a POST that reaches the server makes of it.
Applied(s) == IF phase = "enable" THEN slowed \cup {s} ELSE slowed \ {s}

\* The servers are gone through; what was waiting for it goes on.
AfterPosts ==
    IF Tail(todo) # <<>> THEN UNCHANGED <<phase, lifter>>
    ELSE CASE phase = "enable" -> phase' = "issue" /\ lifter' = "sleeping"
           [] phase = "lift" -> phase' = "close" /\ UNCHANGED lifter
           [] OTHER -> lifter' = "done" /\ UNCHANGED phase

PostAnswered ==
    /\ Posting
    /\ slowed' = Applied(Head(todo)) /\ todo' = Tail(todo)
    /\ AfterPosts
    /\ UNCHANGED <<exit, run, total, tasks, slots, cancelling, session, lost, results, traces>>

\* A refused connection or an HTTP error is a warning; the other servers follow.
PostRefused ==
    /\ Posting
    /\ lost' = TRUE /\ todo' = Tail(todo)
    /\ AfterPosts
    /\ UNCHANGED <<exit, run, total, tasks, slots, cancelling, session, slowed, results, traces>>

\* The total timeout is no ClientError: it ends the loop over the servers, and in the
\* main coroutine the whole benchmark.  The server may have been reached.
PostHangs ==
    /\ Posting
    /\ lost' = TRUE
    /\ slowed' \in {slowed, Applied(Head(todo))}
    /\ IF MainPosts
         THEN CloseSession /\ Exits("error")
         ELSE /\ lifter' = "raised" /\ todo' = <<>>
              /\ UNCHANGED <<phase, exit, cancelling, session>>
    /\ UNCHANGED <<run, total, tasks, slots, results, traces>>

\* slow_down_wait_time is over.
LifterWakes ==
    /\ Live /\ lifter = "sleeping"
    /\ lifter' = "posting" /\ todo' = SlowServers
    /\ UNCHANGED <<phase, exit, run, total, tasks, slots, cancelling, session, slowed, lost, results, traces>>

-----------------------------------------------------------------------------
(* The requests.                                                           *)

\* With an infinite rate the loop never awaits: all the tasks exist before any runs.
IssueAll ==
    /\ phase = "issue" /\ run.rate = "inf"
    /\ tasks' = [i \in 1..total |-> "waiting"]
    /\ phase' = "gather"
    /\ UNCHANGED <<exit, run, total, slots, cancelling, session, lifter, todo, slowed, lost, results, traces>>

IssueNext ==
    /\ phase = "issue" /\ run.rate = "finite"
    /\ IF Len(tasks) < total
         THEN tasks' = Append(tasks, "waiting") /\ UNCHANGED phase
         ELSE phase' = "gather" /\ UNCHANGED tasks
    /\ UNCHANGED <<exit, run, total, slots, cancelling, session, lifter, todo, slowed, lost, results, traces>>

\* Of the tasks that wait for the semaphore the oldest gets the place.
Begin(i) ==
    /\ Live /\ slots > 0
    /\ tasks[i] = "waiting" /\ i \notin cancelling
    /\ \A k \in 1..(i - 1) : tasks[k] # "waiting"
    /\ tasks' = [tasks EXCEPT ![i] = "inflight"] /\ slots' = slots - 1
    /\ UNCHANGED <<phase, exit, run, total, cancelling, session, lifter, todo, slowed, lost, results, traces>>

Ends(i, how) ==
    /\ tasks' = [tasks EXCEPT ![i] = how]
    /\ slots' = slots + 1

\* Mutant: a request that failed keeps its place.
Answer_keepsSlot(i) ==
    /\ Live /\ tasks[i] = "inflight" /\ i \notin cancelling
    /\ \E how \in {"ok", "failed"} :
          /\ tasks' = [tasks EXCEPT ![i] = how]
          /\ slots' = IF how = "ok" THEN slots + 1 ELSE slots
    /\ UNCHANGED <<phase, exit, run, total, cancelling, session, lifter, todo, slowed, lost, results, traces>>

\* ok: HTTP 200 with at least one chunk; failed: anything else, exceptions included.
Answer(i) ==
    /\ Live /\ tasks[i] = "inflight" /\ i \notin cancelling
    /\ \E how \in {"ok", "failed"} : Ends(i, how)
    /\ UNCHANGED <<phase, exit, run, total, cancelling, session, lifter, todo, slowed, lost, results, traces>>

\* An exception outside of the request function's try.
Raise(i) ==
    /\ Live /\ tasks[i] = "inflight" /\ i \notin cancelling
    /\ Ends(i, "raised")
    /\ UNCHANGED <<phase, exit, run, total, cancelling, session, lifter, todo, slowed, lost, results, traces>>

Cancelled(i) ==
    /\ Live /\ i \in cancelling
    /\ IF tasks[i] = "inflight" THEN Ends(i, "cancelled")
       ELSE tasks' = [tasks EXCEPT ![i] = "cancelled"] /\ UNCHANGED slots
    /\ cancelling' = cancelling \ {i}
    /\ UNCHANGED <<phase, exit, run, total, session, lifter, todo, slowed, lost, results, traces>>

-----------------------------------------------------------------------------
(* The end of the requests.                                                *)

Gathered ==
    /\ phase = "gather" /\ NotDone = {} /\ \A i \in DOMAIN tasks : tasks[i] # "raised"
    /\ IF lifter \in {"sleeping", "posting"}
         THEN phase' = "lift" /\ lifter' = "cancelled" /\ todo' = SlowServers
         ELSE phase' = "close" /\ UNCHANGED <<lifter, todo>>
    /\ UNCHANGED <<exit, run, total, tasks, slots, cancelling, session, slowed, lost, results, traces>>

\* Mutant: the shared pool is closed without waiting for the tasks that were cancelled.
Unwind_noGather ==
    /\ phase' = "ending" /\ cancelling' = NotDone
    /\ CloseSession
    /\ UNCHANGED <<exit, run, total, tasks, slots, lifter, todo, slowed, lost, results, traces>>

\* The handler around the requests.  With a shared pool it cancels them and waits;
\* without one asyncio.run does, after the exception has left the coroutine.
Unwind ==
    /\ phase' = IF run.pooled THEN "drain" ELSE "ending"
    /\ cancelling' = NotDone
    /\ UNCHANGED <<exit, run, total, tasks, slots, session, lifter, todo, slowed, lost, results, traces>>

\* gather passes the first exception on while the other tasks are under way.
GatherRaises == phase = "gather" /\ (\E i \in DOMAIN tasks : tasks[i] = "raised") /\ Unwind

\* The main coroutine is cancelled (Ctrl-C) while it sleeps between two requests.
InterruptIssue == phase = "issue" /\ run.rate = "finite" /\ tasks # <<>> /\ Unwind

\* A gather that is cancelled cancels its tasks, and raises at the first one that ends
\* cancelled (or with an exception) while others may be under way, or when all are over.
InterruptGather ==
    /\ phase = "gather" /\ \A i \in DOMAIN tasks : tasks[i] # "raised"
    /\ phase' = "interrupted" /\ cancelling' = NotDone
    /\ UNCHANGED <<exit, run, total, tasks, slots, session, lifter, todo, slowed, lost, results, traces>>

InterruptedGather ==
    /\ phase = "interrupted"
    /\ NotDone = {} \/ \E i \in DOMAIN tasks : tasks[i] \in {"raised", "cancelled"}
    /\ Unwind

InterruptElsewhere ==
    /\ phase \in {"load", "test", "enable", "lift", "measure", "write", "writing"}
    /\ CloseSession /\ Exits("error")
    /\ UNCHANGED <<run, total, tasks, slots, slowed, lost, results, traces>>

Drained ==
    /\ phase = "drain" /\ NotDone = {}
    /\ CloseSession /\ phase' = "ending"
    /\ UNCHANGED <<exit, run, total, tasks, slots, cancelling, lifter, todo, slowed, lost, results, traces>>

Ended ==
    /\ phase = "ending" /\ NotDone = {}
    /\ Exits("error")
    /\ UNCHANGED <<run, total, tasks, slots, session, slowed, lost, results, traces>>

-----------------------------------------------------------------------------
(* The result.                                                             *)

CloseBeforeMetrics ==
    /\ phase = "close"
    /\ CloseSession /\ phase' = "measure"
    /\ UNCHANGED <<exit, run, total, tasks, slots, cancelling, lifter, todo, slowed, lost, results, traces>>

\* What the requests come to: failed ones count as outputs of length 0.
Metrics == [state |-> "complete", run |-> run.save, outputs |-> Len(tasks),
            completed |-> Cardinality({i \in DOMAIN tasks : tasks[i] = "ok"})]

\* Mutant: warm-ups are saved as well, under the name of the run they precede.
Measure_savesWarmup ==
    /\ phase = "measure"
    /\ traces' = IF run.trace THEN traces \cup {run.c} ELSE traces
    /\ phase' = "write"
    /\ UNCHANGED <<exit, run, total, tasks, slots, cancelling, session, lifter, todo, slowed, lost, results>>

\* Metrics are computed even if every request failed; the process still ends with 0.
Measure ==
    /\ phase = "measure"
    /\ traces' = IF run.trace THEN traces \cup {run.c} ELSE traces
    /\ IF run.save > 0 THEN phase' = "write" /\ UNCHANGED <<exit, cancelling, lifter, todo>>
                       ELSE Exits("ok")
    /\ UNCHANGED <<run, total, tasks, slots, session, slowed, lost, results>>

\* open(..., "w") empties the file that json.dump then fills.
OpenResult ==
    /\ phase = "write"
    /\ results' = [results EXCEPT ![run.c] = Truncated] /\ phase' = "writing"
    /\ UNCHANGED <<exit, run, total, tasks, slots, cancelling, session, lifter, todo, slowed, lost, traces>>

WriteResult ==
    /\ phase = "writing"
    /\ results' = [results EXCEPT ![run.c] = Metrics]
    /\ Exits("ok")
    /\ UNCHANGED <<run, total, tasks, slots, session, slowed, lost, traces>>

ClientStep ==
    \/ Load \/ LoadRaises \/ TestSucceeds \/ TestFails
    \/ PostAnswered \/ PostRefused \/ PostHangs \/ LifterWakes
    \/ IssueAll \/ IssueNext
    \/ \E i \in DOMAIN tasks : Begin(i) \/ Answer(i) \/ Raise(i) \/ Cancelled(i)
    \/ Gathered \/ GatherRaises \/ InterruptedGather \/ Drained \/ Ended
    \/ CloseBeforeMetrics \/ Measure \/ OpenResult \/ WriteResult

Interrupt == InterruptIssue \/ InterruptGather \/ InterruptElsewhere

-----------------------------------------------------------------------------

ClientTypeOK ==
    /\ phase \in {"gone", "load", "test", "enable", "issue", "gather", "interrupted", "drain",
                  "ending", "lift", "close", "measure", "write", "writing"}
    /\ exit \in {"none", "ok", "error"}
    /\ run \in Arguments
    /\ total \in 0..run.prompts
    /\ Len(tasks) <= total
    /\ \A i \in DOMAIN tasks :
          tasks[i] \in {"waiting", "inflight", "ok", "failed", "raised", "cancelled"}
    /\ slots + Cardinality(InFlight) = run.c
    /\ cancelling \subseteq DOMAIN tasks
    /\ session \in {"none", "open", "closed"}
    /\ lifter \in {"none", "sleeping", "posting", "done", "raised", "cancelled"}
    /\ IsSuffix(todo, SlowServers)
    /\ slowed \subseteq Range(SlowServers)
    /\ lost \in BOOLEAN

\* benchmark_serving.py:888 "A shared pool must outlive every request using it": on
\* whatever way the benchmark ends, the pool is closed when no request is waiting for
\* a place or in flight any more.
PoolOutlivesRequests == session = "closed" => NotDone = {}

\* After a run that succeeded no decode worker is left slowed down, whether the time
\* ran out before, while or after the requests ended, unless a POST went unanswered.
SlowDownLifted == exit = "ok" /\ ~lost => slowed = {}
=============================================================================
