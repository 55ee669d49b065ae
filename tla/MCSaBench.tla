----------------------------- MODULE MCSaBench ------------------------------
(* Jobs around the connection pool, the slow_down, the scrape and profiling, *)
(* and results that are written twice.                                       *)
EXTENDS SaBench

J(concurrencies) ==
    [concurrencies |-> concurrencies, mult |-> 2, warmup_mult |-> 0, rate |-> "inf",
     dataset |-> "random", pooled |-> FALSE, slow_down |-> FALSE, trace |-> FALSE,
     metrics |-> FALSE, profile |-> "none", workers |-> <<>>]

MCJobs == {
    \* Four requests, two at a time, over a shared pool and without one.
    [J(<<2>>) EXCEPT !.pooled = TRUE, !.rate = "finite", !.dataset = "sonnet"],
    [J(<<2>>) EXCEPT !.dataset = "custom", !.trace = TRUE],
    [J(<<1>>) EXCEPT !.rate = "finite", !.dataset = "hf", !.warmup_mult = 1],
    \* Slowed decode workers, with the pool and without.
    [J(<<1>>) EXCEPT !.slow_down = TRUE, !.pooled = TRUE, !.warmup_mult = 1],
    [J(<<2>>) EXCEPT !.slow_down = TRUE, !.mult = 1, !.rate = "finite", !.dataset = "sharegpt"],
    \* Several concurrencies, one of them twice; scrape, trace and profilers.
    [J(<<1, 2, 1>>) EXCEPT !.dataset = "burstgpt", !.mult = 1, !.warmup_mult = 1, !.metrics = TRUE, !.trace = TRUE],
    [J(<<1, 2>>) EXCEPT !.mult = 1, !.metrics = TRUE, !.profile = "known frontend", !.workers = <<1, 2>>],
    [J(<<1>>) EXCEPT !.metrics = TRUE, !.profile = "other frontend", !.workers = <<1>>] }

MCServers == <<"decode0", "decode1">>
=============================================================================
