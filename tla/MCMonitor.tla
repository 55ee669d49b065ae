----------------------------- MODULE MCMonitor ------------------------------
(* A job that was killed in its benchmark and one that has waited since     *)
(* before, and gets to its orchestrator, on a screen of three lines.        *)
EXTENDS Monitor

MCLives == [j \in Jobs |->
    IF j \in OldJobs
    THEN { <<"orchestrator", "infra", "ready", "workers", "frontend", "polling", "healthy",
             "result">> }
    ELSE { <<"orchestrator">> }]
MCHeight == [j \in Jobs |-> IF j \in OldJobs THEN 3 ELSE 2]
=============================================================================
