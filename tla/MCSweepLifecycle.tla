--------------------------- MODULE MCSweepLifecycle ---------------------------
(* SweepLifecycle for TLC: four jobs that between them use every stage.    *)
EXTENDS SweepLifecycle

CONSTANTS infra, worker, side

NoGroups == [s \in Stages |-> {}]

(* A Dynamo benchmark with required power telemetry and host_setup. *)
BenchmarkJob ==
    [group |-> [NoGroups EXCEPT !["workers"] = {worker}, !["exporters"] = {side}],
     mode |-> "benchmark", telemetry |-> "required", post_eval |-> FALSE,
     host_setup |-> TRUE, model |-> "plain", s3 |-> FALSE, signals |-> 1]

(* A benchmark followed by lm-eval, with an upload to S3; its head processes
   run while the model is copied to the nodes. *)
EvaluatedJob ==
    [group |-> [NoGroups EXCEPT !["head"] = {infra}],
     mode |-> "benchmark", telemetry |-> "off", post_eval |-> TRUE,
     host_setup |-> TRUE, model |-> "staged", s3 |-> TRUE, signals |-> 2]

(* Serve-only with a Mooncake master and a pre-download. *)
ServingJob ==
    [group |-> [NoGroups EXCEPT !["mooncake"] = {infra}],
     mode |-> "serve_only", telemetry |-> "best_effort", post_eval |-> FALSE,
     host_setup |-> FALSE, model |-> "hub", s3 |-> FALSE, signals |-> 2]

(* Eval-only with a frontend process and the Tachometer sidecar. *)
EvalOnlyJob ==
    [group |-> [NoGroups EXCEPT !["frontend"] = {worker}, !["tachometer"] = {side}],
     mode |-> "eval_only", telemetry |-> "required", post_eval |-> FALSE,
     host_setup |-> TRUE, model |-> "plain", s3 |-> FALSE, signals |-> 1]

MCConfigs == {BenchmarkJob, EvaluatedJob, ServingJob, EvalOnlyJob}
MCFrames == {"main", "handler", "nested", "monitor"}
MCProcs == {infra, worker, side}
MCNonCritical == {side}
=============================================================================
