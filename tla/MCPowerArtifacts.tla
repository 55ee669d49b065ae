-------------------------- MODULE MCPowerArtifacts --------------------------
(* One node with two GPUs; one or two points of concurrency; roles that    *)
(* conflict; and the window files of an earlier attempt of the job, which  *)
(* was over before Start: the same name, two others for one key, one of a  *)
(* point that is not reached again, broken ones.  The time                 *)
(* is enough for a window with two adjacent gaps, one of them too large.   *)
EXTENDS PowerArtifacts

Worker(role, gpus, het) == [role |-> role, node |-> "n1", gpus |-> gpus, het |-> het]
Disaggregated == {Worker("prefill", {0}, 0), Worker("decode", {1}, 0)}
Overlapping == {Worker("prefill", {0, 1}, 0), Worker("decode", {1}, 0)}
TwoGroups == {Worker("prefill", {0}, 0), Worker("decode", {1}, 1)}
OneGpu == {Worker("agg", {0}, 0)}

Old(name, c, status, start, end, duration, reason) ==
    WindowFile(name, c, status, [start |-> start, end |-> end, duration |-> duration], reason)
OldPoint(name) == Old(name, "c4", "completed", 0, 1, 1, FALSE)
OldWindows(names) == [n \in names |-> OldPoint(n)]

Job(workers, points, old) == [placement |-> workers, plan |-> points, files |-> old]
One == <<"c4">>
Two == <<"c4", "c8">>
MCJobs ==
    {Job(Disaggregated, Two, OldWindows({})),
     Job(Overlapping, One, OldWindows({})),
     Job(TwoGroups, One, OldWindows({})),
     Job(OneGpu, One, OldWindows({})),
     Job(Disaggregated, One, OldWindows({"c4"})),
     Job(Disaggregated, One, OldWindows({"a", "b"})),
     Job(Disaggregated, One, [n \in {"c8"} |-> Old(n, "c8", "running", 0, None, None, FALSE)]),
     Job(Disaggregated, One, [n \in {"c4"} |-> Old(n, "c4", "completed", 0, 1, 0, FALSE)]),
     Job(Disaggregated, One, [n \in {"a"} |-> [OldPoint(n) EXCEPT !.kind = "unsafe"]])}
=============================================================================
