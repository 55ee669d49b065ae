---------------------------- MODULE MCJobRecords ----------------------------
(* A job of each kind, with what its stages, reports and comparisons can   *)
(* meet: clean and changed machines, one worker over two nodes, allocations*)
(* in one order and in another.                                            *)
EXTENDS JobRecords

Machine == [os |-> <<"linux">>, cuda_version |-> <<"12.4", "V12.4.131">>, nccl_version |-> <<"2.21.5">>,
            driver |-> <<"550">>, gpus |-> <<"H100", "H100">>,
            frameworks |-> [vllm |-> <<"0.9">>], env |-> [NCCL_DEBUG |-> "INFO"],
            packages |-> << [torch |-> <<"2.6">>], [torch |-> <<"2.6">>, numpy |-> <<"1.26">>] >>,
            model |-> [repo |-> None, revision |-> "c0ffee"]]
OtherNode == [Machine EXCEPT !.env = [NCCL_DEBUG |-> "WARN"]]

MC_Previous(machine) == 1 :> ScriptCapture(machine, {})

NoIdentity == [repo |-> None, revision |-> None, image |-> None, frameworks |-> NoFun]
Identity == [repo |-> "org/model", revision |-> [commit |-> "c0ffee", digits |-> 7],
             image |-> "image", frameworks |-> [vllm |-> <<"0.9">>]]

U(host) == [host |-> host, slash |-> FALSE]
One == [endpoint |-> U("a"), endpoints |-> <<>>]
Two == [endpoint |-> [U("a") EXCEPT !.slash = TRUE], endpoints |-> <<U("a"), U("b")>>]
NoApi == [endpoint |-> None, endpoints |-> <<>>]

P(w, m) == [worker |-> w, machine |-> m]

\* SLURM's nodes and CPUs, the roles, and the GPUs of the placement.
A(infra, worker, counts, gpus) ==
    [nodes |-> [i \in DOMAIN counts |-> i], infra |-> infra, worker |-> worker, cpus |-> counts,
     gpus |-> gpus, het |-> <<>>, job_cpus |-> [i \in DOMAIN counts |-> [cpus |-> counts[i], times |-> 1]],
     on_node |-> counts[1], affinity |-> counts[1]]
Single == A(1, <<1>>, <<8>>, <<4>>)
Enough == A(1, <<1, 2>>, <<8, 8>>, <<4, 8>>)
Short2 == A(1, <<1, 2>>, <<2, 4>>, <<1, 8>>)
Dedicated == A(1, <<2, 3>>, <<1, 4, 4>>, <<0, 4, 2>>)

J(kind, flags, reporting, processes, allocation) ==
    [kind |-> kind, flags |-> flags, reporting |-> reporting, identity |-> NoIdentity,
     previous |-> None, processes |-> processes, allocation |-> allocation, max_trouble |-> 2]

Smaller == [Machine EXCEPT !.packages = << [torch |-> <<"2.6">>] >>]
Patched == [Machine EXCEPT !.cuda_version = <<"12.4", "V12.4.99">>]

MCJobs == {
    [J("bench", {"dynamo", "s3", "rollup", "ai"}, One, << P(1, Machine), P(1, OtherNode) >>, Enough)
        EXCEPT !.identity = Identity, !.max_trouble = 1],
    [J("bench", {"s3", "metrics", "post_eval", "override"}, Two, << P(1, Machine) >>, Short2)
        EXCEPT !.previous = MC_Previous(Smaller), !.max_trouble = 1],
    [J("bench", {"dynamo", "ruter", "power"}, NoApi, << P(1, Machine), P(2, Machine) >>, Dedicated)
        EXCEPT !.previous = MC_Previous(Patched), !.identity = [Identity EXCEPT !.repo = None]],
    [J("manual", {"power", "ai"}, One, << P(1, Machine) >>,
       [Enough EXCEPT !.het = << <<[cpus |-> 8, times |-> 1]>>, <<[cpus |-> 8, times |-> 1]>> >>])
        EXCEPT !.previous = MC_Previous(Patched), !.identity = [Identity EXCEPT !.revision.digits = 6]],
    [J("eval", {"s3", "power"}, One, << P(1, Machine) >>, [Single EXCEPT !.job_cpus = <<[cpus |-> 8, times |-> 0]>>])
        EXCEPT !.max_trouble = 1],
    J("serve", {"dynamo", "s3", "ai"}, One, << P(1, Machine) >>,
      [Enough EXCEPT !.job_cpus = <<[cpus |-> 8, times |-> 2]>>]) }
=============================================================================
