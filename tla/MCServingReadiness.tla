------------------------- MODULE MCServingReadiness -------------------------
(* One job for each way of launching, routing and counting.                *)
EXTENDS ServingReadiness

One == [m \in Modes |-> 1]
E(mode, nodes, gpus) == [mode |-> mode, nodes |-> nodes, gpus |-> gpus]

J(backend, frontend, endpoints) ==
    [backend |-> backend, frontend |-> frontend, endpoints |-> endpoints,
     dp |-> One, model_parallel |-> One, dp_launch_mode |-> "per_node",
     sequential_node_start |-> 0, routers |-> 1]

PrefillDecode == << E("prefill", <<1>>, 2), E("decode", <<2>>, 2) >>
TwoNodes == << E("agg", <<1, 2>>, 2) >>

MCJobs == {
    \* Dynamo: ranks, node-local processes, replicas across nodes, and no DP.
    [J("vllm", "dynamo", PrefillDecode) EXCEPT !.dp["prefill"] = 2, !.dp_launch_mode = "per_gpu"],
    [J("vllm", "dynamo", TwoNodes) EXCEPT !.dp["agg"] = 4],
    [J("vllm", "dynamo", << E("agg", <<1, 2, 3, 4>>, 1) >>)
        EXCEPT !.dp["agg"] = 2, !.model_parallel["agg"] = 2],
    [J("sglang", "dynamo", << E("prefill", <<1>>, 2), E("prefill", <<1>>, 2), E("decode", <<2, 3>>, 4) >>)
        EXCEPT !.routers = 2],
    \* vLLM Router: pools with several URLs, with and without DP.
    [J("vllm", "vllm-router", TwoNodes) EXCEPT !.dp["agg"] = 4],
    [J("vllm", "vllm-router", << E("prefill", <<1, 2>>, 1), E("decode", <<3>>, 2) >>)
        EXCEPT !.model_parallel = [One EXCEPT !["prefill"] = 2, !["decode"] = 2]],
    \* What the frontends refuse: one side only, or two factors for one router.
    J("sglang", "sglang", << E("prefill", <<1>>, 2) >>),
    J("trtllm", "trtllm_serve", << E("decode", <<1>>, 1) >>),
    [J("vllm", "vllm-router", PrefillDecode) EXCEPT !.dp["prefill"] = 2,
                                                    !.model_parallel["decode"] = 2],
    \* SGLang's router, direct servers, trtllm-serve with and without batches.
    J("sglang", "sglang", << E("prefill", <<1, 2>>, 4), E("decode", <<3>>, 4) >>),
    J("vllm", "vllm", TwoNodes),
    J("trtllm", "trtllm_serve", << E("agg", <<1, 2>>, 4) >>),
    [J("trtllm", "trtllm_serve", << E("prefill", <<1>>, 1), E("decode", <<1>>, 1), E("decode", <<1>>, 1) >>)
        EXCEPT !.sequential_node_start = 1],
    [J("trtllm", "dynamo", [n \in 1..5 |-> E("agg", IF n = 5 THEN <<2>> ELSE <<1>>, 1)])
        EXCEPT !.sequential_node_start = 2] }
=============================================================================
