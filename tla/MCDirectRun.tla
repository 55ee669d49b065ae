---------------------------- MODULE MCDirectRun ----------------------------
(* Two runs on one host: r1 has every feature, r2 shares with it the       *)
(* caches, the checkout and, in one of the layouts, the output directory;  *)
(* one misfortune, of either, or one move of the checkout.                 *)
EXTENDS DirectRun, TLC

CONSTANTS r1, r2, a, b

MCLayouts == {[r \in Runs |-> "out"], [r \in Runs |-> r]}
MCFeatures == [r \in Runs |-> IF r = r1 THEN {"setup", "mooncake", "dynamo_hash", "tachometer", "ruter"} ELSE {"dynamo_hash"}]
MCWorkers == [r \in Runs |-> IF r = r1 THEN <<"prefill_0", "decode_0">> ELSE <<"agg_0">>]
MCSymmetry == Permutations({a, b})
=============================================================================
