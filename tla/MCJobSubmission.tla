--------------------------- MODULE MCJobSubmission ---------------------------
(* A few recipes of each kind, with the sections of an override file varied. *)
EXTENDS JobSubmission

Name == <<"name">>
Model == <<"model", "path">>
Image == <<"model", "container">>
Env == <<"environment", "A">>
Extra == <<"backend", "deep", "B">>
Obs == <<"observability", "enabled">>

MCClusterDefaults == (<<"slurm", "account">> :> <<"acct">>) @@ (Env :> <<"site">>)
Exporter == <<"telemetry", "dcgm_exporter", "container_image">>
MCAliases == (Model :> (<<"llm">> :> <<"/models/llm">>)) @@ (Image :> (<<"img">> :> <<"/images/img">>))
             @@ (Exporter :> (<<"dcgm">> :> <<"/images/dcgm">>))
MCAnalytics == <<"backend", "env">> :> <<"spans">>
MCSchemaDefaults == (<<"slurm", "account">> :> None) @@ (<<"benchmark", "type">> :> <<"manual">>)
MCKnownKeys == {"name", "model", "resources", "environment", "observability", "backend", "dynamo",
                "slurm", "benchmark", "telemetry", "sweep"}
MCRemote == {<<"hf:org/model">>}
MCExisting == {<<"/models/llm">>, <<"/images/img">>, <<"/images/dcgm">>}

Resource(name) == <<"resources", name>>
Base == (Name :> <<"b">>) @@ (Model :> <<"llm">>) @@ (Image :> <<"img">>) @@ (Env :> <<"1">>)
        @@ (Resource("agg_nodes") :> <<"1">>) @@ (Resource("agg_workers") :> <<"2">>)
\* What --bash asks for besides.
OneHost == (<<"benchmark", "type">> :> <<"custom">>) @@ (<<"benchmark", "command">> :> <<"run">>)
           @@ (<<"environment", "SRTCTL_LOCAL_CONTAINER_IMAGE">> :> <<"img">>)
           @@ (<<"environment", "SRTCTL_SGLANG_SOURCE">> :> <<"/src">>) @@ (<<"dynamo", "hash">> :> <<"h">>)
Plain(c) == [override |-> FALSE, top |-> c, sections |-> <<>>, lock |-> None]
Overrides(c, ss) == [override |-> TRUE, top |-> c, sections |-> ss, lock |-> None]

Over(suffix, body) == [zip |-> FALSE, suffix |-> suffix, body |-> body]
Zipped(suffix, body) == [zip |-> TRUE, suffix |-> suffix, body |-> body]
One(v) == [list |-> FALSE, items |-> <<v>>]
Many(vs) == [list |-> TRUE, items |-> vs]

Swept == (<<"sweep", "A">> :> <<"1", "2">>) @@ (Env :> <<"a", "{A}">>)

Bodies == {Env :> <<"2">>, Env :> None, (<<"environment">> :> <<"flat">>) @@ (Name :> <<"own">>),
           Extra :> None, (Extra :> <<"x">>) @@ (Obs :> <<"true">>),
           Model :> <<"hf:org/model">>, Model :> <<"/models/gone">>, Model :> None, Swept}
Shapes == {Resource("agg_workers") :> <<"0">>, Resource("prefill_nodes") :> <<"1">>,
           (Resource("agg_nodes") :> None) @@ (Resource("agg_workers") :> None)
             @@ (Resource("prefill_nodes") :> <<"1">>) @@ (Resource("prefill_workers") :> <<"1">>)
             @@ (Resource("decode_nodes") :> <<"0">>) @@ (Resource("decode_workers") :> <<"1">>),
           (<<"telemetry", "enabled">> :> <<"true">>) @@ (Exporter :> <<"dcgm">>),
           (<<"telemetry", "enabled">> :> <<"true">>) @@ (Exporter :> <<"/images/gone">>)}
ZipBodies == {Env :> Many(<<<<"2">>, <<"3">>>>), (Env :> Many(<<<<"2">>>>)) @@ (Extra :> One(<<"x">>)),
              (Env :> Many(<<<<"2">>, None>>)), (Name :> One(<<"own">>)) @@ (Env :> Many(<<<<"2">>, <<"3">>>>)),
              (Name :> Many(<<<<"n1">>, <<"n2">>>>)) @@ (Extra :> Many(<<<<"x">>>>)),
              (Env :> Many(<<<<"2">>, <<"3">>>>)) @@ (Extra :> Many(<<<<"x">>, <<"y">>, <<"z">>>>)),
              Env :> One(<<"2">>), Env :> Many(<<>>)}

Sections == {<<>>} \cup {<<Over(n, b)>> : n \in {<<"x", "0">>, <<"base">>}, b \in Bodies}
                   \cup {<<Zipped(<<"x">>, z)>> : z \in ZipBodies}
                   \cup {<<Over(<<"x", "0">>, Env :> <<"2">>), Zipped(<<"x">>, Env :> Many(<<<<"3">>>>))>>}
                   \cup {<<Over(<<"x">>, Env :> <<"2">>), Over(<<"y">>, b)>> : b \in {Env :> None, Model :> <<"/models/gone">>}}

One1(c) == [dir |-> FALSE, of |-> <<c>>]
Single == {Plain(Base), Plain((Obs :> <<"true">>) @@ Base), Plain((Model :> <<"/models/gone">>) @@ Base),
            Plain(Swept @@ Base), Plain((Model :> <<"gone", "{A}">>) @@ Swept @@ Base),
            Plain((<<"unknown">> :> <<"1">>) @@ Base)}
           \cup {Overrides(Base, ss) : ss \in Sections}
           \cup {Plain(OneHost @@ Base), Plain((Obs :> <<"true">>) @@ OneHost @@ Base)}
           \cup {Overrides(OneHost @@ Base, <<Over(<<"x">>, b)>>) : b \in Shapes \cup {Env :> <<"2">>, Extra :> <<"x">>}}
\* A good recipe behind or before a bad one, and an override file among them.
Directories == {[dir |-> TRUE, of |-> <<a, b>>] :
                  a \in {Plain((Model :> <<"/models/gone">>) @@ Base), Plain((<<"unknown">> :> <<"1">>) @@ Base),
                         Overrides(Base, <<Over(<<"x">>, Env :> <<"2">>), Over(<<"y">>, Model :> <<"/models/gone">>)>>)},
                  b \in {Plain(Base), Plain(Swept @@ Base)}}
MCFiles == {One1(r) : r \in Single} \cup Directories

Verb(v) == [verb |-> v, sweep |-> FALSE, serve |-> FALSE, enforce |-> TRUE, stdin |-> FALSE]
MCCommands == {Verb(v) : v \in {"apply", "dry-run", "preflight", "resolve-override", "bash"}}
              \cup {[Verb("apply") EXCEPT !.serve = TRUE], [Verb("apply") EXCEPT !.enforce = FALSE],
                    [Verb("apply") EXCEPT !.stdin = TRUE], [Verb("dry-run") EXCEPT !.sweep = TRUE]}
MCEdits == {Plain((Env :> <<"9">>) @@ Base),
            Overrides((Env :> <<"9">>) @@ Base, <<Over(<<"x">>, Model :> <<"/models/gone">>)>>)}

Named1(zip, suffix) == {[zip |-> zip, suffix |-> suffix]}
\* Nobody managed; one of two workers did, and says either thing; both did.
MCPrints == {[w \in {} |-> None], "w0" :> "e1", "w0" :> "e2", ("w0" :> "e1") @@ ("w1" :> "e1")}

MCSelectors == {All, [kind |-> "base", keys |-> {}, index |-> 0],
                [kind |-> "key", keys |-> Named1(FALSE, <<"x">>), index |-> 0],
                [kind |-> "key", keys |-> Named1(TRUE, <<"x">>), index |-> 0],
                [kind |-> "index", keys |-> Named1(TRUE, <<"x">>), index |-> 1]}
=============================================================================
