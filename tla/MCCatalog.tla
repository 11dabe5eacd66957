-------------------------------- MODULE MCCatalog --------------------------------
(* Instances of Catalog for TLC: one base configuration, shaped like the files *)
(* under config/, and families of changes to one part of it or two.            *)
EXTENDS Generator, TLC

CONSTANTS l1, l2

V(name, fields) == [name |-> name, fields |-> fields]
Macro(m) == "executable_macro" :> m
Served == ("context_preset" :> "32k") @@ ("gpu_preset" :> "split")
Dep(profile, name, fields) == [profile |-> profile, name |-> name, project |-> fields, local |-> Empty]

Prebuilt == V(<<"rocm", "prebuilt">>, [source |-> <<"release">>, backend |-> "rocm", macro |-> <<"server", "rocm">>,
                                       runtime_subdir |-> <<"rocm">>, version |-> 2])
Variants4 == <<
  V(<<"rocm">>, [source |-> <<"git">>, build |-> <<"gfx">>, macro |-> <<"server", "rocm", "native">>,
                 runtime_subdir |-> <<"rocm", "native">>]),
  V(<<"vulkan">>, [source |-> <<"git">>, backend |-> "vulkan", macro |-> <<"server", "vulkan", "native">>,
                   runtime_subdir |-> <<"vulkan", "native">>]),
  V(<<"cpu">>, [source |-> <<"release">>, backend |-> "cpu"]), Prebuilt>>

Plain == [
  trees |-> [project |-> Empty, local |-> Empty, private |-> Empty],
  base |-> <<>>, docker |-> TRUE, gfx |-> TRUE, vllm |-> TRUE, matrix |-> FALSE,
  profiles |-> [git |-> Empty, release |-> Empty, gfx |-> [backend |-> "rocm"]],
  variants |-> Variants4, state |-> <<>>,
  projectMacros |-> {<<"server">>, <<"server", "cpu">>, <<"server", "rocm">>, <<"server", "vulkan">>,
                     <<"model-path">>, <<"mmproj-path">>},
  localMacros |-> {}, modelDir |-> FALSE, backend |-> "auto", ownModels |-> {}, ownGroups |-> Empty,
  framework |-> [executable_macro |-> <<"server", "cpu">>],
  contexts |-> ("32k" :> <<>>) @@ ("own" :> <<"extra">>),
  presets |-> [split |-> {"rocm", "vulkan"}, plain |-> {}],
  runtime |-> [cache |-> {}, batch |-> {"rocm"}],
  models |-> [qwen |-> [model_file |-> "qwen.gguf"], tiny |-> [model_file |-> "tiny.gguf"]],
  templates |-> [rocm_template |-> ("profile" :> "rocm_single") @@ ("framework" :> "llama_cpp")],
  concrete |-> [rocm_single |-> Macro(<<"server", "rocm">>) @@ Served,
                vllm_single |-> ("framework" :> "vllm") @@ ("transport" :> "direct")],
  architectures |-> [qwen |-> "qwen35", tiny |-> ""],
  rules |-> <<>>, defaults |-> Empty,
  deployments |-> <<Dep("qwen", "d1", ("template" :> "rocm_template") @@ ("label" :> "L1") @@ ("llama_swap_model" :> "M1"))>>,
  groups |-> [g |-> <<[kind |-> "text", name |-> "L1", profile |-> ""], [kind |-> "label", name |-> "L2", profile |-> ""],
                      [kind |-> "pair", name |-> "d2", profile |-> "tiny"], [kind |-> "text", name |-> "M1", profile |-> ""]>>]]

\* Layers: trees of two levels.
Leaf == {l1, l2}
Inner == Leaf \cup {Empty} \cup {("a" :> a) : a \in Leaf} \cup {"b" :> l1, ("a" :> l1) @@ ("b" :> l2)}
Trees == {Empty, "b" :> l1} \cup {("a" :> t) : t \in Inner} \cup {("a" :> l1) @@ ("b" :> l2)}
LayerChanges == {[deployments |-> <<>>, trees |-> [project |-> p, local |-> l, private |-> v]]
                 : p \in Trees, l \in Trees, v \in Trees}

\* Profiles that extend each other, with a cycle, a diamond or a gap.
Extensions == {<<>>, <<"p">>, <<"p", "q">>, <<"q", "r">>, <<"r">>}
Graphs == {("git" :> [extends |-> e]) @@ ("p" :> [extends |-> f, backend |-> "rocm"]) @@ ("q" :> [extends |-> g, backend |-> "cpu"])
             @@ h : e \in Extensions, f \in Extensions, g \in Extensions,
                    h \in {Empty, "r" :> [version |-> 1], "r" :> [extends |-> <<"p">>]}}
ProfileChanges == {[profiles |-> g, matrix |-> m, docker |-> ~m,
                    variants |-> <<V(<<"one">>, [source |-> <<"git">>, profiles |-> <<"p", "git">>])>>]
                   : g \in Graphs, m \in BOOLEAN}

\* Two deployments, of the owner's fields over the project's, and every kind of group member.
Projects == {("template" :> "rocm_template"), ("profile" :> "vllm_single"), ("profile" :> "missing"),
             Served @@ ("gpu_preset" :> "plain"), ("gpu_preset" :> "none") @@ Served,
             Macro(<<"server", "rocm", "native">>) @@ Served}
Names == {Empty, "llama_swap_model" :> "M1", "llama_swap_model" :> "M2"}
Labels == {Empty, "label" :> "L1", "label" :> "L2"}
Owners == {Empty, "enabled" :> FALSE, "backend_model_name" :> "served"}
Chosen == {Dep("tiny", "d2", Over(Over(p, n), l)) : p \in Projects, n \in Names, l \in Labels}
DeploymentChanges ==
  {[vllm |-> v, deployments |-> IF first THEN <<[d EXCEPT !.local = o], e>> ELSE <<e, [d EXCEPT !.local = o]>>]
   : v \in BOOLEAN, first \in BOOLEAN, d \in Chosen, o \in Owners,
     e \in {Plain.deployments[1],
            Dep("qwen", "v1", ("profile" :> "vllm_single") @@ ("label" :> "L1") @@ ("backend_model_name" :> "served"))}}

\* The deployment of the base, with fields of the owner.
Single(own) == <<[Plain.deployments[1] EXCEPT !.local = own]>>

\* Who owns which macro, what is installed and what is enabled.
Owned == {<<"server">>, <<"server", "rocm">>, <<"server", "rocm", "native">>, <<"server", "vulkan", "native">>,
          <<"split", "rocm">>, <<"context", "32k">>}
States == {<<>>, <<[name |-> "i1", backend |-> "rocm", exe |-> TRUE], [name |-> "i2", backend |-> "cpu", exe |-> TRUE]>>,
           <<[name |-> "i1", backend |-> "cpu", exe |-> FALSE], [name |-> "i2", backend |-> "rocm", exe |-> TRUE]>>}
MacroChanges ==
  {[localMacros |-> o, state |-> s, docker |-> d, gfx |-> g, variants |-> v, deployments |-> Single(m)]
   : o \in {o \in SUBSET Owned : Cardinality(o) <= 2}, s \in States, d \in BOOLEAN, g \in BOOLEAN,
     v \in {<<>>, Variants4, [Variants4 EXCEPT ![4].fields = @ @@ [enabled |-> FALSE]],
            Append(Variants4, V(<<"rocm", "b1">>, [source |-> <<"gfx">>, enabled |-> FALSE]))},
     m \in {Empty, Macro(<<"server", "rocm", "b1">>)}}

\* What a command names: by the deployment, its model and the framework.
Refs == {Empty, "additional_macro_refs" :> {<<"extra">>}, "context_preset" :> "own",
         "runtime_presets" :> {"batch"}, "runtime_presets" :> {"none"}, Macro(<<"server", "rocm", "native">>)}
Models1 == {[qwen |-> [model_file |-> "qwen.gguf", mmproj_file |-> "mmproj.gguf", runtime_presets |-> {"cache"}]],
            [qwen |-> [mmproj_file |-> "mmproj.gguf"]]}
CommandChanges ==
  {[docker |-> d, modelDir |-> p, backend |-> b, framework |-> f, models |-> m, deployments |-> Single(r),
    projectMacros |-> IF d THEN {<<"server", "cpu">>} ELSE Plain.projectMacros,
    localMacros |-> o, ownModels |-> {"M1", "M9"}, ownGroups |-> [g |-> <<"M8">>, h |-> <<"M8">>]]
   : d \in BOOLEAN, p \in BOOLEAN, b \in {"auto", "rocm"}, r \in Refs, m \in Models1,
     f \in {Plain.framework, [server_args_macro |-> <<"extra">>]}, o \in {{}, {<<"extra">>}, {<<"model-path">>}}}

\* The support matrix.
Rule(when, min, max, action) == [when |-> when, min |-> min, max |-> max, action |-> action]
Whens == {"architecture" :> {"qwen35"}, "backend" :> {"vulkan"}, "backend_macro" :> {<<"server", "rocm">>}}
Rules == {Rule(w, 3, 0, Empty) : w \in Whens} \cup {Rule(w, 1, 2, Empty) : w \in Whens}
           \cup {Rule(Empty, 0, 1, "incompatible" :> a) : a \in {"warn", "error", "disable"}}
           \cup {Rule(Empty, 3, 0, "unknown" :> "error")}
Others == <<Dep("tiny", "d2", ("profile" :> "vllm_single") @@ ("label" :> "L2")),
            Dep("tiny", "d3", Macro(<<"server", "rocm", "native">>) @@ Served)>>
MatrixChanges ==
  {[matrix |-> TRUE, rules |-> r, defaults |-> d, architectures |-> ("qwen" :> a) @@ ("tiny" :> "qwen35"),
    variants |-> [Variants4 EXCEPT ![4].fields.version = n], gfx |-> g, deployments |-> Plain.deployments \o Others]
   : r \in {<<p, q>> : p \in Rules, q \in Rules} \cup {<<>>},
     d \in {Empty, "unknown" :> "disable", ("incompatible" :> "warn") @@ ("unknown" :> "disable")},
     a \in {"", "qwen35"}, n \in 0..2, g \in BOOLEAN}

MCSegments == NginxWords \cup {"a", "b"}

\* Base paths, and what is asked for.
MCPages == {<<"">>, <<"ui">>, <<"ui", "logs">>, <<"litellm">>, <<"a", "">>, <<"v1", "models">>}
Texts == {<<>>, <<"">>, <<"", "">>, <<"", "a">>, <<"a", "b">>, <<"", "a", "b", "">>, <<"a", "v1">>, <<"", "health">>, <<"vllm">>}
ProxyChanges == {[base |-> t, vllm |-> v] : t \in Texts, v \in BOOLEAN}

MCConfigs == {change @@ Plain : change \in UNION {ProxyChanges, LayerChanges, ProfileChanges, DeploymentChanges,
                                                   MacroChanges, CommandChanges, MatrixChanges}}
===================================================================================
