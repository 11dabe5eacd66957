-------------------------------- MODULE Catalog --------------------------------
(***************************************************************************)
(* What the generator computes from the merged catalogs (config_loader.py):*)
(* the runtime variants, the models that are published to LiteLLM, the     *)
(* macros, models and groups of llama-swap, and the options of vLLM.  Each *)
(* output is computed by a builder of its own, in the order of Next; any   *)
(* of them can raise, which ends the run.  Every builder computes the      *)
(* variants and the deployments anew from the same files: here Collect and *)
(* Resolve do, once for all of them.                                       *)
(*                                                                         *)
(* A hyphenated name is the sequence of its words: the macro               *)
(* llama-server-rocm-native is <<"server", "rocm", "native">>; a name that *)
(* never takes a suffix is one word.                                       *)
(***************************************************************************)
EXTENDS Integers, Sequences, SequencesExt, FiniteSets

CONSTANTS
  Configs,           \* the sources, one record for each configuration
  Failed,            \* instead of a value: an exception
  None               \* instead of a value: not built yet

IsList(s) == Len(s) \in Nat /\ DOMAIN s = 1..Len(s)

\* The files are finite.
ASSUME CatalogAssumption ==
  \A x \in Configs :
    /\ IsFiniteSet(DOMAIN x.profiles)
    /\ IsList(x.variants) /\ IsList(x.state) /\ IsList(x.deployments) /\ IsList(x.rules)

VARIABLES
  c,                 \* the configuration
  pc,                \* the builder that comes next; "done" or "failed"
  variants,          \* by macro, or Failed
  deployments,       \* the fields of each deployment of the catalog
  published, swap, litellm, vllm
outputs == <<published, swap, litellm, vllm>>
vars == <<c, pc, variants, deployments, outputs>>

Backends == {"cpu", "cuda", "rocm", "vulkan"}
Empty == [k \in {} |-> {}]
First(positions) == CHOOSE i \in positions : \A j \in positions : i <= j
Latest(positions) == CHOOSE i \in positions : \A j \in positions : j <= i
Get(fields, f, default) == IF f \in DOMAIN fields THEN fields[f] ELSE default
Without(fields, names) == [f \in DOMAIN fields \ names |-> fields[f]]

\* deep_merge of mappings whose values are no mappings.
Over(base, top) == [f \in DOMAIN base \cup DOMAIN top |-> IF f \in DOMAIN top THEN top[f] ELSE base[f]]
OverAll(all) == FoldLeft(Over, Empty, all)

(***************************************************************************)
(* Runtime variants.                                                       *)
(***************************************************************************)
\* The fields of a profile, whose parents resolve to the values of parents.
Joined(name, parents) ==
  IF Failed \in Range(parents) THEN Failed
  ELSE Over(OverAll(parents), Without(c.profiles[name], {"name", "extends"}))

\* Mutant: a profile that is not defined is empty.
ParentLenient(profile, parent) == IF parent \in DOMAIN c.profiles THEN profile[parent] ELSE Empty

Parent(profile, parent) == IF parent \in DOMAIN c.profiles THEN profile[parent] ELSE Failed
Extends(name) == Get(c.profiles[name], "extends", <<>>)

\* _resolve_backend_runtime_profile: the parents in turn, then its own fields;
\* by the stack of the profiles that are being resolved, and by name.
Profile[stack \in SUBSET DOMAIN c.profiles] ==
  [name \in DOMAIN c.profiles |->
     IF name \in stack THEN Failed
     ELSE Joined(name, [i \in DOMAIN Extends(name) |->
                          Parent(Profile[stack \cup {name}], Extends(name)[i])])]

\* The names after source, build and profiles, each where it comes first.
ProfileNames(fields) ==
  FoldLeft(LAMBDA names, n : IF Contains(names, n) THEN names ELSE Append(names, n), <<>>,
           Get(fields, "source", <<>>) \o Get(fields, "build", <<>>) \o Get(fields, "profiles", <<>>))

\* One entry of the catalog, with what it takes from its profiles.
Variant(entry) ==
  LET names == ProfileNames(entry.fields)
      overlays == [i \in DOMAIN names |-> Parent(Profile[{}], names[i])]
      v == Over(OverAll(overlays), entry.fields)
      name == Get(v, "name", entry.name)
      backend == Get(v, "backend", "")
  IN IF Failed \in Range(overlays) THEN Failed
     ELSE [name |-> name, backend |-> backend,
           macro |-> Get(v, "macro", <<"server">> \o name),
           version |-> Get(v, "version", 0),
           dir |-> Get(v, "runtime_subdir", IF name = <<backend>> THEN name ELSE <<backend>> \o name),
           enabled |-> Get(v, "enabled", TRUE)]

\* _default_runtime_variant
DefaultVariant(b) ==
  [name |-> <<b>>, backend |-> b, macro |-> <<"server", b>>, version |-> 0, dir |-> <<b>>, enabled |-> TRUE]

\* Per macro; of two entries with one macro the later counts.
CollectedVariants ==
  LET all == [i \in DOMAIN c.variants |-> Variant(c.variants[i])]
      kept == {i \in DOMAIN all : all[i].backend # ""}
      last(m) == Latest({i \in kept : all[i].macro = m})
  IN IF c.variants = <<>> THEN [m \in {<<"server", b>> : b \in Backends} |-> DefaultVariant(m[2])]
     ELSE IF Failed \in Range(all) THEN Failed
     ELSE [m \in {all[i].macro : i \in kept} |-> all[last(m)]]

(***************************************************************************)
(* Deployments: template, its profile, the named profile, own fields.      *)
(***************************************************************************)
Named(kind, name) ==
  IF name = "" THEN Empty
  ELSE IF name \in DOMAIN kind /\ DOMAIN kind[name] # {} THEN kind[name] ELSE Failed

\* _resolve_deployment_profile
DeploymentProfile(fields) ==
  LET template == Named(c.templates, Get(fields, "template", ""))
      nested == IF template = Failed THEN Failed ELSE Named(c.concrete, Get(template, "profile", ""))
      parts == <<template, nested, Named(c.concrete, Get(fields, "profile", ""))>>
  IN IF Failed \in Range(parts) THEN Failed ELSE OverAll(parts)

Own(d) == Over(d.project, d.local)
Resolved(d) ==
  LET profile == DeploymentProfile(Own(d))
  IN IF profile = Failed THEN Failed ELSE Over(profile, Own(d))

Architecture(d) == Get(c.architectures, d.profile, "")

Matches(rule, context) ==
  \A f \in DOMAIN rule.when : f \in DOMAIN context /\ context[f] \in rule.when[f]

Incompatible(rule, version) ==
  version > 0 /\ ((rule.min > 0 /\ version < rule.min) \/ (rule.max > 0 /\ version > rule.max))
Unknown(rule, version) == version = 0 /\ (rule.min > 0 \/ rule.max > 0)

\* _rule_matches and the comparison with llama_cpp_min_release and _max_release.
Violated(d, variant, rule) ==
  /\ Matches(rule, [architecture |-> Architecture(d), backend |-> variant.backend,
                    backend_variant |-> variant.name, backend_macro |-> variant.macro])
  /\ Incompatible(rule, variant.version) \/ Unknown(rule, variant.version)

\* The action of the first rule that is violated.
Verdict(d, variant) ==
  LET violated == {i \in DOMAIN c.rules : Violated(d, variant, c.rules[i])}
      rule == c.rules[First(violated)]
      incompatible == Get(rule.action, "incompatible", Get(c.defaults, "incompatible", "disable"))
  IN IF violated = {} THEN "keep"
     ELSE IF Unknown(rule, variant.version)
     THEN Get(rule.action, "unknown", Get(c.defaults, "unknown", incompatible))
     ELSE incompatible

\* Mutant: only the first rule that matches is looked at.
JudgedByFirst(d, fields) ==
  LET macro == Get(fields, "executable_macro", <<>>)
      matching == {i \in DOMAIN c.rules : Matches(c.rules[i], [backend |-> variants[macro].backend])}
  IN IF ~c.matrix \/ Architecture(d) = "" THEN "keep"
     ELSE IF macro \notin DOMAIN variants THEN Get(c.defaults, "unknown", "warn")
     ELSE IF matching # {} /\ Incompatible(c.rules[First(matching)], variants[macro].version) THEN "disable" ELSE "keep"

\* _apply_backend_support_matrix: disable, error, warn or keep. The matrix looks
\* at the variant of the macro, whatever the macro is made to stand for below.
Judged(d, fields) ==
  LET macro == Get(fields, "executable_macro", <<>>)
  IN IF ~c.matrix \/ Architecture(d) = "" THEN "keep"
     ELSE IF macro = <<>> \/ macro \notin DOMAIN variants THEN Get(c.defaults, "unknown", "warn")
     ELSE Verdict(d, variants[macro])

\* _resolve_model_deployment_with_support
Deployment(d) ==
  LET fields == Resolved(d)
      judged == IF fields = Failed THEN "error" ELSE Judged(d, fields)
  IN CASE judged = "error" -> Failed
       [] judged = "disable" -> Over(fields, [enabled |-> FALSE])
       [] OTHER -> fields

Enabled(f) == Get(f, "enabled", TRUE)
Label(f) == Get(f, "label", "")
Framework(f) == Get(f, "framework", "llama_cpp")
Transport(f) == Get(f, "transport", "llama-swap")

(***************************************************************************)
(* The published models, by their place in the catalog.                    *)
(***************************************************************************)
Publishable(f) == Enabled(f) /\ Label(f) # "" /\ (Framework(f) = "vllm" => c.vllm)

\* _catalog_published_models: a label must not occur twice, even one that is
\* left out because vLLM is off.
PublishedModels ==
  LET all == {i \in DOMAIN deployments : Enabled(deployments[i]) /\ Label(deployments[i]) # ""}
      entry(f) == [label |-> Label(f), framework |-> Framework(f), transport |-> Transport(f),
                   model |-> Get(f, "llama_swap_model", Label(f)),
                   backend_model |-> Get(f, "backend_model_name", Label(f))]
  IN IF \E i, j \in all : i # j /\ Label(deployments[i]) = Label(deployments[j]) THEN Failed
     ELSE [i \in {i \in all : Publishable(deployments[i])} |-> entry(deployments[i])]

(***************************************************************************)
(* The macros of llama-swap; a target is what a macro stands for.          *)
(***************************************************************************)
\* Mutant: without a look at the local macros.
Always(macros, more) == Over(macros, more)

\* A macro of the local layer is never replaced.
Unless(macros, more) == Over(macros, Without(more, c.localMacros))
Unset(macros, more) == Over(Without(more, c.localMacros), macros)

Only(macro, target) == [m \in {macro} |-> target]
Directory(dir) == [kind |-> "directory", dir |-> dir]
Binary(name) == [kind |-> "binary", of |-> name]
Layer(name) == [kind |-> name]
Merged == [m \in c.projectMacros \cup c.localMacros |-> Layer(IF m \in c.localMacros THEN "local" ELSE "project")]

\* The runtimes of the install state: the last one of a backend counts, and
\* llama-server is the first of the CPU's or what the state names itself.
FromState(macros) ==
  LET installed == {i \in DOMAIN c.state : c.state[i].exe}
      for(b) == {i \in installed : c.state[i].backend = b}
      runtime(i) == Binary(c.state[i].name)
      perBackend == [m \in {<<"server", c.state[i].backend>> : i \in installed} |-> runtime(Latest(for(m[2])))]
      server == IF installed = {} THEN Empty
                ELSE Only(<<"server">>, runtime(First(IF for("cpu") # {} THEN for("cpu") ELSE installed)))
  IN Unless(Unless(macros, perBackend), server)

\* Mutant: variants that are disabled get their macro too.
EveryVariant == [m \in DOMAIN variants |-> Directory(variants[m].dir)]

EnabledVariants == [m \in {m \in DOMAIN variants : variants[m].enabled} |-> Directory(variants[m].dir)]

\* The native build of a backend, and the backend's own macro made to stand for it.
Native(b) == <<"server", b, "native">>
WithNative(macros, b) == Unless(macros, Only(Native(b), Directory(<<b, "native">>)))
Aliased(macros, b) == Unless(macros, Only(<<"server", b>>, macros[Native(b)]))

\* ROCm's only if a GPU of it was detected, Vulkan's only if the owner has none.
WithRocm(macros) == IF c.gfx THEN Aliased(WithNative(macros, "rocm"), "rocm") ELSE macros
WithVulkan(macros) ==
  IF Native("vulkan") \in c.localMacros THEN macros ELSE Aliased(WithNative(macros, "vulkan"), "vulkan")

\* What every command starts its model with.
ServerArgs == Only(<<"server-args">>, Layer("args"))
Paths == [m \in {<<"model-path">>, <<"mmproj-path">>} |-> Layer("path")]

\* In Docker every enabled variant has a macro, llama-server is the CPU's, and
\* the models have a fixed place.
ForDocker(macros) ==
  Unless(Unless(WithVulkan(WithRocm(Unless(macros, EnabledVariants))), Only(<<"server">>, Directory(<<"cpu">>))), Paths)

\* _backend_specific_macro_name
ForBackend(name, backend) == IF backend \in {"auto", ""} THEN name ELSE Append(name, backend)

\* The presets for GPUs and for the runtime: the name of the macro, and the
\* backends that have a block of their own.
Presets == {<<n, c.presets[n]>> : n \in DOMAIN c.presets} \cup {<<n, c.runtime[n]>> : n \in DOMAIN c.runtime}

\* _synthesize_catalog_macros: one macro for each backend block of a preset, or
\* one for the preset itself.
PresetMacros ==
  [m \in UNION {IF p[2] = {} THEN {<<p[1]>>} ELSE {ForBackend(<<p[1]>>, b) : b \in p[2]} : p \in Presets}
     |-> Layer("preset")]

\* Those before the models are generated.
Macros ==
  LET host == FromState(Unless(Merged, ServerArgs))
      placed == IF c.modelDir THEN Unless(host, Paths) ELSE host
  IN Unset(IF c.docker THEN ForDocker(placed) ELSE placed, PresetMacros)

(***************************************************************************)
(* The models and groups of llama-swap.                                    *)
(***************************************************************************)
Swapped(f) == Enabled(f) /\ Transport(f) = "llama-swap"

\* A name that the framework can give to a macro of every command.
OfFramework(field, default) == Get(c.framework, field, default)

\* The macro a command starts with.
Executable(f) == Get(f, "executable_macro", OfFramework("executable_macro", <<"server">>))

\* _infer_backend_from_deployment: the last word of the macro, or LLAMA_BACKEND.
BackendOf(f) ==
  LET macro == Get(f, "executable_macro", <<>>)
  IN IF Len(macro) > 1 /\ Last(macro) \in Backends \cup {"metal"} THEN Last(macro) ELSE c.backend

\* The defaults and artifacts of the model that deployment i is of.
Shared(i) == Get(c.models, c.deployments[i].profile, Empty)
Field(i, field) == Get(deployments[i], field, Get(Shared(i), field, ""))
Preset(i) == Field(i, "gpu_preset")
RuntimePresets(i) == Get(Shared(i), "runtime_presets", {}) \cup Get(deployments[i], "runtime_presets", {})

\* The presets of deployment i.
PresetsOf(i) ==
  {<<n, c.presets[n]>> : n \in {Preset(i)} \cap DOMAIN c.presets}
    \cup {<<n, c.runtime[n]>> : n \in RuntimePresets(i) \cap DOMAIN c.runtime}

\* Mutant: the backend is left out of the name of a preset's macro.
NamedMacroPlain(preset, backend) == <<preset[1]>>

\* _catalog_named_macro
NamedMacro(preset, backend) == IF preset[2] = {} THEN <<preset[1]>> ELSE ForBackend(<<preset[1]>>, backend)

\* Mutant: the label comes before the name of the model.
ModelIdByLabel(d, f) == IF Label(f) # "" THEN Label(f) ELSE Get(f, "llama_swap_model", d.name)

ModelId(d, f) == Get(f, "llama_swap_model", d.name)

\* What is missing makes _generated_llama_swap_models raise; a context without
\* a size, or a preset without a macro, counts as one that is not defined.
Incomplete(i) ==
  \/ Field(i, "context_preset") \notin DOMAIN c.contexts
  \/ Preset(i) = "" /\ ~Get(deployments[i], "options", FALSE)
  \/ Preset(i) # "" /\ Preset(i) \notin DOMAIN c.presets
  \/ Field(i, "model_file") = ""
  \/ ~(RuntimePresets(i) \subseteq DOMAIN c.runtime)

\* The macro that the context of deployment i names, <<>> if it has none.
Explicit(i) == c.contexts[Field(i, "context_preset")]

\* _catalog_context_macro
ContextMacro(i) == IF Explicit(i) # <<>> THEN Explicit(i) ELSE <<"context", Field(i, "context_preset")>>

\* What the command of deployment i names.
Command(i) ==
  {Executable(deployments[i]), OfFramework("server_args_macro", <<"server-args">>),
   OfFramework("model_path_macro", <<"model-path">>), ContextMacro(i)}
    \cup (IF Field(i, "mmproj_file") # "" THEN {OfFramework("mmproj_path_macro", <<"mmproj-path">>)} ELSE {})
    \cup {NamedMacro(p, BackendOf(deployments[i])) : p \in PresetsOf(i)}
    \cup Get(deployments[i], "additional_macro_refs", {})

\* The deployments that become models of llama-swap.
Commanded == {i \in DOMAIN deployments : Swapped(deployments[i]) /\ Framework(deployments[i]) = "llama_cpp"}

\* _generated_llama_swap_models: of two deployments with one name the later counts.
Models ==
  LET id(i) == ModelId(c.deployments[i], deployments[i])
      last(m) == Latest({i \in Commanded : id(i) = m})
  IN IF \E i \in Commanded : Incomplete(i) THEN Failed
     ELSE [m \in {id(i) : i \in Commanded} |-> [key |-> last(m), macros |-> Command(last(m))]]

\* The macros of the contexts are added where a served model asks for one; one
\* that a context names is never added.
WithContexts(macros) ==
  Unset(macros, [m \in {ContextMacro(i) : i \in {i \in Commanded : Explicit(i) = <<>>}} |-> Layer("context")])

\* Mutant: also what is disabled.
GroupedAnyway(f) == Transport(f) = "llama-swap"

\* What a group can hold.
Grouped(f) == Enabled(f) /\ Transport(f) = "llama-swap"

\* _generated_llama_swap_groups: a member is a label or a model, a label, or a
\* model profile with a deployment.
Groups ==
  LET swapped == {i \in DOMAIN deployments : Grouped(deployments[i])}
      id(i) == LET f == deployments[i] IN
               Get(f, "llama_swap_model", IF Label(f) # "" THEN Label(f) ELSE c.deployments[i].name)
      labelled(l) == {i \in swapped : Label(deployments[i]) = l}
      member(m) ==
        CASE m.kind = "text" -> IF labelled(m.name) # {} THEN id(Latest(labelled(m.name))) ELSE m.name
          [] m.kind = "label" -> IF labelled(m.name) # {} THEN id(Latest(labelled(m.name))) ELSE ""
          [] m.kind = "pair" ->
               LET found == {i \in DOMAIN deployments : c.deployments[i].profile = m.profile /\ c.deployments[i].name = m.name}
               IN IF found # {} THEN id(Latest(found)) ELSE m.name
      kept(g) == {i \in DOMAIN c.groups[g] : member(c.groups[g][i]) \in {id(j) : j \in swapped}}
  IN [g \in DOMAIN c.groups |-> [i \in kept(g) |-> member(c.groups[g][i])]]

\* The models of llama-swap's own files, and their groups, are taken as they are.
OwnModels == [m \in c.ownModels |-> [key |-> 0, macros |-> {}]]

(***************************************************************************)
(* LiteLLM and vLLM.                                                       *)
(***************************************************************************)
\* The api_base of a published model.
Base(m) == IF m.framework = "vllm" /\ m.transport = "direct" THEN "vllm" ELSE "llama-swap"

\* build_litellm_config
Routes(models) ==
  [i \in DOMAIN models |->
     [name |-> models[i].label, to |-> Base(models[i]), model |-> models[i].backend_model,
      header |-> IF models[i].transport = "llama-swap" THEN models[i].model ELSE ""]]

DirectVllm(f) == Enabled(f) /\ Label(f) # "" /\ Framework(f) = "vllm" /\ Transport(f) = "direct"

\* Mutant: the last deployment's options instead of the first one's.
OptionsOfLast ==
  LET direct == {i \in DOMAIN c.deployments : Framework(Resolved(c.deployments[i])) = "vllm"}
  IN IF direct = {} THEN 0 ELSE Latest(direct)

\* _resolve_vllm_startup_overrides: of the first deployment for vLLM, without
\* a look at the support matrix; 0 if there is none.
OptionsOf ==
  LET direct == {i \in DOMAIN c.deployments : DirectVllm(Resolved(c.deployments[i]))}
  IN IF direct = {} THEN 0 ELSE First(direct)

\* build_vllm_config: one model at a time, the one of VLLM_MODEL if none is published.
Vllm(models) ==
  LET direct == {i \in DOMAIN models : models[i].framework = "vllm" /\ models[i].transport = "direct"}
      names == {models[i].backend_model : i \in direct}
  IN IF \E m, n \in names : m # n THEN Failed
     ELSE [model |-> IF names = {} THEN "VLLM_MODEL" ELSE CHOOSE n \in names : TRUE, options |-> OptionsOf]

(***************************************************************************)
(* The builders.                                                           *)
(***************************************************************************)
Init ==
  /\ c \in Configs /\ pc = "collect" /\ variants = None /\ deployments = None
  /\ published = None /\ swap = None /\ litellm = None /\ vllm = None

Raise == pc' = "failed" /\ UNCHANGED outputs

\* _collect_backend_runtime_variants; who needs the variants raises if it failed.
Collect ==
  /\ pc = "collect" /\ pc' = "resolve"
  /\ variants' = CollectedVariants
  /\ UNCHANGED <<c, deployments, outputs>>

\* load_stack_config, which every builder starts with: the deployments, with a
\* look at the variants if there is a support matrix, then what is published.
Resolve ==
  /\ pc = "resolve" /\ UNCHANGED <<c, variants>>
  /\ deployments' = IF c.matrix /\ variants = Failed THEN <<Failed>>
                     ELSE [i \in DOMAIN c.deployments |-> Deployment(c.deployments[i])]
  /\ IF Failed \in Range(deployments') THEN Raise ELSE pc' = "publish" /\ UNCHANGED outputs

Publish ==
  /\ pc = "publish" /\ UNCHANGED <<c, variants, deployments>>
  /\ \E models \in {PublishedModels} :
       IF models = Failed THEN Raise
       ELSE published' = models /\ pc' = "swap" /\ UNCHANGED <<swap, litellm, vllm>>

\* build_llama_swap_config
Swap ==
  /\ pc = "swap" /\ UNCHANGED <<c, variants, deployments>>
  /\ \E models \in {Models} :
       IF models = Failed \/ (c.docker /\ variants = Failed) THEN Raise
       ELSE /\ swap' = [macros |-> WithContexts(Macros), models |-> Over(OwnModels, models),
                        groups |-> Over(c.ownGroups, Groups)]
            /\ pc' = "litellm" /\ UNCHANGED <<published, litellm, vllm>>

Route ==
  /\ pc = "litellm" /\ UNCHANGED <<c, variants, deployments>>
  /\ litellm' = Routes(published) /\ pc' = "vllm" /\ UNCHANGED <<published, swap, vllm>>

Serve ==
  /\ pc = "vllm" /\ UNCHANGED <<c, variants, deployments>>
  /\ \E served \in {Vllm(published)} :
       IF served = Failed THEN Raise
       ELSE vllm' = served /\ pc' = "catalog" /\ UNCHANGED <<published, swap, litellm>>

\* build_backend_runtime_catalog: the variants themselves.
WriteCatalog ==
  /\ pc = "catalog" /\ UNCHANGED <<c, variants, deployments>>
  /\ IF variants = Failed THEN Raise ELSE pc' = "done" /\ UNCHANGED outputs

Next == Collect \/ Resolve \/ Publish \/ Swap \/ Route \/ Serve \/ WriteCatalog
Spec == Init /\ [][Next]_vars

(***************************************************************************)
(* Properties.                                                             *)
(***************************************************************************)
Built == swap # None

\* The profiles of a variant cannot be resolved if one that it reaches is missing
\* or reaches itself: neither is ever overlooked, however deep it is.
Parents(n) == IF n \in DOMAIN c.profiles THEN Range(Extends(n)) ELSE {}
Reached(names) ==
  LET all == names \cup UNION {Parents(n) : n \in DOMAIN c.profiles}
      closed == {S \in SUBSET all : names \subseteq S /\ \A n \in S : Parents(n) \subseteq S}
  IN {n \in all : \A S \in closed : n \in S}
CyclesFound ==
  pc = "done" =>
    \A i \in DOMAIN c.variants :
      LET reached == Reached(Range(ProfileNames(c.variants[i].fields)))
      IN \A n \in reached : n \in DOMAIN c.profiles /\ n \notin Reached(Parents(n))

\* A macro of the local layer stays what its owner made it, whatever is
\* installed, provisioned, aliased or generated under the same name.
LocalMacrosWin == Built => \A m \in c.localMacros : swap.macros[m] = Layer("local")

\* The catalogs as the documentation writes them: llama.cpp runs in llama-swap and
\* vLLM on its own; what vLLM serves has no macro, and what has a label also has
\* the name of a model of its own. A deployment of llama.cpp with the transport
\* direct is left out: the code publishes it and routes it to llama-swap, which
\* does not get it.
Conventional ==
  \A i \in DOMAIN deployments :
    LET f == deployments[i] IN
      /\ <<Framework(f), Transport(f)>> \in {<<"llama_cpp", "llama-swap">>, <<"vllm", "direct">>}
      /\ Framework(f) = "vllm" => "executable_macro" \notin DOMAIN f
      /\ Label(f) # "" /\ Transport(f) = "llama-swap" => "llama_swap_model" \in DOMAIN f
      /\ \A j \in DOMAIN deployments \ {i} :
           Get(f, "llama_swap_model", "") # ModelId(c.deployments[j], deployments[j])

\* vLLM runs with the options of a deployment that is published with the model
\* it serves, unless the matrix disables what it does not know.
OwnOptions ==
  Get(c.defaults, "unknown", "warn") # "disable" =>
    \E i \in DOMAIN published : i = vllm.options /\ published[i].backend_model = vllm.model

\* LiteLLM routes every published model to a model that its backend has: in
\* llama-swap that of the same deployment, in vLLM the one it is started with.
\* Routes, models and the options of vLLM are computed separately.
ToSwap(i) ==
  /\ litellm[i].to = "llama-swap" /\ litellm[i].header \in DOMAIN swap.models
  /\ swap.models[litellm[i].header].key = i
ToVllm(i) ==
  /\ litellm[i].to = "vllm" /\ litellm[i].header = ""
  /\ vllm # None => vllm.model = litellm[i].model /\ OwnOptions
Routable == litellm # None /\ Conventional => \A i \in DOMAIN litellm : ToSwap(i) \/ ToVllm(i)

\* A group of the catalog loads only models that llama-swap has, so that a
\* deployment that is switched off by its owner or by the support matrix leaves
\* its groups.
GroupsServed ==
  Built /\ Conventional =>
    \A g \in DOMAIN c.groups : Range(swap.groups[g]) \subseteq DOMAIN swap.models

\* With a matrix that disables what is incompatible, nothing is published or
\* served in a variant that violates any rule, and not only the first that
\* matches. This is about the macros that stand for the variant that the matrix
\* has looked at: the native builds that take the place of others in Docker, the
\* runtimes installed elsewhere, and a deployment that leaves its macro to the
\* framework are not compared by the code.
Standing(macro) ==
  /\ macro \in DOMAIN variants /\ macro \in DOMAIN swap.macros
  /\ swap.macros[macro] = Directory(variants[macro].dir)
Compatible(i) ==
  LET d == c.deployments[i]
      macro == Get(deployments[i], "executable_macro", <<>>)
  IN macro # <<>> /\ Standing(macro) /\ Architecture(d) # "" =>
       \A r \in Range(c.rules) :
         Matches(r, [architecture |-> Architecture(d), backend |-> variants[macro].backend,
                     backend_variant |-> variants[macro].name, backend_macro |-> macro])
           => ~Incompatible(r, variants[macro].version)
Generated == {m \in DOMAIN swap.models : swap.models[m].key # 0}
Live == {swap.models[m].key : m \in Generated} \cup DOMAIN published
Supported ==
  Built /\ c.matrix /\ Get(c.defaults, "incompatible", "disable") = "disable"
        /\ (\A r \in Range(c.rules) : r.action = Empty) =>
    \A i \in Live : Compatible(i)

\* In Docker, if the catalog has the native builds that the macros of ROCm and
\* Vulkan are turned into: a directory that a served model's command names is
\* one that provisioning fills, and a runtime that the catalog has enabled is
\* started there, or where the owner says, and not by a name that the project or
\* the install state has for it. (The project's bare names stay for the macros
\* that no enabled variant has: nothing provisions them.)
Filled == {v.dir : v \in {v \in Range(variants) : v.enabled}}
Runtimes == {m \in DOMAIN variants : variants[m].enabled} \ DOMAIN Paths
DirectoriesProvisioned ==
  Built /\ c.docker /\ {<<"rocm", "native">>, <<"vulkan", "native">>, <<"cpu">>} \subseteq Filled =>
    \A id \in DOMAIN swap.models : \A m \in swap.models[id].macros :
      /\ m \in DOMAIN swap.macros /\ swap.macros[m].kind = "directory" => swap.macros[m].dir \in Filled
      /\ m \in Runtimes => m \in DOMAIN swap.macros /\ swap.macros[m].kind \in {"directory", "local"}

\* A command names only macros of llama-swap's configuration, whichever builder
\* is to add them: if those that the catalog itself writes into it are there, if
\* the models have a place, and if its runtime's name says for which backend of
\* its presets it is.
Written(i) ==
  {Executable(deployments[i])} \cup Get(deployments[i], "additional_macro_refs", {})
    \cup Range(c.framework) \cup ({Explicit(i)} \ {<<>>})
Placed == c.docker \/ c.modelDir \/ DOMAIN Paths \subseteq c.projectMacros \cup c.localMacros
Told(i) == \A p \in PresetsOf(i) : p[2] = {} \/ BackendOf(deployments[i]) \in p[2]
MacrosDefined ==
  Built =>
    \A id \in Generated :
      LET i == swap.models[id].key
      IN Written(i) \subseteq DOMAIN swap.macros /\ Placed /\ Told(i) =>
           swap.models[id].macros \subseteq DOMAIN swap.macros
================================================================================
