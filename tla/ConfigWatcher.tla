---------------------------- MODULE ConfigWatcher ----------------------------
(***************************************************************************)
(* The hot-reload path of the Docker stack: an operator edits a file under *)
(* config/local, the watcher container regenerates every file under        *)
(* config/generated and restarts the containers whose file changed         *)
(* (src/launcher/watcher.py), while the gateway container runs the same    *)
(* generator each time it starts (docker/gateway-entrypoint.sh) and the    *)
(* other containers read the generated files when they start.              *)
(*                                                                         *)
(* A file's content is abstracted to the number of the last edit that      *)
(* changed what the generator would put in it.                             *)
(***************************************************************************)
EXTENDS Integers, Sequences, FiniteSets

CONSTANTS
    Order,         \* the modelled outputs, in the order the generator writes them
    ChangeSets,    \* which outputs one edit of a YAML source can change
    BadSets,       \* which builders such an edit can leave failing
    ComposeKey,    \* does Compose give the gateway its LITELLM_MASTER_KEY?
    EditsOverlap,  \* may the operator edit while the previous edit is in flight?
    DockerFails,   \* may a call to the Docker socket fail?
    ThreadFails,   \* may the observer thread raise what nothing catches, or hang?
    Crashable,     \* the containers that may crash
    MaxEdits,      \* bound on the number of edits
    MaxCrashes     \* bound on the number of crashes

\* write_generated_configs' order; nginx stands for nginx.conf and index.html.
Rank ==
    [llama_swap |-> 1, backend_runtime_catalog |-> 2, litellm |-> 3,
     vllm |-> 4, mcp_client |-> 5, nginx |-> 6, systemd |-> 7]

Outputs == {Order[i] : i \in DOMAIN Order}

\* load_stack_config raises before any builder of any output runs.
LoadError == "load"

OrderAssumption ==
    /\ Order \in Seq(DOMAIN Rank)
    /\ Order # << >>
    /\ \A i, j \in DOMAIN Order : i < j => Rank[Order[i]] < Rank[Order[j]]

EnvironmentAssumption ==
    /\ ChangeSets \subseteq SUBSET Outputs
    /\ BadSets \subseteq SUBSET (Outputs \cup {LoadError})
    /\ ComposeKey \in BOOLEAN
    /\ EditsOverlap \in BOOLEAN
    /\ DockerFails \in BOOLEAN
    /\ ThreadFails \in BOOLEAN
    /\ Crashable \subseteq {"watcher", "gateway", "llamacpp", "vllm"}
    /\ MaxEdits \in Nat
    /\ MaxCrashes \in Nat

ASSUME WatcherAssumption == OrderAssumption /\ EnvironmentAssumption

VARIABLES
    src,        \* src[k]: the edit that last changed what k should contain
    bad,        \* builders that raise on the present sources
    edits,      \* edits made so far
    files,      \* files[o]: content of the generated file o
    gen,        \* the generate-configs process of each generator
    queue,      \* file events the observer has not dispatched yet
    grace,      \* less than startup_grace_seconds since the watcher started
    cooling,    \* less than debounce_seconds since last_run
    wpc,        \* where the watcher's observer thread is
    envChanged, \* env_changed of the run in progress
    before,     \* snapshot taken at the start of the run in progress
    todo,       \* containers the run in progress has still to act on
    svc,        \* svc[s]: start-up phase of container s
    running,    \* running[k]: content of k that its consumer runs with
    crashes     \* container crashes so far

sourceVars  == <<src, bad, edits>>
watcherVars == <<queue, grace, cooling, wpc, envChanged, before, todo>>
serviceVars == <<svc, running>>
vars == <<sourceVars, files, gen, watcherVars, serviceVars, crashes>>

-----------------------------------------------------------------------------

Generators == {"watcher", "gateway"}
Services   == {"nginx", "gateway", "llamacpp", "vllm"}

\* What containers take up: the generated files, and from config/local/env the master key.
Keys == Outputs \cup {"env"}

Torn    == -1   \* truncated by open("w"), or only partly written
Builtin == -2   \* provision-runtime.sh's default catalog
Version == Nat

Stages == {"idle", "load", "open", "build", "write", "done", "failed"}
Process == [stage : Stages, at : DOMAIN Order, payload : Version]
Idle   == [stage |-> "idle", at |-> 1, payload |-> 0]
Start  == [stage |-> "load", at |-> 1, payload |-> 0]

\* The outputs whose builder is called inside json.dump, after open("w").
BuiltAfterOpen == {"backend_runtime_catalog", "vllm", "mcp_client"}

\* The watcher's restart and reload decisions: which container for which output.
Managed(s) ==
    CASE s = "nginx"    -> {"nginx"}
      [] s = "gateway"  -> {"litellm"}
      [] s = "llamacpp" -> {"backend_runtime_catalog"}
      [] s = "vllm"     -> {"vllm"}

EnvRestarts == {"gateway", "llamacpp", "vllm"}

\* Mutant: nginx reloads last, while the gateway may be regenerating its file.
NginxLast == [gateway |-> 1, llamacpp |-> 2, vllm |-> 3, nginx |-> 4]

\* The order of the four actions in _regenerate_and_reload.
ActionRank == [nginx |-> 1, gateway |-> 2, llamacpp |-> 3, vllm |-> 4]

Phases == {"boot", "gen", "swap", "load", "up"}

TypeOK ==
    /\ src \in [Keys -> Version]
    /\ bad \subseteq Outputs \cup {LoadError}
    /\ edits \in Nat
    /\ files \in [Outputs -> Version \cup {Torn}]
    /\ gen \in [Generators -> Process]
    /\ queue \in Seq({"config", "env"})
    /\ grace \in BOOLEAN
    /\ cooling \in BOOLEAN
    /\ wpc \in {"idle", "gen", "act", "dead"}
    /\ envChanged \in BOOLEAN
    /\ before \in [Outputs -> Version \cup {Torn}]
    /\ todo \subseteq Services
    /\ svc \in [Services -> Phases]
    /\ running \in [Keys -> Version \cup {Torn, Builtin}]
    /\ crashes \in Nat

Init ==
    /\ src = [k \in Keys |-> 0]
    /\ bad = {}
    /\ edits = 0
    /\ files = [o \in Outputs |-> 0]
    /\ gen = [g \in Generators |-> Idle]
    /\ queue = << >>
    /\ grace = TRUE
    /\ cooling = FALSE
    /\ wpc = "idle"
    /\ envChanged = FALSE
    /\ before = [o \in Outputs |-> 0]
    /\ todo = {}
    /\ svc = [s \in Services |-> "up"]
    /\ running = [k \in Keys |-> 0]
    /\ crashes = 0

-----------------------------------------------------------------------------
(* The operator and the file-system observer.                              *)

\* llama-swap has noticed the last version of its file.
SwapCurrent ==
    "llama_swap" \in Outputs => files["llama_swap"] \in {Torn, running["llama_swap"]}

\* Every edit has been dispatched and acted on, and no container is starting.
Settled ==
    /\ SwapCurrent
    /\ queue = << >>
    /\ wpc = "idle"
    /\ \A g \in Generators : gen[g] = Idle
    /\ \A s \in Services : svc[s] = "up"

\* The next event will be neither in the grace period nor debounced.
Attentive == ~grace /\ ~cooling

MayEdit == edits < MaxEdits /\ (EditsOverlap \/ (Settled /\ Attentive))

\* watchdog's queue drops an event equal to the last one put in it.
Notify(f) ==
    queue' = IF queue # << >> /\ queue[Len(queue)] = f THEN queue ELSE Append(queue, f)

SourcesChange(S) ==
    /\ MayEdit
    /\ edits' = edits + 1
    /\ src' = [k \in Keys |-> IF k \in S THEN edits + 1 ELSE src[k]]
    /\ UNCHANGED <<files, gen, grace, cooling, wpc, envChanged, before, todo,
                   serviceVars, crashes>>

\* A YAML source is saved: the outputs in S should change, the builders in B raise.
EditConfig(S, B) ==
    /\ SourcesChange(S)
    /\ bad' = B
    /\ Notify("config")

\* The gateway takes the master key from the environment files, and nginx.conf contains it.
MasterKeyUsers == {"env"} \cup (Outputs \cap {"nginx"})

\* config/local/env or env.private is saved: the master key is changed, or something else.
EditEnv(S) ==
    /\ SourcesChange(S)
    /\ Notify("env")
    /\ UNCHANGED bad

GraceExpires ==
    /\ grace
    /\ grace' = FALSE
    /\ UNCHANGED <<sourceVars, files, gen, queue, cooling, wpc, envChanged, before, todo,
                   serviceVars, crashes>>

DebounceExpires ==
    /\ cooling
    /\ cooling' = FALSE
    /\ UNCHANGED <<sourceVars, files, gen, queue, grace, wpc, envChanged, before, todo,
                   serviceVars, crashes>>

-----------------------------------------------------------------------------
(* One generate-configs process: for each output, load the sources, open   *)
(* the file for writing (which empties it), write it.  Every write_*       *)
(* function loads the sources afresh.                                      *)

Output(g) == Order[gen[g].at]

AtStage(g, stage) == gen[g].stage = stage

GenMoves(g, stage, at, payload) ==
    gen' = [gen EXCEPT ![g] = [stage |-> stage, at |-> at, payload |-> payload]]

\* The command ends with an error: no later output is generated.
GenRaises(g) == GenMoves(g, "failed", gen[g].at, 0)

LoadFails(o) == LoadError \in bad \/ (o \in bad /\ o \notin BuiltAfterOpen)

GenLoad(g) ==
    /\ AtStage(g, "load")
    /\ IF LoadFails(Output(g))
       THEN GenRaises(g)
       ELSE GenMoves(g, "open", gen[g].at, src[Output(g)])
    /\ UNCHANGED <<sourceVars, files, watcherVars, serviceVars, crashes>>

GenOpen(g) ==
    /\ AtStage(g, "open")
    /\ files' = [files EXCEPT ![Output(g)] = Torn]
    /\ GenMoves(g, IF Output(g) \in BuiltAfterOpen THEN "build" ELSE "write",
                gen[g].at, gen[g].payload)
    /\ UNCHANGED <<sourceVars, watcherVars, serviceVars, crashes>>

\* The builder runs with the file already emptied: if it raises, the file stays so.
GenBuild(g) ==
    /\ AtStage(g, "build")
    /\ IF Output(g) \in bad
       THEN GenRaises(g)
       ELSE GenMoves(g, "write", gen[g].at, src[Output(g)])
    /\ UNCHANGED <<sourceVars, files, watcherVars, serviceVars, crashes>>

\* Mutant: the loop runs one output too far.
GenWriteOnePast(g) ==
    /\ AtStage(g, "write")
    /\ files' = [files EXCEPT ![Output(g)] = gen[g].payload]
    /\ IF gen[g].at > Len(Order)
       THEN GenMoves(g, "done", gen[g].at, 0)
       ELSE GenMoves(g, "load", gen[g].at + 1, 0)
    /\ UNCHANGED <<sourceVars, watcherVars, serviceVars, crashes>>

GenWrite(g) ==
    /\ AtStage(g, "write")
    /\ files' = [files EXCEPT ![Output(g)] = gen[g].payload]
    /\ IF gen[g].at = Len(Order)
       THEN GenMoves(g, "done", gen[g].at, 0)
       ELSE GenMoves(g, "load", gen[g].at + 1, 0)
    /\ UNCHANGED <<sourceVars, watcherVars, serviceVars, crashes>>

GenStep(g) == GenLoad(g) \/ GenOpen(g) \/ GenBuild(g) \/ GenWrite(g)

-----------------------------------------------------------------------------
(* The watcher's observer thread.                                          *)

\* on_any_event returns early: the event is gone, whatever it announced.
DropEvent ==
    /\ wpc = "idle" /\ queue # << >>
    /\ grace \/ cooling
    /\ queue' = Tail(queue)
    /\ UNCHANGED <<sourceVars, files, gen, grace, cooling, wpc, envChanged, before, todo,
                   serviceVars, crashes>>

\* Mutant: the run forgets that the event was about an env file.
AcceptEventPlain ==
    /\ wpc = "idle" /\ queue # << >>
    /\ Attentive
    /\ queue' = Tail(queue)
    /\ cooling' = TRUE
    /\ envChanged' = FALSE
    /\ before' = files
    /\ gen' = [gen EXCEPT !["watcher"] = Start]
    /\ wpc' = "gen"
    /\ UNCHANGED <<sourceVars, files, grace, todo, serviceVars, crashes>>

\* on_any_event accepts: last_run is set, the outputs are hashed, the generator starts.
AcceptEvent ==
    /\ wpc = "idle" /\ queue # << >>
    /\ Attentive
    /\ queue' = Tail(queue)
    /\ cooling' = TRUE
    /\ envChanged' = (Head(queue) = "env")
    /\ before' = files
    /\ gen' = [gen EXCEPT !["watcher"] = Start]
    /\ wpc' = "gen"
    /\ UNCHANGED <<sourceVars, files, grace, todo, serviceVars, crashes>>

\* Mutant: the exception of a failed run ends the observer thread.
RegenerationKills ==
    /\ wpc = "gen" /\ AtStage("watcher", "failed")
    /\ gen' = [gen EXCEPT !["watcher"] = Idle]
    /\ UNCHANGED <<sourceVars, files, watcherVars, serviceVars, crashes>>

\* CalledProcessError: report and return, with no action and no retry.
RegenerationFailed ==
    /\ wpc = "gen" /\ AtStage("watcher", "failed")
    /\ gen' = [gen EXCEPT !["watcher"] = Idle]
    /\ wpc' = "idle"
    /\ UNCHANGED <<sourceVars, files, queue, grace, cooling, envChanged, before, todo,
                   serviceVars, crashes>>

\* Mutant: outputs compared by modification time, which every run changes.
RewrittenOutputs == Outputs

ChangedOutputs == {o \in Outputs : files[o] # before[o]}

Decide(changed) ==
    {s \in Services : \/ Managed(s) \cap changed # {}
                      \/ envChanged /\ s \in EnvRestarts}

\* nginx.conf also names the address of the container that generated it (server_name):
\* the watcher's may differ from the gateway's although the sources are the same.
ForeignAddress == SUBSET (Outputs \cap {"nginx"})

\* An exception nothing catches (an OSError of _snapshot_generated or of starting the
\* generator; only CalledProcessError is caught) ends the observer thread, and a Docker
\* call that never answers (recv has no timeout) holds it for good.  main sleeps on.
ObserverLost ==
    /\ ThreadFails
    /\ \/ wpc = "gen" /\ (gen["watcher"] = Start \/ AtStage("watcher", "done"))
       \/ wpc = "act"
    /\ gen' = [gen EXCEPT !["watcher"] = Idle]
    /\ wpc' = "dead"
    /\ todo' = {}
    /\ UNCHANGED <<sourceVars, files, queue, grace, cooling, envChanged, before,
                   serviceVars, crashes>>

\* The second snapshot, the diff and the should_* decisions.
DiffOutputs ==
    /\ wpc = "gen" /\ AtStage("watcher", "done")
    /\ gen' = [gen EXCEPT !["watcher"] = Idle]
    /\ \E foreign \in ForeignAddress : todo' = Decide(ChangedOutputs \cup foreign)
    /\ wpc' = IF todo' = {} THEN "idle" ELSE "act"
    /\ UNCHANGED <<sourceVars, files, queue, grace, cooling, envChanged, before,
                   serviceVars, crashes>>

\* s is the container whose turn it is.
ActionTurn(s) ==
    /\ wpc = "act"
    /\ s \in todo
    /\ \A t \in todo : ActionRank[s] <= ActionRank[t]

ActionDone(s) ==
    /\ todo' = todo \ {s}
    /\ wpc' = IF todo = {s} THEN "idle" ELSE "act"

\* SIGHUP: nginx reloads its file in place, or keeps the old one if it is unreadable.
ReloadNginx ==
    /\ ActionTurn("nginx")
    /\ ActionDone("nginx")
    /\ running' = IF "nginx" \in Outputs /\ files["nginx"] # Torn
                  THEN [running EXCEPT !["nginx"] = files["nginx"]]
                  ELSE running
    /\ UNCHANGED <<sourceVars, files, gen, queue, grace, cooling, envChanged, before,
                   svc, crashes>>

\* A container stops, and with it the generator its entrypoint may be running.
Restarted(s) ==
    /\ svc' = [svc EXCEPT ![s] = "boot"]
    /\ gen' = IF s = "gateway" THEN [gen EXCEPT !["gateway"] = Idle] ELSE gen

\* The Docker API answers once the container is started again, not when it is ready.
RestartContainer(s) ==
    /\ s # "nginx"
    /\ ActionTurn(s)
    /\ ActionDone(s)
    /\ Restarted(s)
    /\ UNCHANGED <<sourceVars, files, queue, grace, cooling, envChanged, before,
                   running, crashes>>

\* _safe_action swallows the exception: the action is skipped, the run goes on.
ActionFails(s) ==
    /\ DockerFails
    /\ ActionTurn(s)
    /\ ActionDone(s)
    /\ UNCHANGED <<sourceVars, files, gen, queue, grace, cooling, envChanged, before,
                   serviceVars, crashes>>

WatcherStep ==
    \/ DropEvent
    \/ AcceptEvent
    \/ RegenerationFailed
    \/ DiffOutputs
    \/ ReloadNginx
    \/ \E s \in Services : RestartContainer(s) \/ ActionFails(s)

-----------------------------------------------------------------------------
(* The containers' start-up.                                               *)

Enter(s, phase) == svc' = [svc EXCEPT ![s] = phase]

\* gateway-entrypoint.sh reads the key, unless Compose has set it, then runs generate-configs.
GatewayBoot ==
    /\ svc["gateway"] = "boot"
    /\ Enter("gateway", "gen")
    /\ running' = IF ComposeKey THEN running ELSE [running EXCEPT !["env"] = src["env"]]
    /\ gen' = [gen EXCEPT !["gateway"] = Start]
    /\ UNCHANGED <<sourceVars, files, watcherVars, crashes>>

\* Mutant: no restart policy.
GatewayGenStops ==
    /\ svc["gateway"] = "gen" /\ AtStage("gateway", "failed")
    /\ gen' = [gen EXCEPT !["gateway"] = Idle]
    /\ UNCHANGED <<sourceVars, files, watcherVars, serviceVars, crashes>>

\* set -e: a failing generator ends the container, the restart policy starts it again.
GatewayGenFailed ==
    /\ svc["gateway"] = "gen" /\ AtStage("gateway", "failed")
    /\ Restarted("gateway")
    /\ UNCHANGED <<sourceVars, files, watcherVars, running, crashes>>

GatewayGenDone ==
    /\ svc["gateway"] = "gen" /\ AtStage("gateway", "done")
    /\ Enter("gateway", "load")
    /\ gen' = [gen EXCEPT !["gateway"] = Idle]
    /\ UNCHANGED <<sourceVars, files, watcherVars, running, crashes>>

\* The entrypoint checks only that the file is not empty, so LiteLLM can read half a YAML.
GatewayLoad ==
    /\ svc["gateway"] = "load"
    /\ Enter("gateway", "up")
    /\ running' = IF "litellm" \in Outputs
                  THEN [running EXCEPT !["litellm"] = files["litellm"]]
                  ELSE running
    /\ UNCHANGED <<sourceVars, files, gen, watcherVars, crashes>>

\* load_runtime_catalog: an empty (after the wait) or invalid catalog is replaced.
LlamaLoadCatalog ==
    /\ svc["llamacpp"] = "boot"
    /\ Enter("llamacpp", "swap")
    /\ running' = IF "backend_runtime_catalog" \in Outputs
                  THEN [running EXCEPT !["backend_runtime_catalog"] =
                            IF files["backend_runtime_catalog"] = Torn
                            THEN Builtin ELSE files["backend_runtime_catalog"]]
                  ELSE running
    /\ UNCHANGED <<sourceVars, files, gen, watcherVars, crashes>>

SwapFileTorn == "llama_swap" \in Outputs /\ files["llama_swap"] = Torn

\* exec llama-swap -watch-config: the script waits for a file that is not empty, so
\* llama-swap can read half a YAML.
LlamaStartSwap ==
    /\ svc["llamacpp"] = "swap"
    /\ Enter("llamacpp", "up")
    /\ running' = IF "llama_swap" \in Outputs
                  THEN [running EXCEPT !["llama_swap"] = files["llama_swap"]]
                  ELSE running
    /\ UNCHANGED <<sourceVars, files, gen, watcherVars, crashes>>

\* The file stays empty until the wait times out (exit 1), or llama-swap refuses the
\* half it reads: the container starts over.
LlamaSwapTimeout ==
    /\ svc["llamacpp"] = "swap"
    /\ SwapFileTorn
    /\ Enter("llamacpp", "boot")
    /\ UNCHANGED <<sourceVars, files, gen, watcherVars, running, crashes>>

\* llama-swap notices the new file by itself, possibly half-written.
SwapHotReload ==
    /\ svc["llamacpp"] = "up"
    /\ "llama_swap" \in Outputs
    /\ files["llama_swap"] # running["llama_swap"]
    /\ running' = [running EXCEPT !["llama_swap"] = files["llama_swap"]]
    /\ UNCHANGED <<sourceVars, files, gen, watcherVars, svc, crashes>>

\* Mutant: the file is read without checking that it parses.
VllmLoadUnchecked ==
    /\ svc["vllm"] = "boot"
    /\ Enter("vllm", "up")
    /\ running' = IF "vllm" \in Outputs
                  THEN [running EXCEPT !["vllm"] = files["vllm"]]
                  ELSE running
    /\ UNCHANGED <<sourceVars, files, gen, watcherVars, crashes>>

\* vllm-entrypoint.sh exits, and is restarted, until json.load succeeds.
VllmLoad ==
    /\ svc["vllm"] = "boot"
    /\ "vllm" \in Outputs => files["vllm"] # Torn
    /\ Enter("vllm", "up")
    /\ running' = IF "vllm" \in Outputs
                  THEN [running EXCEPT !["vllm"] = files["vllm"]]
                  ELSE running
    /\ UNCHANGED <<sourceVars, files, gen, watcherVars, crashes>>

GatewayStep == GatewayBoot \/ GatewayGenFailed \/ GatewayGenDone \/ GatewayLoad
LlamaStep   == LlamaLoadCatalog \/ LlamaStartSwap \/ LlamaSwapTimeout

-----------------------------------------------------------------------------
(* Crashes: every container has restart: unless-stopped.                   *)

WatcherCrash ==
    /\ "watcher" \in Crashable /\ crashes < MaxCrashes
    /\ crashes' = crashes + 1
    /\ gen' = [gen EXCEPT !["watcher"] = Idle]
    /\ queue' = << >>
    /\ wpc' = "idle"
    /\ todo' = {}
    /\ grace' = TRUE
    /\ cooling' = FALSE
    /\ UNCHANGED <<sourceVars, files, envChanged, before, serviceVars>>

\* Mutant: a gateway that comes back serves what is on disk without generating.
ServiceCrashResumed(s) ==
    /\ s \in Crashable /\ crashes < MaxCrashes
    /\ crashes' = crashes + 1
    /\ svc' = [svc EXCEPT ![s] = IF s = "gateway" THEN "load" ELSE "boot"]
    /\ gen' = IF s = "gateway" THEN [gen EXCEPT !["gateway"] = Idle] ELSE gen
    /\ UNCHANGED <<sourceVars, files, watcherVars, running>>

ServiceCrash(s) ==
    /\ s \in Crashable /\ crashes < MaxCrashes
    /\ crashes' = crashes + 1
    /\ Restarted(s)
    /\ UNCHANGED <<sourceVars, files, watcherVars, running>>

-----------------------------------------------------------------------------

Next ==
    \/ \E S \in ChangeSets, B \in BadSets : EditConfig(S, B)
    \/ \E S \in {{}, MasterKeyUsers} : EditEnv(S)
    \/ GraceExpires
    \/ DebounceExpires
    \/ \E g \in Generators : GenStep(g)
    \/ WatcherStep
    \/ ObserverLost
    \/ GatewayStep
    \/ LlamaStep
    \/ SwapHotReload
    \/ VllmLoad
    \/ WatcherCrash
    \/ \E s \in EnvRestarts : ServiceCrash(s)

\* Every process and every clock keeps running; nobody is obliged to edit or to crash,
\* and llama-swap need not notice a file before it is whole.
Fairness ==
    /\ WF_vars(GraceExpires)
    /\ WF_vars(DebounceExpires)
    /\ \A g \in Generators : WF_vars(GenStep(g))
    /\ WF_vars(WatcherStep)
    /\ WF_vars(GatewayStep)
    /\ WF_vars(LlamaStep)
    /\ WF_vars(~SwapCurrent /\ SwapHotReload)
    /\ WF_vars(VllmLoad)

Spec == Init /\ [][Next]_vars
FairSpec == Spec /\ Fairness
-----------------------------------------------------------------------------
(* Environments, and what holds in them.                                   *)

\* Edits come one at a time, and the watcher itself stays up.
Unhurried == ~EditsOverlap /\ "watcher" \notin Crashable /\ ~ThreadFails

\* Moreover no builder, Docker call or container fails.
Calm ==
    /\ Unhurried
    /\ ~DockerFails
    /\ Crashable = {}
    /\ BadSets \subseteq {{}}

\* The gateway takes a new master key only if Compose has not fixed it (docker-compose.yml does).
KeyFollowed == IF ComposeKey THEN {} ELSE {"env"}

\* What a container takes up only by being restarted or reloaded.
RestartKeys == (Outputs \cap {"litellm", "vllm", "nginx"}) \cup KeyFollowed

\* Once every event has been handled and every container is up, the files on
\* disk are what the generator would write now (write_generated_configs), if
\* the sources can be generated from at all.
SettledFilesFresh ==
    Settled /\ bad = {} => \A o \in Outputs : files[o] = src[o]

\* Once everything has settled, every container runs the newest version of what it
\* consumes (_regenerate_and_reload restarted or reloaded all it had to), if the sources
\* can be generated from at all.  llama.cpp may have fallen back to provision-runtime.sh's
\* default catalog, and a master key Compose has fixed is not followed.
SettledConverged ==
    Settled /\ bad = {} =>
        /\ \A k \in RestartKeys : running[k] = src[k]
        /\ "backend_runtime_catalog" \in Outputs =>
              running["backend_runtime_catalog"] \in {src["backend_runtime_catalog"], Builtin}

\* A restart hits only a container that runs something out of date, unless the
\* env file changed (should_restart_* in _regenerate_and_reload).
OnlyAffectedRestarted ==
    [][\A s \in EnvRestarts :
          svc[s] = "up" /\ svc'[s] = "boot" =>
              \/ envChanged
              \/ \E o \in Managed(s) \cap Outputs : running[o] # src[o]]_vars

\* provision-runtime.sh's default for an unreadable catalog; half of a llama-swap file.
StandIns ==
    [k \in Keys |-> CASE k = "backend_runtime_catalog" -> {Builtin}
                      [] k = "llama_swap" -> {Torn}
                      [] OTHER -> {}]

Followed == RestartKeys \cup (Outputs \cap {"llama_swap"})

Sync == INSTANCE ConfigSync WITH want <- src, have <- running

\* Hot reload keeps its promise: what a container takes up is the newest version,
\* never an obsolete one, and every edit reaches the containers; llama-swap may run
\* with half a file, but only until the whole one is there.
Synchronised == Sync!Spec

\* The safety half: no step of a container makes it run an obsolete version, nor, for
\* LiteLLM, vLLM, nginx and the catalog, a file another process is still writing
\* (truncate-and-write in the generator against the containers' reads).
NeverObsolete == Sync!SafeSpec

\* A generator that fails, or a Docker call that fails, does not end hot reload
\* (_regenerate_and_reload: "keeping watcher alive for subsequent changes";
\* _safe_action swallows): the observer thread comes back for the next event,
\* unless an exception that neither of them catches ends it.
WatcherSurvives ==
    /\ (wpc = "gen" /\ AtStage("watcher", "failed")) ~> (wpc = "idle")
    /\ (wpc # "idle") ~> (wpc \in {"idle", "dead"})
    /\ (queue # << >>) ~> (queue = << >> \/ wpc = "dead")

\* Once the sources are left in a state the generator accepts, the gateway
\* container comes up (set -e and the restart policy).
GatewayRecovers ==
    (edits = MaxEdits /\ bad = {}) ~> (svc["gateway"] = "up")
=============================================================================
