-------------------------- MODULE ConvergenceProofs --------------------------
(***************************************************************************)
(* What the containers run.  In a calm environment (edits one at a time,   *)
(* nothing fails) a settled stack runs the newest version of everything,   *)
(* only containers that need it are restarted, and ConfigWatcher           *)
(* implements the safety part of ConfigSync.  The master key is followed   *)
(* by the gateway only if Compose has not fixed it.                        *)
(***************************************************************************)
EXTENDS ConfigWatcherProofs

USE DEF Torn, Builtin, Version

\* The outputs whose consumer the watcher restarts or reloads.
Watched(s) == Managed(s) \cap Outputs

\* An event is waiting or being turned into files.
InRun == queue # << >> \/ wpc = "gen"

\* o is served from version v; the catalog may be replaced by the default one.
Have(o, v) == running[o] = v \/ (o = "backend_runtime_catalog" /\ running[o] = Builtin)

\* s is starting and has not read its file yet.
Unread(s) == svc[s] # "up" /\ ~(s = "llamacpp" /\ svc[s] = "swap")

\* A run begins and generates with every container up: a start-up's generator
\* never meets the watcher's.
QuietRun == InRun => \A s \in Services : svc[s] = "up"

ActingOn ==
    /\ wpc = "act" <=> todo # {}
    /\ \A s \in todo : svc[s] = "up"

\* nginx's turn comes first, so it reloads before the gateway's own generator runs.
NginxFirst ==
    /\ svc["nginx"] = "up"
    /\ "nginx" \in todo => \A s \in Services : svc[s] = "up"

\* What a run compares with is what the containers run.
SnapshotServed ==
    \A s \in Services : \A o \in Watched(s) :
        /\ queue # << >> => Have(o, files[o])
        /\ wpc = "gen" => Have(o, before[o])

\* A container that runs something old will be dealt with.
ServedOrDue ==
    \A s \in Services : \A o \in Watched(s) :
        Have(o, src[o]) \/ InRun \/ s \in todo \/ Unread(s)

EnvServedOrDue ==
    \/ ComposeKey
    \/ running["env"] = src["env"]
    \/ queue = <<"env">>
    \/ wpc = "gen" /\ envChanged
    \/ "gateway" \in todo
    \/ svc["gateway"] = "boot"

\* Every restart that is due has a reason.
DueForReason ==
    \A s \in todo \cap EnvRestarts :
        envChanged \/ \E o \in Watched(s) : running[o] # src[o]

\* Outside a run a generator can only rewrite what is already there.
FilesIntact == ~InRun => \A o \in Outputs : files[o] \in {Torn, src[o]}

ConvInv ==
    /\ bad = {}
    /\ QuietRun
    /\ ActingOn
    /\ NginxFirst
    /\ SnapshotServed
    /\ ServedOrDue
    /\ EnvServedOrDue
    /\ DueForReason
    /\ FilesIntact

\* The versions of the sources are numbered by the edits.
VersionBound == \A k \in Keys : src[k] <= edits

\* llama-swap's file is the newest, the one it runs, or being written.
SwapFile ==
    "llama_swap" \in Outputs =>
        files["llama_swap"] \in {Torn, running["llama_swap"], src["llama_swap"]}

CalmInv == TypeOK /\ DiskInv /\ ConvInv

-----------------------------------------------------------------------------
(* Facts the steps share.                                                  *)

LEMMA WatchedFacts ==
    \A s \in Services : \A o \in Watched(s) :
        /\ o \in Outputs /\ o \in Keys /\ o # "env" /\ o # "llama_swap"
        /\ s = "nginx" <=> o = "nginx"
        /\ s = "gateway" <=> o = "litellm"
        /\ s = "llamacpp" <=> o = "backend_runtime_catalog"
        /\ s = "vllm" <=> o = "vllm"
BY EnvNotOutput DEF Watched, Managed, Services, Keys

LEMMA CalmFacts ==
    ASSUME Calm
    PROVE  /\ ~EditsOverlap /\ ~DockerFails /\ ~ThreadFails /\ Crashable = {}
           /\ \A B \in BadSets : B = {}
BY DEF Calm, Unhurried

\* With no event waiting and no generator at work, the disk holds the newest versions.
LEMMA OnDisk ==
    ASSUME DiskInv, ConvInv, queue = << >>, svc["gateway"] # "boot",
           \A g \in Generators : gen[g].stage \notin Busy
    PROVE  \A o \in Outputs : files[o] = src[o]
<1> SUFFICES ASSUME NEW o \in Outputs PROVE files[o] = src[o]
  OBVIOUS
<1>1. PICK i \in DOMAIN Order : o = Order[i]
  BY DEF Outputs
<1>2. ~Pending(i)
  BY DEF Pending
<1> QED BY <1>1, <1>2 DEF DiskInv, ConvInv, FreshOrPending

LEMMA ConvInit == Init => ConvInv
<1> SUFFICES ASSUME Init PROVE ConvInv
  OBVIOUS
<1>1. bad = {} /\ QuietRun /\ ActingOn /\ NginxFirst
  BY DEF Init, QuietRun, InRun, ActingOn, NginxFirst, Services
<1>2. SnapshotServed /\ ServedOrDue
  BY WatchedFacts DEF Init, SnapshotServed, ServedOrDue, Have
<1>3. EnvServedOrDue /\ DueForReason /\ FilesIntact
  BY DEF Init, EnvServedOrDue, DueForReason, FilesIntact, Keys
<1> QED BY <1>1, <1>2, <1>3 DEF ConvInv

-----------------------------------------------------------------------------
(* The operator's and the generators' steps.                               *)

LEMMA ConvEdit ==
    ASSUME TypeOK, DiskInv, ConvInv, Calm, NEW S, SourcesChange(S),
           NEW f \in {"config", "env"}, Notify(f), bad' = {},
           "env" \in S => f = "env"
    PROVE  ConvInv'
<1> USE DEF SourcesChange, serviceVars
<1>1. Settled
  BY CalmFacts DEF MayEdit
<1>2. queue' = <<f>> /\ queue = << >> /\ wpc = "idle" /\ todo = {}
  BY <1>1 DEF Settled, Notify, ConvInv, ActingOn
<1>3. \A s \in Services : svc[s] = "up"
  BY <1>1 DEF Settled
<1>4. \A o \in Outputs : files[o] = src[o]
  BY <1>1, <1>2, <1>3, OnDisk, IdleStartFields DEF Settled, Busy, Services
<1>5. InRun'
  BY <1>2 DEF InRun
<1>6. QuietRun' /\ ActingOn' /\ NginxFirst'
  BY <1>3 DEF ConvInv, QuietRun, ActingOn, NginxFirst
<1>7. SnapshotServed'
  <2> SUFFICES ASSUME NEW s \in Services, NEW o \in Watched(s) PROVE Have(o, files[o])'
    BY <1>2 DEF SnapshotServed, Watched
  <2>1. Have(o, src[o])
    BY <1>2, <1>3 DEF ConvInv, ServedOrDue, InRun, Unread
  <2> QED BY <1>4, <2>1, WatchedFacts DEF Have
<1>8. ServedOrDue' /\ FilesIntact'
  BY <1>5 DEF ServedOrDue, FilesIntact
<1>9. EnvServedOrDue' /\ DueForReason'
  <2>1. src'["env"] = src["env"] \/ f = "env"
    BY DEF Keys
  <2> QED BY <1>2, <1>3, <2>1 DEF ConvInv, EnvServedOrDue, DueForReason, Services
<1> QED BY <1>6, <1>7, <1>8, <1>9 DEF ConvInv

LEMMA ConvGen ==
    ASSUME TypeOK, DiskInv, ConvInv, NEW g \in Generators, GenStep(g)
    PROVE  ConvInv'
<1>1. /\ UNCHANGED <<src, bad, queue, wpc, envChanged, before, todo, svc, running>>
      /\ gen[g].stage # "idle"
  BY DEF GenStep, GenLoad, GenOpen, GenBuild, GenWrite, AtStage, sourceVars, watcherVars,
         serviceVars
<1>2. queue = << >>
  <2>1. CASE g = "watcher"
    BY <1>1, <2>1 DEF DiskInv, WatcherWaits, EventAccepted
  <2>2. CASE g = "gateway"
    BY <1>1, <2>2 DEF DiskInv, GatewayWaits, ConvInv, QuietRun, InRun, Services
  <2> QED BY <2>1, <2>2 DEF Generators
<1>3. \A o \in Outputs : files'[o] \in {files[o], Torn, src[o]}
  <2>1. GenWrite(g) => gen[g].payload = src[Output(g)]
    BY DEF DiskInv, InHand, GenWrite, AtStage
  <2> QED
    BY <2>1 DEF GenStep, GenLoad, GenOpen, GenBuild, GenWrite, TypeOK
<1>4. QuietRun' /\ ActingOn' /\ NginxFirst' /\ EnvServedOrDue' /\ DueForReason'
  BY <1>1 DEF ConvInv, QuietRun, InRun, ActingOn, NginxFirst, EnvServedOrDue, DueForReason
<1>5. SnapshotServed' /\ ServedOrDue'
  BY <1>1, <1>2 DEF ConvInv, SnapshotServed, ServedOrDue, Have, InRun, Unread
<1>6. FilesIntact'
  BY <1>1, <1>3 DEF ConvInv, FilesIntact, InRun
<1> QED BY <1>1, <1>4, <1>5, <1>6 DEF ConvInv

-----------------------------------------------------------------------------
(* The watcher's steps.                                                    *)

LEMMA ConvAccept ==
    ASSUME TypeOK, DiskInv, ConvInv, AcceptEvent
    PROVE  ConvInv'
<1>1. /\ wpc = "idle" /\ queue # << >> /\ wpc' = "gen" /\ before' = files
      /\ envChanged' = (Head(queue) = "env")
      /\ UNCHANGED <<src, bad, files, todo, svc, running>>
  BY DEF AcceptEvent, sourceVars, serviceVars
<1>2. todo = {}
  BY <1>1 DEF ConvInv, ActingOn
<1>3. queue' = << >>
  BY <1>1 DEF AcceptEvent, DiskInv, EventAccepted, TypeOK
<1>4. QuietRun' /\ ActingOn' /\ NginxFirst'
  BY <1>1, <1>2 DEF ConvInv, QuietRun, InRun, ActingOn, NginxFirst
<1>5. SnapshotServed' /\ ServedOrDue' /\ FilesIntact'
  BY <1>1, <1>3 DEF ConvInv, SnapshotServed, ServedOrDue, FilesIntact, InRun, Have
<1>6. EnvServedOrDue'
  <2>1. CASE queue = <<"env">>
    <3>1. Head(queue) = "env"
      BY <2>1
    <3>2. envChanged'
      BY <1>1, <3>1
    <3> QED BY <1>1, <3>2 DEF EnvServedOrDue
  <2>2. CASE queue # <<"env">>
    BY <1>1, <2>2 DEF ConvInv, EnvServedOrDue
  <2> QED BY <2>1, <2>2
<1>7. DueForReason'
  BY <1>1, <1>2 DEF DueForReason
<1> QED BY <1>1, <1>4, <1>5, <1>6, <1>7 DEF ConvInv

LEMMA ConvDiff ==
    ASSUME TypeOK, DiskInv, ConvInv, DiffOutputs
    PROVE  ConvInv'
<1> PICK foreign \in ForeignAddress : todo' = Decide(ChangedOutputs \cup foreign)
  BY DEF DiffOutputs
<1> DEFINE changed == ChangedOutputs \cup foreign
<1>1. /\ wpc = "gen" /\ gen["watcher"].stage = "done" /\ todo' = Decide(changed)
      /\ wpc' = IF todo' = {} THEN "idle" ELSE "act"
      /\ UNCHANGED <<src, bad, files, queue, envChanged, before, svc, running>>
      /\ foreign \subseteq {"nginx"}
  BY DEF DiffOutputs, AtStage, sourceVars, serviceVars, ForeignAddress
<1>2. queue = << >> /\ \A s \in Services : svc[s] = "up"
  BY <1>1 DEF DiskInv, EventAccepted, ConvInv, QuietRun, InRun
<1>3. \A o \in Outputs : files[o] = src[o]
  <2>1. gen["gateway"].stage = "idle"
    BY <1>2 DEF DiskInv, GatewayWaits, Services
  <2> QED BY <1>1, <1>2, <2>1, OnDisk DEF Busy, Generators, Services
<1>4. ~InRun'
  BY <1>1, <1>2 DEF InRun
<1>5. QuietRun' /\ ActingOn' /\ NginxFirst'
  BY <1>1, <1>2, <1>4 DEF QuietRun, ActingOn, NginxFirst, Decide, Services
<1>6. SnapshotServed' /\ FilesIntact'
  BY <1>1, <1>2, <1>3, <1>4 DEF SnapshotServed, FilesIntact
<1>7. \A s \in Services : \A o \in Watched(s) :
          /\ Have(o, before[o])
          /\ before[o] # src[o] => s \in Decide(changed)
  BY <1>1, <1>3, WatchedFacts DEF ConvInv, SnapshotServed, Decide, ChangedOutputs, Watched
<1>8. ServedOrDue'
  BY <1>1, <1>7 DEF ServedOrDue, Have
<1>9. EnvServedOrDue'
  BY <1>1, <1>2 DEF ConvInv, ActingOn, EnvServedOrDue, Decide, Services, EnvRestarts
<1>10. DueForReason'
  <2> SUFFICES ASSUME NEW s \in Decide(changed) \cap EnvRestarts, ~envChanged
               PROVE  \E o \in Watched(s) : running[o] # src[o]
    BY <1>1 DEF DueForReason
  <2>1. PICK o \in Watched(s) : files[o] # before[o]
    <3>1. PICK o \in Managed(s) \cap changed : TRUE
      BY DEF Decide
    <3>2. o # "nginx"
      BY DEF Managed, EnvRestarts, Decide
    <3> QED BY <1>1, <3>1, <3>2 DEF ChangedOutputs, Watched
  <2>2. Have(o, before[o]) /\ before[o] # src[o] /\ src[o] \in Nat
    BY <1>3, <1>7, <2>1, WatchedFacts DEF Decide, TypeOK
  <2> QED BY <2>2 DEF Have
<1> QED BY <1>1, <1>5, <1>6, <1>8, <1>9, <1>10 DEF ConvInv

LEMMA ConvReload ==
    ASSUME TypeOK, DiskInv, ConvInv, ReloadNginx
    PROVE  ConvInv'
<1>1. /\ wpc = "act" /\ "nginx" \in todo /\ todo' = todo \ {"nginx"}
      /\ wpc' = IF todo = {"nginx"} THEN "idle" ELSE "act"
      /\ UNCHANGED <<src, bad, files, queue, envChanged, before, svc>>
  BY DEF ReloadNginx, ActionTurn, ActionDone, sourceVars
<1>2. queue = << >> /\ \A s \in Services : svc[s] = "up"
  BY <1>1 DEF DiskInv, EventAccepted, ConvInv, NginxFirst
<1>3. \A o \in Outputs : files[o] = src[o]
  <2>1. \A g \in Generators : gen[g].stage = "idle"
    BY <1>1, <1>2 DEF DiskInv, WatcherWaits, GatewayWaits, Services, Generators
  <2> QED BY <1>2, <2>1, OnDisk DEF Busy, Services
<1>4. running' = IF "nginx" \in Outputs
                 THEN [running EXCEPT !["nginx"] = src["nginx"]] ELSE running
  <2>1. "nginx" \in Outputs => files["nginx"] = src["nginx"] /\ src["nginx"] \in Nat
    BY <1>3 DEF TypeOK, Keys
  <2>2. CASE "nginx" \in Outputs
    <3>1. files["nginx"] = src["nginx"] /\ files["nginx"] # Torn
      BY <2>1, <2>2
    <3>2. running' = [running EXCEPT !["nginx"] = files["nginx"]]
      BY <2>2, <3>1 DEF ReloadNginx
    <3> QED BY <2>2, <3>1, <3>2
  <2>3. CASE "nginx" \notin Outputs
    BY <2>3 DEF ReloadNginx
  <2> QED BY <2>2, <2>3
<1>5. ~InRun /\ ~InRun'
  BY <1>1, <1>2 DEF InRun
<1>6. QuietRun' /\ ActingOn' /\ NginxFirst'
  BY <1>1, <1>2, <1>5 DEF QuietRun, ActingOn, NginxFirst, Services, TypeOK
<1>7. SnapshotServed' /\ FilesIntact'
  BY <1>1, <1>2, <1>3, <1>5 DEF SnapshotServed, FilesIntact
<1>8. ServedOrDue'
  <2> SUFFICES ASSUME NEW s \in Services, NEW o \in Watched(s), s \notin todo'
               PROVE  Have(o, src[o])'
    BY DEF ServedOrDue, Watched
  <2>1. CASE s = "nginx"
    BY <1>1, <1>4, <2>1, WatchedFacts DEF Have, TypeOK
  <2>2. CASE s # "nginx"
    BY <1>1, <1>2, <1>4, <1>5, <2>2, WatchedFacts
    DEF ConvInv, ServedOrDue, Have, Unread, TypeOK
  <2> QED BY <2>1, <2>2
<1>9. EnvServedOrDue'
  <2>1. running'["env"] = running["env"]
    BY <1>4, EnvNotOutput DEF TypeOK, Keys
  <2> QED BY <1>1, <2>1 DEF ConvInv, EnvServedOrDue
<1>10. DueForReason'
  <2> SUFFICES ASSUME NEW s \in todo' \cap EnvRestarts
               PROVE  (envChanged \/ \E o \in Watched(s) : running[o] # src[o])'
    BY DEF DueForReason
  <2>1. \A o \in Watched(s) : running'[o] = running[o]
    BY <1>4, WatchedFacts DEF EnvRestarts, Services, TypeOK
  <2> QED BY <1>1, <2>1 DEF ConvInv, DueForReason, Watched
<1> QED BY <1>1, <1>6, <1>7, <1>8, <1>9, <1>10 DEF ConvInv

LEMMA ConvRestart ==
    ASSUME TypeOK, DiskInv, ConvInv, NEW s \in Services, RestartContainer(s)
    PROVE  ConvInv'
<1>1. /\ s # "nginx" /\ wpc = "act" /\ s \in todo /\ todo' = todo \ {s}
      /\ wpc' = IF todo = {s} THEN "idle" ELSE "act"
      /\ svc' = [svc EXCEPT ![s] = "boot"]
      /\ UNCHANGED <<src, bad, files, queue, envChanged, before, running>>
  BY DEF RestartContainer, ActionTurn, ActionDone, Restarted, sourceVars
<1>2. "nginx" \notin todo
  BY <1>1 DEF RestartContainer, ActionTurn, ActionRank, Services
<1>3. queue = << >>
  BY <1>1 DEF DiskInv, EventAccepted
<1>4. ~InRun /\ ~InRun'
  BY <1>1, <1>3 DEF InRun
<1>5. svc'[s] = "boot" /\ \A t \in Services \ {s} : svc'[t] = svc[t]
  BY <1>1 DEF TypeOK
<1>6. QuietRun' /\ NginxFirst'
  BY <1>1, <1>2, <1>4, <1>5 DEF ConvInv, QuietRun, NginxFirst, Services
<1>7. ActingOn'
  BY <1>1, <1>5 DEF ConvInv, ActingOn, TypeOK
<1>8. SnapshotServed' /\ FilesIntact'
  BY <1>1, <1>3, <1>4 DEF ConvInv, SnapshotServed, FilesIntact
<1>9. ServedOrDue'
  BY <1>1, <1>4, <1>5 DEF ConvInv, ServedOrDue, Have, Unread
<1>10. EnvServedOrDue' /\ DueForReason'
  BY <1>1, <1>3, <1>5 DEF ConvInv, EnvServedOrDue, DueForReason, Services
<1> QED BY <1>1, <1>6, <1>7, <1>8, <1>9, <1>10 DEF ConvInv

LEMMA ConvWatcher ==
    ASSUME TypeOK, DiskInv, ConvInv, Calm, WatcherStep
    PROVE  ConvInv'
<1>1. ~DropEvent
  BY DEF DropEvent, DiskInv, EventAccepted, Attentive
<1>2. ~RegenerationFailed
  BY DEF RegenerationFailed, AtStage, DiskInv, NoFailure, ConvInv, Generators
<1>3. \A s \in Services : ~ActionFails(s)
  BY CalmFacts DEF ActionFails
<1> QED BY <1>1, <1>2, <1>3, ConvAccept, ConvDiff, ConvReload, ConvRestart DEF WatcherStep

-----------------------------------------------------------------------------
(* The containers' steps.                                                  *)

\* While some container starts no event is waiting and no run generates.
LEMMA StartingAlone ==
    ASSUME DiskInv, ConvInv, NEW s \in Services, svc[s] # "up"
    PROVE  queue = << >> /\ wpc # "gen" /\ ~InRun /\ "nginx" \notin todo /\ s # "nginx"
BY DEF ConvInv, QuietRun, NginxFirst, InRun

\* A starting container goes to another phase before "up".
LEMMA ConvPhase ==
    ASSUME TypeOK, DiskInv, ConvInv, NEW s \in Services, svc[s] # "up",
           NEW p \in Phases, Enter(s, p),
           UNCHANGED <<src, bad, queue, wpc, envChanged, before, todo, files>>,
           \A k \in Keys : running'[k] = running[k] \/ k \in Watched(s) \cup {"env", "llama_swap"},
           s = "gateway" /\ running'["env"] # src["env"] =>
               ComposeKey \/ p = "boot" \/ svc["gateway"] # "boot",
           running'["env"] \in {running["env"], src["env"]},
           \A o \in Watched(s) : Have(o, src[o])' \/ (p # "up" /\ ~(s = "llamacpp" /\ p = "swap"))
    PROVE  ConvInv'
<1> USE DEF Enter
<1>1. /\ queue = << >> /\ wpc # "gen" /\ ~InRun /\ "nginx" \notin todo /\ s # "nginx"
      /\ s \notin todo
  BY StartingAlone DEF ConvInv, ActingOn
<1>2. ~InRun'
  BY <1>1 DEF InRun
<1>3. svc'[s] = p /\ \A t \in Services \ {s} : svc'[t] = svc[t]
  BY DEF TypeOK
<1>4. QuietRun' /\ ActingOn' /\ NginxFirst'
  BY <1>1, <1>2, <1>3 DEF ConvInv, QuietRun, ActingOn, NginxFirst, Services, TypeOK
<1>5. SnapshotServed' /\ FilesIntact'
  BY <1>1, <1>2 DEF ConvInv, SnapshotServed, FilesIntact
<1>6. ASSUME NEW t \in Services \ {s}, NEW o \in Watched(t)
      PROVE  running'[o] = running[o]
  <2>1. o \in Keys /\ o \notin Watched(s) \cup {"env", "llama_swap"}
    BY WatchedFacts DEF Services
  <2> QED BY <2>1
<1>7. ServedOrDue'
  <2> SUFFICES ASSUME NEW t \in Services, NEW o \in Watched(t), t \notin todo, ~Unread(t)'
               PROVE  Have(o, src[o])'
    BY DEF ServedOrDue, Watched
  <2>1. CASE t = s
    BY <1>3, <2>1 DEF Unread
  <2>2. CASE t # s
    <3>1. Have(o, src[o])
      BY <1>1, <1>3, <2>2 DEF ConvInv, ServedOrDue, Unread
    <3> QED BY <1>6, <2>2, <3>1 DEF Have
  <2> QED BY <2>1, <2>2
<1>8. EnvServedOrDue'
  BY <1>1, <1>3 DEF ConvInv, EnvServedOrDue, Services
<1>9. DueForReason'
  BY <1>1, <1>6 DEF ConvInv, DueForReason, EnvRestarts, Services, TypeOK, Watched
<1> QED BY <1>4, <1>5, <1>7, <1>8, <1>9 DEF ConvInv

\* The gateway reads litellm's file after its generator has finished.
LEMMA GatewayReadsNewest ==
    ASSUME TypeOK, DiskInv, ConvInv, svc["gateway"] = "load"
    PROVE  \A o \in Outputs : files[o] = src[o]
<1>1. queue = << >> /\ wpc # "gen"
  BY StartingAlone DEF Services
<1>2. \A g \in Generators : gen[g].stage = "idle"
  BY <1>1 DEF DiskInv, WatcherWaits, GatewayWaits, Generators
<1> QED BY <1>1, <1>2, OnDisk DEF Busy

LEMMA ConvService ==
    ASSUME TypeOK, DiskInv, ConvInv, Calm, GatewayStep \/ LlamaStep \/ SwapHotReload \/ VllmLoad
    PROVE  ConvInv'
<1> USE DEF sourceVars, watcherVars
<1>1. CASE GatewayBoot
  <2>1. /\ ComposeKey \/ running'["env"] = src["env"]
        /\ running'["env"] \in {running["env"], src["env"]}
        /\ \A k \in Keys : running'[k] = running[k] \/ k = "env"
    BY <1>1 DEF GatewayBoot, TypeOK, Keys
  <2> QED BY <1>1, <2>1, ConvPhase DEF GatewayBoot, Services, Phases
<1>2. CASE GatewayGenFailed
  BY <1>2 DEF GatewayGenFailed, AtStage, DiskInv, NoFailure, ConvInv, Generators
<1>3. CASE GatewayGenDone
  BY <1>3, ConvPhase DEF GatewayGenDone, Services, Phases
<1>4. CASE GatewayLoad
  <2>1. \A o \in Outputs : files[o] = src[o]
    BY <1>4, GatewayReadsNewest DEF GatewayLoad
  <2>2. \A k \in Keys : running'[k] = running[k] \/ (k = "litellm" /\ k \in Outputs)
    BY <1>4 DEF GatewayLoad, TypeOK
  <2>3. "litellm" \in Outputs => running'["litellm"] = src["litellm"]
    BY <1>4, <2>1 DEF GatewayLoad, TypeOK, Keys
  <2>4. \A o \in Watched("gateway") : Have(o, src[o])'
    BY <1>4, <2>3, WatchedFacts DEF GatewayLoad, Have, Services
  <2>5. running'["env"] = running["env"] /\ ("litellm" \in Outputs => "litellm" \in Watched("gateway"))
    BY <2>2, EnvNotOutput DEF Keys, Watched, Managed
  <2> QED BY <1>4, <2>2, <2>4, <2>5, ConvPhase DEF GatewayLoad, Services, Phases
<1>5. CASE LlamaLoadCatalog
  <2> DEFINE cat == "backend_runtime_catalog"
  <2>1. cat \in Outputs => files[cat] \in {Torn, src[cat]}
    BY <1>5, StartingAlone DEF LlamaLoadCatalog, ConvInv, FilesIntact, Services
  <2>2. \A k \in Keys : running'[k] = running[k] \/ (k = cat /\ k \in Outputs)
    BY <1>5 DEF LlamaLoadCatalog, TypeOK
  <2>3. cat \in Outputs => running'[cat] \in {src[cat], Builtin}
    <3>1. CASE cat \in Outputs /\ files[cat] = Torn
      BY <1>5, <3>1 DEF LlamaLoadCatalog, TypeOK, Keys
    <3>2. CASE cat \in Outputs /\ files[cat] # Torn
      <4>1. running' = [running EXCEPT ![cat] = files[cat]]
        BY <1>5, <3>2 DEF LlamaLoadCatalog
      <4> QED BY <2>1, <3>2, <4>1 DEF TypeOK, Keys
    <3> QED BY <3>1, <3>2
  <2>4. \A o \in Watched("llamacpp") : Have(o, src[o])'
    BY <1>5, <2>3, WatchedFacts DEF LlamaLoadCatalog, Have, Services
  <2>5. running'["env"] = running["env"] /\ (cat \in Outputs => cat \in Watched("llamacpp"))
    BY <2>2, EnvNotOutput DEF Keys, Watched, Managed
  <2> QED BY <1>5, <2>2, <2>4, <2>5, ConvPhase DEF LlamaLoadCatalog, Services, Phases
<1>6. CASE LlamaStartSwap
  <2>1. \A k \in Keys : running'[k] = running[k] \/ (k = "llama_swap" /\ k \in Outputs)
    BY <1>6 DEF LlamaStartSwap, TypeOK
  <2>2. \A o \in Watched("llamacpp") : Have(o, src[o])
    BY <1>6, StartingAlone DEF LlamaStartSwap, ConvInv, ServedOrDue, ActingOn, Unread, Services
  <2>3. \A o \in Watched("llamacpp") : Have(o, src[o])'
    BY <1>6, <2>1, <2>2, WatchedFacts DEF LlamaStartSwap, Have, Services
  <2>4. running'["env"] = running["env"]
    BY <2>1, EnvNotOutput DEF Keys
  <2> QED BY <1>6, <2>1, <2>3, <2>4, ConvPhase DEF LlamaStartSwap, Services, Phases
<1>7. CASE LlamaSwapTimeout
  BY <1>7, ConvPhase DEF LlamaSwapTimeout, Services, Phases
<1>8. CASE SwapHotReload
  <2>1. \A k \in Keys : k # "llama_swap" => running'[k] = running[k]
    BY <1>8 DEF SwapHotReload, TypeOK
  <2>2. \A s \in Services : \A o \in Watched(s) : running'[o] = running[o]
    BY <2>1, WatchedFacts
  <2>3. running'["env"] = running["env"]
    BY <2>1 DEF Keys
  <2>4. UNCHANGED <<src, bad, queue, wpc, envChanged, before, todo, files, svc>>
    BY <1>8 DEF SwapHotReload
  <2>5. SnapshotServed' /\ ServedOrDue'
    BY <2>2, <2>4 DEF ConvInv, SnapshotServed, ServedOrDue, Have, InRun, Unread, Watched
  <2>6. DueForReason'
    BY <2>2, <2>4 DEF ConvInv, DueForReason, Watched, EnvRestarts, Services
  <2>7. QuietRun' /\ ActingOn' /\ NginxFirst' /\ EnvServedOrDue' /\ FilesIntact'
    BY <2>3, <2>4 DEF ConvInv, QuietRun, InRun, ActingOn, NginxFirst, EnvServedOrDue, FilesIntact
  <2> QED BY <2>4, <2>5, <2>6, <2>7 DEF ConvInv
<1>9. CASE VllmLoad
  <2>1. "vllm" \in Outputs => files["vllm"] = src["vllm"]
    BY <1>9, StartingAlone DEF VllmLoad, ConvInv, FilesIntact, Services
  <2>2. \A k \in Keys : running'[k] = running[k] \/ (k = "vllm" /\ k \in Outputs)
    BY <1>9 DEF VllmLoad, TypeOK
  <2>3. "vllm" \in Outputs => running'["vllm"] = src["vllm"]
    BY <1>9, <2>1 DEF VllmLoad, TypeOK, Keys
  <2>4. \A o \in Watched("vllm") : Have(o, src[o])'
    BY <1>9, <2>3, WatchedFacts DEF VllmLoad, Have, Services
  <2>5. running'["env"] = running["env"] /\ ("vllm" \in Outputs => "vllm" \in Watched("vllm"))
    BY <2>2, EnvNotOutput DEF Keys, Watched, Managed
  <2> QED BY <1>9, <2>2, <2>4, <2>5, ConvPhase DEF VllmLoad, Services, Phases
<1> QED BY <1>1, <1>2, <1>3, <1>4, <1>5, <1>6, <1>7, <1>8, <1>9 DEF GatewayStep, LlamaStep

LEMMA ConvNext ==
    ASSUME Calm, TypeOK, DiskInv, ConvInv, [Next]_vars
    PROVE  ConvInv'
<1>1. ASSUME NEW S \in ChangeSets, NEW B \in BadSets, EditConfig(S, B)
      PROVE  ConvInv'
  <2>1. "env" \notin S
    BY WatcherAssumption, EnvNotOutput DEF EnvironmentAssumption
  <2> QED BY <1>1, <2>1, CalmFacts, ConvEdit DEF EditConfig
<1>2. CASE \E S \in {{}, MasterKeyUsers} : EditEnv(S)
  BY <1>2, ConvEdit DEF EditEnv, ConvInv
<1>3. ASSUME UNCHANGED <<src, bad, files, queue, wpc, envChanged, before, todo, svc, running>>
      PROVE  ConvInv'
  <2>1. QuietRun' /\ ActingOn' /\ NginxFirst' /\ EnvServedOrDue' /\ FilesIntact'
    BY <1>3 DEF ConvInv, QuietRun, InRun, ActingOn, NginxFirst, EnvServedOrDue, FilesIntact
  <2>2. SnapshotServed' /\ ServedOrDue' /\ DueForReason'
    BY <1>3 DEF ConvInv, SnapshotServed, ServedOrDue, DueForReason, Have, InRun, Unread
  <2> QED BY <1>3, <2>1, <2>2 DEF ConvInv
<1>4. CASE GraceExpires \/ DebounceExpires
  BY <1>3, <1>4 DEF GraceExpires, DebounceExpires, sourceVars, serviceVars
<1>5. CASE \E g \in Generators : GenStep(g)
  BY <1>5, ConvGen
<1>6. CASE WatcherStep
  BY <1>6, ConvWatcher
<1>7. CASE GatewayStep \/ LlamaStep \/ SwapHotReload \/ VllmLoad
  BY <1>7, ConvService
<1>8. ~WatcherCrash /\ ~ObserverLost /\ \A s \in EnvRestarts : ~ServiceCrash(s)
  BY CalmFacts DEF WatcherCrash, ObserverLost, ServiceCrash
<1>9. CASE UNCHANGED vars
  BY <1>3, <1>9 DEF vars, sourceVars, watcherVars, serviceVars
<1> QED BY <1>1, <1>2, <1>4, <1>5, <1>6, <1>7, <1>8, <1>9 DEF Next

LEMMA CalmUnhurried == Calm => Unhurried
BY DEF Calm

LEMMA CalmInvariant == ASSUME Calm PROVE Spec => []CalmInv
<1>1. Init => CalmInv
  BY InitType, DiskInit, ConvInit DEF CalmInv
<1>2. CalmInv /\ [Next]_vars => CalmInv'
  BY CalmUnhurried, NextType, DiskNext, ConvNext DEF CalmInv
<1> QED BY <1>1, <1>2, PTL DEF Spec

-----------------------------------------------------------------------------
(* The theorems.                                                           *)

LEMMA ConvImplies == CalmInv => SettledConverged
<1> SUFFICES ASSUME TypeOK, ConvInv, Settled PROVE SettledConverged
  BY DEF CalmInv, SettledConverged
<1>1. todo = {} /\ ~InRun /\ \A s \in Services : ~Unread(s)
  BY DEF Settled, ConvInv, ActingOn, InRun, Unread
<1>2. \A s \in Services : \A o \in Watched(s) : Have(o, src[o])
  BY <1>1 DEF ConvInv, ServedOrDue
<1>3. ComposeKey \/ running["env"] = src["env"]
  BY <1>1 DEF Settled, ConvInv, EnvServedOrDue, Services
<1>4. ASSUME NEW o \in Outputs \cap {"litellm", "vllm", "nginx"}
      PROVE  running[o] = src[o]
  <2>1. \E s \in Services : o \in Watched(s)
    BY DEF Watched, Managed, Services
  <2> QED BY <1>2, <2>1, WatchedFacts DEF Have
<1>5. "backend_runtime_catalog" \in Outputs =>
        running["backend_runtime_catalog"] \in {src["backend_runtime_catalog"], Builtin}
  <2>1. "backend_runtime_catalog" \in Outputs => "backend_runtime_catalog" \in Watched("llamacpp")
    BY DEF Watched, Managed
  <2> QED BY <1>2, <2>1 DEF Have, Services
<1> QED BY <1>3, <1>4, <1>5 DEF SettledConverged, RestartKeys, KeyFollowed

\* Hot reload converges: when the stack settles after any sequence of separate
\* edits, each container runs what the sources now ask for.
THEOREM Converges == ASSUME Calm PROVE Spec => []SettledConverged
BY CalmInvariant, ConvImplies, PTL

LEMMA RestartForReason ==
    ASSUME Calm, CalmInv, [Next]_vars, NEW s \in EnvRestarts,
           svc[s] = "up", svc'[s] = "boot"
    PROVE  envChanged \/ \E o \in Managed(s) \cap Outputs : running[o] # src[o]
<1> USE DEF CalmInv, TypeOK, EnvRestarts, Services
<1>1. PICK t \in Services : RestartContainer(t)
  <2>1. svc' # svc
    OBVIOUS
  <2>2. ~(\E S \in ChangeSets, B \in BadSets : EditConfig(S, B)) /\ \A S : ~EditEnv(S)
    BY <2>1 DEF EditConfig, EditEnv, SourcesChange, serviceVars
  <2>3. ~GraceExpires /\ ~DebounceExpires /\ ~UNCHANGED vars
    BY <2>1 DEF GraceExpires, DebounceExpires, serviceVars, vars
  <2>4. \A g \in Generators : ~GenStep(g)
    BY <2>1 DEF GenStep, GenLoad, GenOpen, GenBuild, GenWrite, serviceVars
  <2>5. ~GatewayStep
    BY DEF GatewayStep, GatewayBoot, GatewayGenFailed, GatewayGenDone, GatewayLoad, Enter, Restarted
  <2>6. ~LlamaStep /\ ~SwapHotReload /\ ~VllmLoad
    BY DEF LlamaStep, LlamaLoadCatalog, LlamaStartSwap, LlamaSwapTimeout, SwapHotReload,
           VllmLoad, Enter
  <2>7. ~WatcherCrash /\ ~ObserverLost /\ \A t \in EnvRestarts : ~ServiceCrash(t)
    BY CalmFacts DEF WatcherCrash, ObserverLost, ServiceCrash
  <2>8. WatcherStep
    BY <2>2, <2>3, <2>4, <2>5, <2>6, <2>7 DEF Next
  <2> QED
    BY <2>1, <2>8
    DEF WatcherStep, DropEvent, AcceptEvent, RegenerationFailed, DiffOutputs, ReloadNginx,
        ActionFails, serviceVars
<1>2. s = t /\ t \in todo
  BY <1>1 DEF RestartContainer, ActionTurn, Restarted
<1> QED BY <1>2 DEF ConvInv, DueForReason, Watched

\* The watcher restarts no container without need: a container it stops runs
\* something out of date, or the env file has changed.
THEOREM RestartsAffectedOnly == ASSUME Calm PROVE Spec => OnlyAffectedRestarted
<1> DEFINE A == \A s \in EnvRestarts :
                    svc[s] = "up" /\ svc'[s] = "boot" =>
                        \/ envChanged
                        \/ \E o \in Managed(s) \cap Outputs : running[o] # src[o]
<1>1. CalmInv /\ [Next]_vars => [A]_vars
  BY RestartForReason
<1>2. Spec => [][A]_vars
  BY <1>1, CalmInvariant, PTL DEF Spec
<1> QED BY <1>2 DEF OnlyAffectedRestarted

-----------------------------------------------------------------------------
(* The safety half of the refinement: every step of the hot-reload path is *)
(* a step of ConfigSync or leaves the wanted and the running versions alone. *)

SyncInv == CalmInv /\ VersionBound /\ SwapFile

LEMMA SyncInvInit == Init => SyncInv
<1>1. Init => CalmInv
  BY InitType, DiskInit, ConvInit DEF CalmInv
<1>2. Init => VersionBound /\ SwapFile
  BY DEF Init, VersionBound, SwapFile, Keys
<1> QED BY <1>1, <1>2 DEF SyncInv

LEMMA VersionNext == ASSUME TypeOK, VersionBound, [Next]_vars PROVE VersionBound'
<1>1. CASE \E S \in ChangeSets, B \in BadSets : EditConfig(S, B)
  BY <1>1 DEF EditConfig, SourcesChange, VersionBound, TypeOK
<1>2. CASE \E S \in {{}, MasterKeyUsers} : EditEnv(S)
  BY <1>2 DEF EditEnv, SourcesChange, VersionBound, TypeOK
<1>3. CASE UNCHANGED <<src, edits>>
  BY <1>3 DEF VersionBound
<1> QED
  BY <1>1, <1>2, <1>3
  DEF Next, vars, sourceVars, GraceExpires, DebounceExpires,
      GenStep, GenLoad, GenOpen, GenBuild, GenWrite,
      WatcherStep, DropEvent, AcceptEvent, RegenerationFailed, DiffOutputs, ReloadNginx,
      RestartContainer, ActionFails, GatewayStep, GatewayBoot, GatewayGenFailed,
      GatewayGenDone, GatewayLoad, LlamaStep, LlamaLoadCatalog, LlamaStartSwap,
      LlamaSwapTimeout, SwapHotReload, VllmLoad, WatcherCrash, ObserverLost, ServiceCrash

\* The steps that read or write llama-swap's file.
LEMMA SwapNext == ASSUME Calm, SyncInv, [Next]_vars PROVE SwapFile'
<1> USE DEF SyncInv, CalmInv
<1> SUFFICES ASSUME "llama_swap" \in Outputs PROVE SwapFile'
  BY DEF SwapFile
<1> "llama_swap" \in Keys /\ "llama_swap" # "env"
  BY DEF Keys
<1>1. ASSUME MayEdit, UNCHANGED <<files, running>> PROVE SwapFile'
  BY <1>1, CalmFacts DEF MayEdit, Settled, SwapCurrent, SwapFile
<1>2. CASE \/ \E S \in ChangeSets, B \in BadSets : EditConfig(S, B)
           \/ \E S \in {{}, MasterKeyUsers} : EditEnv(S)
  BY <1>1, <1>2 DEF EditConfig, EditEnv, SourcesChange, serviceVars
<1>3. ASSUME NEW g \in Generators, GenStep(g) PROVE SwapFile'
  <2>1. GenWrite(g) => gen[g].payload = src[Output(g)]
    BY DEF DiskInv, InHand, GenWrite, AtStage
  <2>2. files'["llama_swap"] \in {files["llama_swap"], Torn, src["llama_swap"]}
    BY <1>3, <2>1 DEF GenStep, GenLoad, GenOpen, GenBuild, GenWrite, TypeOK
  <2>3. UNCHANGED <<src, running>>
    BY <1>3 DEF GenStep, GenLoad, GenOpen, GenBuild, GenWrite, sourceVars, serviceVars
  <2> QED BY <2>2, <2>3 DEF SwapFile
<1>4. ASSUME UNCHANGED <<src, files>>,
             running'["llama_swap"] \in {running["llama_swap"], files["llama_swap"]}
      PROVE  SwapFile'
  BY <1>4 DEF SwapFile
<1>5. CASE GraceExpires \/ DebounceExpires \/ UNCHANGED vars
  BY <1>4, <1>5 DEF GraceExpires, DebounceExpires, vars, sourceVars, serviceVars
<1>6. CASE WatcherStep
  BY <1>4, <1>6
  DEF WatcherStep, DropEvent, AcceptEvent, RegenerationFailed, DiffOutputs, ReloadNginx,
      RestartContainer, ActionFails, sourceVars, serviceVars, TypeOK
<1>7. CASE GatewayStep
  BY <1>4, <1>7
  DEF GatewayStep, GatewayBoot, GatewayGenFailed, GatewayGenDone, GatewayLoad, sourceVars,
      TypeOK
<1>8. CASE LlamaStep \/ SwapHotReload \/ VllmLoad
  BY <1>4, <1>8
  DEF LlamaStep, LlamaLoadCatalog, LlamaStartSwap, LlamaSwapTimeout, SwapHotReload, VllmLoad,
      sourceVars, TypeOK
<1>9. ~WatcherCrash /\ ~ObserverLost /\ \A s \in EnvRestarts : ~ServiceCrash(s)
  BY CalmFacts DEF WatcherCrash, ObserverLost, ServiceCrash
<1> QED BY <1>2, <1>3, <1>5, <1>6, <1>7, <1>8, <1>9 DEF Next

LEMMA SyncInvNext == ASSUME Calm, SyncInv, [Next]_vars PROVE SyncInv'
BY CalmUnhurried, NextType, DiskNext, ConvNext, VersionNext, SwapNext DEF SyncInv, CalmInv

LEMMA SyncInitStep == Init => Sync!Init
BY DEF Init, Sync!Init

\* Taking up the newest version of one key, or leaving it as it is.
LEMMA TakeOrStutter ==
    ASSUME TypeOK, NEW k \in Keys, UNCHANGED src,
           running' = [running EXCEPT ![k] = running'[k]],
           running'[k] \in {src[k], running[k]}
    PROVE  [Sync!Next]_<<src, running>>
<1>1. CASE running'[k] = src[k]
  <2>1. Sync!Take(k)
    BY <1>1 DEF Sync!Take
  <2> QED BY <2>1 DEF Sync!Next
<1>2. CASE running'[k] = running[k]
  BY <1>2 DEF TypeOK
<1> QED BY <1>1, <1>2

\* Making do with a stand-in of one key.
LEMMA MakeDoStep ==
    ASSUME NEW k \in Keys, UNCHANGED src, NEW v \in StandIns[k],
           running' = [running EXCEPT ![k] = v]
    PROVE  [Sync!Next]_<<src, running>>
<1>1. Sync!MakeDo(k)
  BY DEF Sync!MakeDo
<1> QED BY <1>1 DEF Sync!Next

LEMMA SyncEdit ==
    ASSUME TypeOK, VersionBound, UNCHANGED running,
           src' \in [Keys -> Nat], \A k \in Keys : src'[k] \in {src[k], edits + 1}
    PROVE  [Sync!Next]_<<src, running>>
<1>1. ASSUME NEW k \in Keys PROVE src'[k] >= src[k]
  <2>1. src[k] \in Nat /\ edits \in Nat /\ src[k] <= edits
    BY DEF TypeOK, VersionBound
  <2>2. src'[k] = src[k] \/ src'[k] = edits + 1
    OBVIOUS
  <2> QED BY <2>1, <2>2
<1> QED BY <1>1 DEF Sync!Next, Sync!Change

LEMMA SyncStep == ASSUME Calm, SyncInv, [Next]_vars PROVE [Sync!Next]_<<src, running>>
<1> USE DEF SyncInv, CalmInv
<1>1. CASE \E S \in ChangeSets, B \in BadSets : EditConfig(S, B)
  BY <1>1, SyncEdit DEF EditConfig, SourcesChange, serviceVars, TypeOK
<1>2. CASE \E S \in {{}, MasterKeyUsers} : EditEnv(S)
  BY <1>2, SyncEdit DEF EditEnv, SourcesChange, serviceVars, TypeOK
<1>3. CASE GraceExpires \/ DebounceExpires \/ UNCHANGED vars
  BY <1>3 DEF GraceExpires, DebounceExpires, vars, sourceVars, serviceVars
<1>4. CASE \E g \in Generators : GenStep(g)
  BY <1>4 DEF GenStep, GenLoad, GenOpen, GenBuild, GenWrite, sourceVars, serviceVars
<1>5. CASE ReloadNginx
  <2>1. wpc = "act" /\ "nginx" \in todo /\ UNCHANGED src
    BY <1>5 DEF ReloadNginx, ActionTurn, sourceVars
  <2>2. queue = << >> /\ \A s \in Services : svc[s] = "up"
    BY <2>1 DEF DiskInv, EventAccepted, ConvInv, NginxFirst
  <2>3. \A g \in Generators : gen[g].stage = "idle"
    BY <2>1, <2>2 DEF DiskInv, WatcherWaits, GatewayWaits, Services, Generators
  <2>4. \A o \in Outputs : files[o] = src[o]
    BY <2>2, <2>3, OnDisk DEF Busy, Services
  <2>5. CASE running' = running
    BY <2>1, <2>5
  <2>6. CASE "nginx" \in Outputs /\ running' = [running EXCEPT !["nginx"] = files["nginx"]]
    BY <2>1, <2>4, <2>6, TakeOrStutter DEF TypeOK, Keys
  <2> QED BY <1>5, <2>5, <2>6 DEF ReloadNginx
<1>6. CASE WatcherStep /\ ~ReloadNginx
  BY <1>6
  DEF WatcherStep, DropEvent, AcceptEvent, RegenerationFailed, DiffOutputs,
      RestartContainer, ActionFails, sourceVars, serviceVars
<1>7. CASE GatewayBoot
  BY <1>7, TakeOrStutter DEF GatewayBoot, sourceVars, TypeOK, Keys
<1>8. CASE GatewayGenFailed \/ GatewayGenDone
  BY <1>8 DEF GatewayGenFailed, GatewayGenDone, sourceVars
<1>9. CASE GatewayLoad
  <2>1. \A o \in Outputs : files[o] = src[o]
    BY <1>9, GatewayReadsNewest DEF GatewayLoad
  <2>2. CASE "litellm" \in Outputs
    BY <1>9, <2>1, <2>2, TakeOrStutter DEF GatewayLoad, sourceVars, TypeOK, Keys
  <2>3. CASE "litellm" \notin Outputs
    BY <1>9, <2>3 DEF GatewayLoad, sourceVars
  <2> QED BY <2>2, <2>3
<1>10. CASE LlamaLoadCatalog
  <2> DEFINE cat == "backend_runtime_catalog"
  <2>1. cat \in Outputs => files[cat] \in {Torn, src[cat]}
    BY <1>10, StartingAlone DEF LlamaLoadCatalog, ConvInv, FilesIntact, Services
  <2>2. UNCHANGED src
    BY <1>10 DEF LlamaLoadCatalog, sourceVars
  <2>3. CASE cat \in Outputs /\ files[cat] = Torn
    <3>1. running' = [running EXCEPT ![cat] = Builtin]
      BY <1>10, <2>3 DEF LlamaLoadCatalog
    <3>2. cat \in Keys /\ StandIns[cat] = {Builtin}
      BY <2>3 DEF Keys, StandIns
    <3> QED BY <2>2, <3>1, <3>2, MakeDoStep
  <2>4. CASE cat \in Outputs /\ files[cat] # Torn
    <3>1. running' = [running EXCEPT ![cat] = files[cat]]
      BY <1>10, <2>4 DEF LlamaLoadCatalog
    <3> QED BY <2>1, <2>2, <2>4, <3>1, TakeOrStutter DEF TypeOK, Keys
  <2>5. CASE cat \notin Outputs
    BY <1>10, <2>2, <2>5 DEF LlamaLoadCatalog
  <2> QED BY <2>3, <2>4, <2>5
<1>11. ASSUME "llama_swap" \in Outputs, UNCHANGED src,
              running' = [running EXCEPT !["llama_swap"] = files["llama_swap"]]
       PROVE  [Sync!Next]_<<src, running>>
  <2>1. "llama_swap" \in Keys
    BY <1>11 DEF Keys
  <2>2. running'["llama_swap"] = files["llama_swap"]
    BY <1>11, <2>1 DEF TypeOK
  <2>3. CASE files["llama_swap"] = Torn
    <3>1. StandIns["llama_swap"] = {Torn}
      BY <2>1 DEF StandIns
    <3> QED BY <1>11, <2>1, <2>3, <3>1, MakeDoStep
  <2>4. CASE files["llama_swap"] # Torn
    <3>1. files["llama_swap"] \in {running["llama_swap"], src["llama_swap"]}
      BY <1>11, <2>4 DEF SwapFile
    <3> QED BY <1>11, <2>1, <2>2, <3>1, TakeOrStutter
  <2> QED BY <2>3, <2>4
<1>12. CASE LlamaStartSwap
  <2>1. CASE "llama_swap" \in Outputs
    BY <1>11, <1>12, <2>1 DEF LlamaStartSwap, sourceVars
  <2>2. CASE "llama_swap" \notin Outputs
    BY <1>12, <2>2 DEF LlamaStartSwap, sourceVars
  <2> QED BY <2>1, <2>2
<1>13. CASE SwapHotReload
  BY <1>11, <1>13 DEF SwapHotReload, sourceVars
<1>14. CASE LlamaSwapTimeout
  BY <1>14 DEF LlamaSwapTimeout, sourceVars
<1>15. CASE VllmLoad
  <2>1. CASE "vllm" \in Outputs
    <3>1. files["vllm"] = src["vllm"]
      BY <1>15, <2>1, StartingAlone DEF VllmLoad, ConvInv, FilesIntact, Services
    <3> QED BY <1>15, <2>1, <3>1, TakeOrStutter DEF VllmLoad, sourceVars, TypeOK, Keys
  <2>2. CASE "vllm" \notin Outputs
    BY <1>15, <2>2 DEF VllmLoad, sourceVars
  <2> QED BY <2>1, <2>2
<1>16. ~WatcherCrash /\ ~ObserverLost /\ \A s \in EnvRestarts : ~ServiceCrash(s)
  BY CalmFacts DEF WatcherCrash, ObserverLost, ServiceCrash
<1> QED BY <1>1, <1>2, <1>3, <1>4, <1>5, <1>6, <1>7, <1>8, <1>9, <1>10, <1>12, <1>13, <1>14,
           <1>15, <1>16 DEF Next, GatewayStep, LlamaStep

\* The hot-reload path implements ConfigSync's safety: no container ever takes up an
\* obsolete version, whatever the order of outputs and edits, and only llama-swap can
\* take up a file that is still being written.
THEOREM ImplementsSync == ASSUME Calm PROVE Spec => NeverObsolete
<1>1. Init => SyncInv /\ Sync!Init
  BY SyncInvInit, SyncInitStep
<1>2. SyncInv /\ [Next]_vars => SyncInv' /\ [Sync!Next]_<<src, running>>
  BY SyncInvNext, SyncStep
<1>3. Spec => Sync!Init /\ [][Sync!Next]_<<src, running>>
  BY <1>1, <1>2, PTL DEF Spec
<1> QED BY <1>3 DEF NeverObsolete, Sync!SafeSpec
=============================================================================
