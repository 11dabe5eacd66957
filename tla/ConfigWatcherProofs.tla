------------------------ MODULE ConfigWatcherProofs ------------------------
(***************************************************************************)
(* Proofs about ConfigWatcher, for every order of outputs, every set of    *)
(* possible edits and every bound.                                         *)
(***************************************************************************)
EXTENDS ConfigWatcher, TLAPS

USE DEF Torn, Builtin, Version

-----------------------------------------------------------------------------
(* Facts about the constants.                                              *)

\* The positions of the generator's loop run from 1 to the number of outputs.
LEMMA OrderDomain ==
    /\ Len(Order) \in Nat \ {0}
    /\ DOMAIN Order = 1 .. Len(Order)
    /\ \A i \in DOMAIN Order : Order[i] \in Outputs
BY WatcherAssumption DEF OrderAssumption, Outputs

\* No output is written twice in one pass of write_generated_configs.
LEMMA OrderInjective == \A i, j \in DOMAIN Order : Order[i] = Order[j] => i = j
<1> SUFFICES ASSUME NEW i \in DOMAIN Order, NEW j \in DOMAIN Order, i < j
             PROVE  Order[i] # Order[j]
  BY OrderDomain
<1>1. Order[i] \in DOMAIN Rank /\ Order[j] \in DOMAIN Rank
  BY WatcherAssumption DEF OrderAssumption
<1>2. \A o \in DOMAIN Rank : Rank[o] \in Nat
  BY DEF Rank
<1>3. Rank[Order[i]] < Rank[Order[j]]
  BY WatcherAssumption DEF OrderAssumption
<1> QED BY <1>1, <1>2, <1>3

\* No output is called "env".
LEMMA EnvNotOutput == "env" \notin Outputs
<1>1. \A i \in DOMAIN Order : Order[i] \in DOMAIN Rank
  BY WatcherAssumption, OrderDomain DEF OrderAssumption
<1>2. "env" \notin DOMAIN Rank
  BY DEF Rank
<1> QED BY <1>1, <1>2 DEF Outputs

-----------------------------------------------------------------------------
(* Type correctness.                                                       *)

\* The records of Process, from their fields.
LEMMA ProcessFields ==
    ASSUME NEW st \in Stages, NEW at \in DOMAIN Order, NEW v \in Nat
    PROVE  [stage |-> st, at |-> at, payload |-> v] \in Process
BY DEF Process

LEMMA ProcessType ==
    ASSUME NEW p \in Process
    PROVE  p.stage \in Stages /\ p.at \in DOMAIN Order /\ p.payload \in Nat
BY DEF Process

LEMMA IdleStartType == Idle \in Process /\ Start \in Process
<1>1. 1 \in DOMAIN Order
  BY OrderDomain
<1> QED BY <1>1 DEF Idle, Start, Stages, Process

LEMMA GenMovesType ==
    ASSUME TypeOK, NEW g \in Generators, NEW st \in Stages, NEW at \in DOMAIN Order,
           NEW v \in Nat, GenMoves(g, st, at, v)
    PROVE  gen' \in [Generators -> Process]
BY ProcessFields DEF TypeOK, GenMoves

LEMMA EmptyQueueType == << >> \in Seq({"config", "env"})
OBVIOUS

LEMMA InitType == Init => TypeOK
<1> SUFFICES ASSUME Init PROVE TypeOK
  OBVIOUS
<1>1. /\ src \in [Keys -> Version] /\ bad \subseteq Outputs \cup {LoadError} /\ edits \in Nat
      /\ files \in [Outputs -> Version \cup {Torn}]
  BY DEF Init
<1>2. gen \in [Generators -> Process] /\ queue \in Seq({"config", "env"})
  BY IdleStartType, EmptyQueueType DEF Init
<1>3. grace \in BOOLEAN /\ cooling \in BOOLEAN /\ envChanged \in BOOLEAN
  BY DEF Init
<1>4. /\ wpc \in {"idle", "gen", "act", "dead"} /\ todo \subseteq Services
      /\ before \in [Outputs -> Version \cup {Torn}]
  BY DEF Init
<1>5. /\ svc \in [Services -> Phases] /\ crashes \in Nat
      /\ running \in [Keys -> Version \cup {Torn, Builtin}]
  BY DEF Init, Phases
<1> QED BY <1>1, <1>2, <1>3, <1>4, <1>5 DEF TypeOK

LEMMA EditType ==
    ASSUME TypeOK, NEW S, SourcesChange(S), NEW f \in {"config", "env"}, Notify(f),
           bad' \subseteq Outputs \cup {LoadError}
    PROVE  TypeOK'
<1>1. queue' \in Seq({"config", "env"})
  BY DEF TypeOK, Notify
<1>2. src' \in [Keys -> Version] /\ edits' \in Nat
  BY DEF TypeOK, SourcesChange
<1> QED BY <1>1, <1>2 DEF SourcesChange, TypeOK, serviceVars

LEMMA GenType == ASSUME TypeOK, NEW g \in Generators, GenStep(g)
                 PROVE  TypeOK'
<1> USE DEF sourceVars, watcherVars, serviceVars
<1>1. gen[g].stage \in Stages /\ gen[g].at \in DOMAIN Order /\ gen[g].payload \in Nat
  BY ProcessType DEF TypeOK
<1>2. Output(g) \in Outputs /\ src[Output(g)] \in Nat
  BY <1>1, OrderDomain DEF TypeOK, Output, Keys
<1>3. CASE GenLoad(g)
  <2>1. gen' \in [Generators -> Process]
    BY <1>1, <1>2, <1>3, GenMovesType DEF GenLoad, GenRaises, Stages
  <2> QED BY <1>3, <2>1 DEF GenLoad, TypeOK
<1>4. CASE GenOpen(g)
  <2>1. gen' \in [Generators -> Process]
    BY <1>1, <1>2, <1>4, GenMovesType DEF GenOpen, Stages
  <2> QED BY <1>2, <1>4, <2>1 DEF GenOpen, TypeOK
<1>5. CASE GenBuild(g)
  <2>1. gen' \in [Generators -> Process]
    BY <1>1, <1>2, <1>5, GenMovesType DEF GenBuild, GenRaises, Stages
  <2> QED BY <1>5, <2>1 DEF GenBuild, TypeOK
<1>6. CASE GenWrite(g)
  <2>1. files' \in [Outputs -> Nat \cup {Torn}]
    BY <1>1, <1>2, <1>6 DEF GenWrite, TypeOK
  <2>2. gen[g].at # Len(Order) => gen[g].at + 1 \in DOMAIN Order
    BY <1>1, OrderDomain
  <2>3. gen' \in [Generators -> Process]
    BY <1>1, <1>6, <2>2, GenMovesType DEF GenWrite, Stages
  <2> QED BY <1>6, <2>1, <2>3 DEF GenWrite, TypeOK
<1> QED BY <1>3, <1>4, <1>5, <1>6 DEF GenStep

LEMMA WatcherType == ASSUME TypeOK, WatcherStep PROVE TypeOK'
<1> USE IdleStartType DEF sourceVars, serviceVars
<1>1. CASE DropEvent
  BY <1>1 DEF DropEvent, TypeOK
<1>2. CASE AcceptEvent
  <2>1. queue' \in Seq({"config", "env"})
    BY <1>2 DEF AcceptEvent, TypeOK
  <2>2. envChanged' \in BOOLEAN /\ cooling' \in BOOLEAN
    BY <1>2 DEF AcceptEvent
  <2>3. gen' \in [Generators -> Process]
    BY <1>2 DEF AcceptEvent, TypeOK
  <2>4. /\ wpc' \in {"idle", "gen", "act", "dead"}
        /\ before' \in [Outputs -> Version \cup {Torn}]
    BY <1>2 DEF AcceptEvent, TypeOK
  <2> QED BY <1>2, <2>1, <2>2, <2>3, <2>4 DEF AcceptEvent, TypeOK
<1>3. CASE RegenerationFailed
  BY <1>3 DEF RegenerationFailed, TypeOK
<1>4. CASE DiffOutputs
  BY <1>4 DEF DiffOutputs, Decide, TypeOK
<1>5. CASE ReloadNginx
  BY <1>5 DEF ReloadNginx, ActionDone, TypeOK, Keys
<1>6. ASSUME NEW s \in Services, RestartContainer(s) \/ ActionFails(s)
      PROVE  TypeOK'
  BY <1>6, ZenonT(40) DEF RestartContainer, ActionFails, ActionDone, Restarted, TypeOK, Phases
<1> QED BY <1>1, <1>2, <1>3, <1>4, <1>5, <1>6 DEF WatcherStep

LEMMA ServiceType ==
    ASSUME TypeOK, GatewayStep \/ LlamaStep \/ SwapHotReload \/ VllmLoad PROVE TypeOK'
<1> USE IdleStartType DEF sourceVars, watcherVars, Enter, TypeOK, Phases, Keys
<1>1. CASE GatewayBoot
  BY <1>1 DEF GatewayBoot
<1>2. CASE GatewayGenFailed
  BY <1>2 DEF GatewayGenFailed, Restarted
<1>3. CASE GatewayGenDone
  BY <1>3 DEF GatewayGenDone
<1>4. CASE GatewayLoad
  BY <1>4 DEF GatewayLoad
<1>5. CASE LlamaLoadCatalog
  BY <1>5 DEF LlamaLoadCatalog
<1>6. CASE LlamaStartSwap
  BY <1>6 DEF LlamaStartSwap
<1>7. CASE LlamaSwapTimeout
  BY <1>7 DEF LlamaSwapTimeout
<1>8. CASE SwapHotReload
  BY <1>8 DEF SwapHotReload
<1>9. CASE VllmLoad
  BY <1>9 DEF VllmLoad
<1> QED BY <1>1, <1>2, <1>3, <1>4, <1>5, <1>6, <1>7, <1>8, <1>9
        DEF GatewayStep, LlamaStep

LEMMA CrashType ==
    ASSUME TypeOK, WatcherCrash \/ \E s \in EnvRestarts : ServiceCrash(s) PROVE TypeOK'
<1> USE IdleStartType DEF sourceVars, watcherVars, serviceVars
<1>1. CASE WatcherCrash
  <2>1. grace' \in BOOLEAN /\ cooling' \in BOOLEAN
    BY <1>1 DEF WatcherCrash
  <2>2. gen' \in [Generators -> Process]
    BY <1>1 DEF WatcherCrash, TypeOK
  <2>3. /\ queue' \in Seq({"config", "env"})
        /\ wpc' \in {"idle", "gen", "act", "dead"} /\ todo' \subseteq Services
    BY <1>1, EmptyQueueType DEF WatcherCrash
  <2>4. crashes' \in Nat
    BY <1>1 DEF WatcherCrash, TypeOK
  <2> QED BY <1>1, <2>1, <2>2, <2>3, <2>4 DEF WatcherCrash, TypeOK
<1>2. ASSUME NEW s \in EnvRestarts, ServiceCrash(s) PROVE TypeOK'
  <2>1. gen' \in [Generators -> Process]
    BY <1>2 DEF ServiceCrash, Restarted, TypeOK
  <2>2. svc' \in [Services -> Phases]
    BY <1>2 DEF ServiceCrash, Restarted, TypeOK, Phases
  <2>3. crashes' \in Nat
    BY <1>2 DEF ServiceCrash, TypeOK
  <2> QED BY <1>2, <2>1, <2>2, <2>3 DEF ServiceCrash, TypeOK
<1> QED BY <1>1, <1>2

\* Every step keeps every variable in its type.
LEMMA NextType == TypeOK /\ [Next]_vars => TypeOK'
<1> SUFFICES ASSUME TypeOK, [Next]_vars PROVE TypeOK'
  OBVIOUS
<1>1. CASE \E S \in ChangeSets, B \in BadSets : EditConfig(S, B)
  BY <1>1, EditType, WatcherAssumption DEF EditConfig, EnvironmentAssumption
<1>2. CASE \E S \in {{}, MasterKeyUsers} : EditEnv(S)
  BY <1>2, EditType DEF EditEnv, TypeOK
<1>3. CASE GraceExpires \/ DebounceExpires
  BY <1>3 DEF GraceExpires, DebounceExpires, TypeOK, sourceVars, serviceVars
<1>4. CASE \E g \in Generators : GenStep(g)
  BY <1>4, GenType
<1>5. CASE WatcherStep
  BY <1>5, WatcherType
<1>6. CASE GatewayStep \/ LlamaStep \/ SwapHotReload \/ VllmLoad
  BY <1>6, ServiceType
<1>7. CASE WatcherCrash \/ \E s \in EnvRestarts : ServiceCrash(s)
  BY <1>7, CrashType
<1>8. CASE ObserverLost
  BY <1>8, IdleStartType DEF ObserverLost, TypeOK, sourceVars, serviceVars
<1>9. CASE UNCHANGED vars
  BY <1>9 DEF vars, sourceVars, watcherVars, serviceVars, TypeOK
<1> QED BY <1>1, <1>2, <1>3, <1>4, <1>5, <1>6, <1>7, <1>8, <1>9 DEF Next

\* Type correctness: in particular no generator position leaves the list of
\* outputs and no file holds a version the sources never had.
THEOREM TypeCorrect == Spec => []TypeOK
<1>1. Init => TypeOK
  BY InitType
<1>2. TypeOK /\ [Next]_vars => TypeOK'
  BY NextType
<1> QED BY <1>1, <1>2, PTL DEF Spec
-----------------------------------------------------------------------------
(* The files on disk.  With edits one at a time and a watcher that stays   *)
(* up, every output is either what the sources ask for or still ahead of   *)
(* some generator that is running or about to run.                         *)

Busy == {"load", "open", "build", "write"}

\* Position i has still to be written, by an event's run or by a starting gateway.
Pending(i) ==
    \/ queue # << >>
    \/ svc["gateway"] = "boot"
    \/ \E g \in Generators : gen[g].stage \in Busy /\ gen[g].at <= i

\* The two callers of the generator wait for it.
WatcherWaits == wpc = "gen" <=> gen["watcher"].stage # "idle"
GatewayWaits == svc["gateway"] = "gen" <=> gen["gateway"].stage # "idle"

\* A pending event is alone, finds the observer thread idle and will not be dropped.
EventAccepted == queue # << >> => Attentive /\ wpc = "idle" /\ Len(queue) = 1

\* Content built but not yet on disk is the newest.
InHand == \A g \in Generators :
             gen[g].stage \in {"open", "build", "write"} => gen[g].payload = src[Output(g)]

NoFailure == bad = {} => \A g \in Generators : gen[g].stage # "failed"

FreshOrPending ==
    bad = {} => \A i \in DOMAIN Order : files[Order[i]] = src[Order[i]] \/ Pending(i)

DiskInv ==
    /\ WatcherWaits
    /\ GatewayWaits
    /\ EventAccepted
    /\ InHand
    /\ NoFailure
    /\ FreshOrPending

LEMMA GenMovesEffect ==
    ASSUME TypeOK, NEW g \in Generators, NEW st, NEW at, NEW v, GenMoves(g, st, at, v)
    PROVE  /\ gen'[g].stage = st /\ gen'[g].at = at /\ gen'[g].payload = v
           /\ \A h \in Generators \ {g} : gen'[h] = gen[h]
BY DEF TypeOK, GenMoves

\* A process that is set to Idle or Start, for the callers.
LEMMA IdleStartFields ==
    /\ Idle.stage = "idle" /\ Idle.at = 1
    /\ Start.stage = "load" /\ Start.at = 1
BY DEF Idle, Start

LEMMA DiskInit == Init => DiskInv
<1> SUFFICES ASSUME Init PROVE DiskInv
  OBVIOUS
<1>1. \A g \in Generators : gen[g].stage = "idle"
  BY IdleStartFields DEF Init
<1>2. WatcherWaits /\ GatewayWaits
  BY <1>1 DEF Init, WatcherWaits, GatewayWaits, Generators, Services
<1>3. EventAccepted /\ InHand /\ NoFailure
  BY <1>1 DEF Init, EventAccepted, InHand, NoFailure
<1>4. FreshOrPending
  BY OrderDomain DEF Init, FreshOrPending, Keys
<1> QED BY <1>2, <1>3, <1>4 DEF DiskInv

LEMMA DiskEdit ==
    ASSUME TypeOK, DiskInv, Unhurried, NEW S, SourcesChange(S),
           NEW f \in {"config", "env"}, Notify(f)
    PROVE  DiskInv'
<1> USE DEF SourcesChange, serviceVars
<1>1. Settled /\ Attentive
  BY DEF MayEdit, Unhurried
<1>2. \A g \in Generators : gen'[g].stage = "idle"
  BY <1>1, IdleStartFields DEF Settled
<1>3. queue' = <<f>>
  BY <1>1 DEF Settled, Notify
<1>4. EventAccepted'
  BY <1>1, <1>3 DEF EventAccepted, Attentive, Settled
<1>5. WatcherWaits' /\ GatewayWaits'
  BY DEF DiskInv, WatcherWaits, GatewayWaits
<1>6. InHand' /\ NoFailure'
  BY <1>2 DEF InHand, NoFailure
<1>7. FreshOrPending'
  BY <1>3 DEF FreshOrPending, Pending
<1> QED BY <1>4, <1>5, <1>6, <1>7 DEF DiskInv

LEMMA DiskGen ==
    ASSUME TypeOK, DiskInv, NEW g \in Generators, GenStep(g)
    PROVE  DiskInv'
<1> USE DEF sourceVars, watcherVars, serviceVars
<1> DEFINE moved(st, at, v) ==
        /\ gen'[g].stage = st /\ gen'[g].at = at /\ gen'[g].payload = v
        /\ \A h \in Generators \ {g} : gen'[h] = gen[h]
<1>1. /\ UNCHANGED <<src, bad, queue, grace, cooling, wpc, svc>>
      /\ gen[g].stage \in Busy
  BY DEF GenStep, GenLoad, GenOpen, GenBuild, GenWrite, AtStage, Busy
<1>2. gen'[g].stage # "idle" /\ \A h \in Generators \ {g} : gen'[h] = gen[h]
  <2>1. ASSUME NEW st, NEW at, NEW v, GenMoves(g, st, at, v), st # "idle"
        PROVE  gen'[g].stage # "idle" /\ \A h \in Generators \ {g} : gen'[h] = gen[h]
    BY <2>1, GenMovesEffect
  <2> QED
    BY <2>1 DEF GenStep, GenLoad, GenOpen, GenBuild, GenWrite, GenRaises
<1>3. WatcherWaits' /\ GatewayWaits'
  BY <1>1, <1>2 DEF DiskInv, WatcherWaits, GatewayWaits, Generators, Busy
<1>4. EventAccepted'
  BY <1>1 DEF DiskInv, EventAccepted, Attentive
<1>5. CASE GenLoad(g)
  <2>1. \/ LoadFails(Output(g)) /\ moved("failed", gen[g].at, 0)
        \/ ~LoadFails(Output(g)) /\ moved("open", gen[g].at, src[Output(g)])
    BY <1>5, GenMovesEffect DEF GenLoad, GenRaises
  <2>2. InHand'
    BY <1>1, <2>1 DEF DiskInv, InHand, Output
  <2>3. NoFailure'
    BY <1>1, <2>1 DEF DiskInv, NoFailure, LoadFails
  <2>4. FreshOrPending'
    BY <1>1, <1>5, <2>1 DEF GenLoad, DiskInv, FreshOrPending, Pending, LoadFails, Busy
  <2> QED BY <1>3, <1>4, <2>2, <2>3, <2>4 DEF DiskInv
<1>6. CASE GenOpen(g)
  <2>1. PICK st \in {"build", "write"} : moved(st, gen[g].at, gen[g].payload)
    BY <1>6, GenMovesEffect DEF GenOpen
  <2>2. InHand'
    BY <1>1, <1>6, <2>1 DEF DiskInv, InHand, Output, GenOpen, AtStage
  <2>3. NoFailure'
    BY <1>1, <2>1 DEF DiskInv, NoFailure
  <2>4. FreshOrPending'
    <3>1. ASSUME NEW i \in DOMAIN Order
          PROVE  Pending(i)' <=> Pending(i)
      BY <1>1, <2>1 DEF Pending, Busy
    <3>2. ASSUME NEW i \in DOMAIN Order, i # gen[g].at
          PROVE  files'[Order[i]] = files[Order[i]]
      BY <1>6, <3>2, OrderInjective, OrderDomain, ProcessType DEF GenOpen, Output, TypeOK
    <3>3. Pending(gen[g].at)
      BY <1>1, ProcessType, OrderDomain DEF Pending, TypeOK
    <3> QED BY <1>1, <3>1, <3>2, <3>3 DEF DiskInv, FreshOrPending
  <2> QED BY <1>3, <1>4, <2>2, <2>3, <2>4 DEF DiskInv
<1>7. CASE GenBuild(g)
  <2>1. \/ Output(g) \in bad /\ moved("failed", gen[g].at, 0)
        \/ Output(g) \notin bad /\ moved("write", gen[g].at, src[Output(g)])
    BY <1>7, GenMovesEffect DEF GenBuild, GenRaises
  <2>2. InHand'
    BY <1>1, <2>1 DEF DiskInv, InHand, Output
  <2>3. NoFailure'
    BY <1>1, <2>1 DEF DiskInv, NoFailure
  <2>4. FreshOrPending'
    BY <1>1, <1>7, <2>1 DEF GenBuild, DiskInv, FreshOrPending, Pending, Busy
  <2> QED BY <1>3, <1>4, <2>2, <2>3, <2>4 DEF DiskInv
<1>8. CASE GenWrite(g)
  <2>0. gen[g].at \in 1 .. Len(Order) /\ Len(Order) \in Nat
    BY OrderDomain, ProcessType DEF TypeOK
  <2>1. \/ gen[g].at = Len(Order) /\ moved("done", gen[g].at, 0)
        \/ gen[g].at # Len(Order) /\ moved("load", gen[g].at + 1, 0)
    BY <1>8, GenMovesEffect DEF GenWrite
  <2>2. InHand'
    BY <1>1, <2>1 DEF DiskInv, InHand, Output
  <2>3. NoFailure'
    BY <1>1, <2>1 DEF DiskInv, NoFailure
  <2>4. FreshOrPending'
    <3>1. files' = [files EXCEPT ![Output(g)] = src[Output(g)]]
      BY <1>8 DEF GenWrite, DiskInv, InHand, AtStage
    <3>2. ASSUME NEW i \in DOMAIN Order, i # gen[g].at, Pending(i)
          PROVE  Pending(i)'
      BY <1>1, <2>0, <2>1, <3>2, OrderDomain DEF Pending, Busy
    <3>3. ASSUME NEW i \in DOMAIN Order, Order[i] = Output(g)
          PROVE  files'[Order[i]] = src[Order[i]]
      BY <3>1, <3>3, OrderDomain DEF TypeOK
    <3>4. ASSUME NEW i \in DOMAIN Order, Order[i] # Output(g)
          PROVE  files'[Order[i]] = files[Order[i]] /\ i # gen[g].at
      BY <3>1, <3>4, OrderDomain DEF TypeOK, Output
    <3> QED BY <1>1, <3>2, <3>3, <3>4 DEF DiskInv, FreshOrPending
  <2> QED BY <1>3, <1>4, <2>2, <2>3, <2>4 DEF DiskInv
<1> QED BY <1>5, <1>6, <1>7, <1>8 DEF GenStep

\* Starting a container again kills its generator, and puts a gateway before its next one.
LEMMA DiskRestarted ==
    ASSUME TypeOK, DiskInv, NEW s \in EnvRestarts, Restarted(s),
           UNCHANGED <<src, bad, files, queue, grace, cooling>>,
           wpc' = wpc \/ (wpc = "act" /\ wpc' = "idle")
    PROVE  DiskInv'
<1>1. \A g \in Generators : gen'[g] = gen[g] \/ (s = "gateway" /\ g = "gateway" /\ gen'[g] = Idle)
  BY DEF Restarted, TypeOK, Generators
<1>2. gen'["watcher"] = gen["watcher"]
  BY <1>1 DEF Generators
<1>3. /\ s = "gateway" => svc'["gateway"] = "boot" /\ gen'["gateway"] = Idle
      /\ s # "gateway" => svc'["gateway"] = svc["gateway"] /\ gen' = gen
  BY DEF Restarted, TypeOK, Generators, EnvRestarts, Services
<1>4. WatcherWaits' /\ GatewayWaits'
  BY <1>2, <1>3, IdleStartFields DEF DiskInv, WatcherWaits, GatewayWaits
<1>5. EventAccepted'
  BY DEF DiskInv, EventAccepted, Attentive
<1>6. InHand' /\ NoFailure'
  BY <1>1, IdleStartFields DEF DiskInv, InHand, NoFailure, Output
<1>7. FreshOrPending'
  <2>1. ASSUME NEW i \in DOMAIN Order, Pending(i) PROVE Pending(i)'
    BY <1>1, <1>3, <2>1, IdleStartFields DEF Pending, Busy, Generators
  <2> QED BY <2>1 DEF DiskInv, FreshOrPending
<1> QED BY <1>4, <1>5, <1>6, <1>7 DEF DiskInv

LEMMA DiskWatcher ==
    ASSUME TypeOK, DiskInv, WatcherStep
    PROVE  DiskInv'
<1> USE DEF sourceVars, serviceVars
<1>1. CASE DropEvent
  BY <1>1 DEF DropEvent, DiskInv, EventAccepted, Attentive
<1>2. CASE AcceptEvent
  <2>1. queue' = << >>
    BY <1>2 DEF AcceptEvent, DiskInv, EventAccepted, TypeOK
  <2>2. /\ gen'["watcher"].stage = "load" /\ gen'["watcher"].at = 1
        /\ gen'["gateway"] = gen["gateway"]
    BY <1>2, IdleStartFields DEF AcceptEvent, TypeOK, Generators
  <2>3. WatcherWaits' /\ GatewayWaits'
    BY <1>2, <2>2 DEF AcceptEvent, DiskInv, WatcherWaits, GatewayWaits
  <2>4. EventAccepted'
    BY <2>1 DEF EventAccepted
  <2>5. InHand' /\ NoFailure'
    BY <1>2, <2>2 DEF AcceptEvent, DiskInv, InHand, NoFailure, Output, Generators
  <2>6. FreshOrPending'
    BY <2>2, OrderDomain DEF FreshOrPending, Pending, Busy, Generators
  <2> QED BY <2>3, <2>4, <2>5, <2>6 DEF DiskInv
<1>3. CASE RegenerationFailed
  <2>1. bad # {}
    BY <1>3 DEF RegenerationFailed, DiskInv, NoFailure, AtStage, Generators
  <2>2. gen'["watcher"].stage = "idle" /\ gen'["gateway"] = gen["gateway"]
    BY <1>3, IdleStartFields DEF RegenerationFailed, TypeOK, Generators
  <2>3. WatcherWaits' /\ GatewayWaits'
    BY <1>3, <2>2 DEF RegenerationFailed, DiskInv, WatcherWaits, GatewayWaits
  <2>4. EventAccepted'
    BY <1>3 DEF RegenerationFailed, DiskInv, EventAccepted, Attentive
  <2>5. InHand' /\ NoFailure' /\ FreshOrPending'
    BY <1>3, <2>1, <2>2
    DEF RegenerationFailed, DiskInv, InHand, NoFailure, FreshOrPending, Output, Generators
  <2> QED BY <2>3, <2>4, <2>5 DEF DiskInv
<1>4. CASE DiffOutputs
  <2>1. gen'["watcher"].stage = "idle" /\ gen'["gateway"] = gen["gateway"]
    BY <1>4, IdleStartFields DEF DiffOutputs, TypeOK, Generators
  <2>2. wpc = "gen" /\ wpc' # "gen" /\ gen["watcher"].stage = "done"
    BY <1>4 DEF DiffOutputs, AtStage
  <2>3. WatcherWaits' /\ GatewayWaits'
    BY <1>4, <2>1, <2>2 DEF DiffOutputs, DiskInv, WatcherWaits, GatewayWaits
  <2>4. EventAccepted'
    BY <1>4, <2>2 DEF DiffOutputs, DiskInv, EventAccepted
  <2>5. InHand' /\ NoFailure'
    BY <1>4, <2>1 DEF DiffOutputs, DiskInv, InHand, NoFailure, Output, Generators
  <2>6. FreshOrPending'
    <3>1. ASSUME NEW i \in DOMAIN Order, Pending(i) PROVE Pending(i)'
      BY <1>4, <2>1, <2>2, <3>1 DEF DiffOutputs, Pending, Busy, Generators
    <3> QED BY <1>4, <3>1 DEF DiffOutputs, DiskInv, FreshOrPending
  <2> QED BY <2>3, <2>4, <2>5, <2>6 DEF DiskInv
<1>5. ASSUME NEW s \in Services, ActionTurn(s), ActionDone(s),
             UNCHANGED <<sourceVars, files, gen, queue, grace, cooling, svc>>
      PROVE  DiskInv'
  <2>1. wpc = "act" /\ wpc' \in {"act", "idle"}
    BY <1>5 DEF ActionTurn, ActionDone
  <2>2. WatcherWaits' /\ GatewayWaits' /\ EventAccepted'
    BY <1>5, <2>1 DEF DiskInv, WatcherWaits, GatewayWaits, EventAccepted
  <2>3. InHand' /\ NoFailure' /\ FreshOrPending'
    BY <1>5 DEF DiskInv, InHand, NoFailure, FreshOrPending, Pending, Output
  <2> QED BY <2>2, <2>3 DEF DiskInv
<1>6. CASE ReloadNginx
  BY <1>5, <1>6 DEF ReloadNginx, Services
<1>7. ASSUME NEW s \in Services, RestartContainer(s) PROVE DiskInv'
  <2>1. s \in EnvRestarts
    BY <1>7 DEF RestartContainer, Services, EnvRestarts
  <2>2. wpc = "act" /\ wpc' \in {"act", "idle"}
    BY <1>7 DEF RestartContainer, ActionTurn, ActionDone
  <2> QED BY <1>7, <2>1, <2>2, DiskRestarted DEF RestartContainer
<1>8. ASSUME NEW s \in Services, ActionFails(s) PROVE DiskInv'
  BY <1>5, <1>8 DEF ActionFails
<1> QED BY <1>1, <1>2, <1>3, <1>4, <1>6, <1>7, <1>8 DEF WatcherStep

LEMMA DiskService ==
    ASSUME TypeOK, DiskInv, GatewayStep \/ LlamaStep \/ SwapHotReload \/ VllmLoad
    PROVE  DiskInv'
<1> USE DEF sourceVars, watcherVars, Enter
\* A step that leaves the gateway's phase and every generator alone.
<1>1. ASSUME UNCHANGED <<sourceVars, files, gen, watcherVars>>,
             svc["gateway"] # "boot" \/ svc'["gateway"] = "boot",
             svc["gateway"] = "gen" <=> svc'["gateway"] = "gen"
      PROVE  DiskInv'
  <2>1. WatcherWaits' /\ GatewayWaits' /\ EventAccepted'
    BY <1>1 DEF DiskInv, WatcherWaits, GatewayWaits, EventAccepted, Attentive
  <2>2. InHand' /\ NoFailure' /\ FreshOrPending'
    BY <1>1 DEF DiskInv, InHand, NoFailure, FreshOrPending, Pending, Output
  <2> QED BY <2>1, <2>2 DEF DiskInv
<1>2. CASE GatewayBoot
  <2>1. /\ gen'["gateway"].stage = "load" /\ gen'["gateway"].at = 1
        /\ gen'["watcher"] = gen["watcher"] /\ svc'["gateway"] = "gen"
    BY <1>2, IdleStartFields DEF GatewayBoot, TypeOK, Generators, Services
  <2>2. WatcherWaits' /\ GatewayWaits'
    BY <1>2, <2>1 DEF GatewayBoot, DiskInv, WatcherWaits, GatewayWaits
  <2>3. EventAccepted' /\ InHand' /\ NoFailure'
    BY <1>2, <2>1
    DEF GatewayBoot, DiskInv, EventAccepted, Attentive, InHand, NoFailure, Output, Generators
  <2>4. FreshOrPending'
    BY <2>1, OrderDomain DEF FreshOrPending, Pending, Busy, Generators
  <2> QED BY <2>2, <2>3, <2>4 DEF DiskInv
<1>3. CASE GatewayGenFailed
  BY <1>3, DiskRestarted DEF GatewayGenFailed, EnvRestarts
<1>4. CASE GatewayGenDone
  <2>1. /\ gen'["gateway"].stage = "idle" /\ gen["gateway"].stage = "done"
        /\ gen'["watcher"] = gen["watcher"] /\ svc'["gateway"] = "load"
    BY <1>4, IdleStartFields DEF GatewayGenDone, AtStage, TypeOK, Generators, Services
  <2>2. WatcherWaits' /\ GatewayWaits'
    BY <1>4, <2>1 DEF GatewayGenDone, DiskInv, WatcherWaits, GatewayWaits
  <2>3. EventAccepted' /\ InHand' /\ NoFailure'
    BY <1>4, <2>1
    DEF GatewayGenDone, DiskInv, EventAccepted, Attentive, InHand, NoFailure, Output, Generators
  <2>4. FreshOrPending'
    <3>1. ASSUME NEW i \in DOMAIN Order, Pending(i) PROVE Pending(i)'
      BY <1>4, <2>1, <3>1 DEF GatewayGenDone, Pending, Busy, Generators
    <3> QED BY <1>4, <3>1 DEF GatewayGenDone, DiskInv, FreshOrPending
  <2> QED BY <2>2, <2>3, <2>4 DEF DiskInv
<1>5. CASE GatewayLoad
  BY <1>1, <1>5 DEF GatewayLoad, TypeOK, Services
<1>6. CASE LlamaStep
  BY <1>1, <1>6 DEF LlamaStep, LlamaLoadCatalog, LlamaStartSwap, LlamaSwapTimeout,
                    TypeOK, Services
<1>7. CASE SwapHotReload
  BY <1>1, <1>7 DEF SwapHotReload
<1>8. CASE VllmLoad
  BY <1>1, <1>8 DEF VllmLoad, TypeOK, Services
<1> QED BY <1>2, <1>3, <1>4, <1>5, <1>6, <1>7, <1>8 DEF GatewayStep

LEMMA DiskNext ==
    ASSUME Unhurried, TypeOK, DiskInv, [Next]_vars
    PROVE  DiskInv'
<1>1. CASE \E S \in ChangeSets, B \in BadSets : EditConfig(S, B)
  BY <1>1, DiskEdit DEF EditConfig
<1>2. CASE \E S \in {{}, MasterKeyUsers} : EditEnv(S)
  BY <1>2, DiskEdit DEF EditEnv
<1>3. ASSUME UNCHANGED <<sourceVars, files, gen, queue, wpc, svc>>,
             Attentive => Attentive'
      PROVE  DiskInv'
  BY <1>3 DEF sourceVars, DiskInv, WatcherWaits, GatewayWaits, EventAccepted, InHand,
              NoFailure, FreshOrPending, Pending, Output
<1>4. CASE GraceExpires \/ DebounceExpires
  BY <1>3, <1>4 DEF GraceExpires, DebounceExpires, Attentive, serviceVars
<1>5. CASE \E g \in Generators : GenStep(g)
  BY <1>5, DiskGen
<1>6. CASE WatcherStep
  BY <1>6, DiskWatcher
<1>7. CASE GatewayStep \/ LlamaStep \/ SwapHotReload \/ VllmLoad
  BY <1>7, DiskService
<1>8. ~WatcherCrash /\ ~ObserverLost
  BY DEF Unhurried, WatcherCrash, ObserverLost
<1>9. ASSUME NEW s \in EnvRestarts, ServiceCrash(s) PROVE DiskInv'
  BY <1>9, DiskRestarted DEF ServiceCrash, sourceVars, watcherVars
<1>10. CASE UNCHANGED vars
  BY <1>3, <1>10 DEF vars, sourceVars, watcherVars, serviceVars, Attentive
<1> QED BY <1>1, <1>2, <1>4, <1>5, <1>6, <1>7, <1>8, <1>9, <1>10 DEF Next

LEMMA DiskImplies == DiskInv => SettledFilesFresh
<1> SUFFICES ASSUME DiskInv, Settled, bad = {}, NEW o \in Outputs
             PROVE  files[o] = src[o]
  BY DEF SettledFilesFresh
<1>1. PICK i \in DOMAIN Order : o = Order[i]
  BY DEF Outputs
<1>2. ~Pending(i)
  BY IdleStartFields DEF Pending, Settled, Busy, Services
<1> QED BY <1>1, <1>2 DEF DiskInv, FreshOrPending

\* Provided edits come one at a time and the watcher stays up, a settled stack
\* has on disk what the generator would write now, whatever fails or crashes.
THEOREM FilesFresh == ASSUME Unhurried PROVE Spec => []SettledFilesFresh
<1>1. Init => TypeOK /\ DiskInv
  BY InitType, DiskInit
<1>2. TypeOK /\ DiskInv /\ [Next]_vars => TypeOK' /\ DiskInv'
  BY NextType, DiskNext
<1>3. DiskInv => SettledFilesFresh
  BY DiskImplies
<1> QED BY <1>1, <1>2, <1>3, PTL DEF Spec
=============================================================================
