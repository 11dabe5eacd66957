------------------------- MODULE ProcessManagerProofs -------------------------
(***************************************************************************)
(* The launcher, run one command at a time, never loses a process and      *)
(* never starts one twice, for any number of pids, callers and commands.   *)
(***************************************************************************)
EXTENDS ProcessManager, TLAPS

StartStages == {"generate", "launch", "open", "write", "wait"}
StopStages  == {"signal", "kill", "remove"}

\* The stage belongs to the operation that is due.
StagedAt(c) ==
    /\ cmd[c].stage \in StartStages => Op(c) = "start"
    /\ cmd[c].stage \in StopStages => Op(c) = "stop"
    /\ AtStage(c, "signal") => Service(c) = "nginx"

Staged == \A c \in Callers : StagedAt(c)

OneBusy == \A c, d \in Callers : Busy(c) /\ Busy(d) => c = d

\* c is at one of the stages, for service s.
AtFor(c, stages, s) == cmd[c].stage \in stages /\ Service(c) = s

\* A half-written metadata file has a writer.
Whole ==
    \A s \in Services : meta[s] = Torn => \E c \in Callers : AtFor(c, {"write"}, s)

\* Every process is in its service's file, or about to be written there.
Known ==
    \A p \in Pids : \A s \in Services :
        proc[p].svc = s /\ (Posix => ~proc[p].told) =>
            \/ meta[s] = p
            \/ \E c \in Callers : AtFor(c, {"open", "write"}, s) /\ cmd[c].pid = p

\* A file names a process of its own service, or none; if it was told to end, a stop is due.
Named ==
    \A p \in Pids : \A s \in Services :
        meta[s] = p /\ proc[p].svc # "none" =>
            /\ proc[p].svc = s
            /\ proc[p].told =>
                  \E c \in Callers :
                      AtFor(c, {"find", "read", "probe", "kill", "remove"}, s) /\ Op(c) = "stop"

\* What the pid in a command's hand is.
InHand ==
    \A c \in Callers :
        /\ cmd[c].stage \in {"launch", "open"} =>
              ~Reported(Service(c))
        /\ AtStage(c, "write") => meta[Service(c)] = Torn
        /\ cmd[c].stage \in {"open", "write", "wait"} =>
              /\ cmd[c].pid \in Pids
              /\ proc[cmd[c].pid].svc \in {"none", Service(c)}
              /\ ~proc[cmd[c].pid].told
        /\ cmd[c].stage \in {"probe", "kill", "remove"} => cmd[c].pid \in Pids
        /\ cmd[c].stage \in {"wait", "probe", "kill", "remove"} =>
              meta[Service(c)] = cmd[c].pid
        /\ AtStage(c, "remove") =>
              \/ proc[cmd[c].pid].svc = "none"
              \/ Posix /\ proc[cmd[c].pid].told

LaunchInv == TypeOK /\ Staged /\ OneBusy /\ Whole /\ Known /\ Named /\ InHand

\* On Windows, with services that stay up, what was launched is there until it is stopped.
Kept ==
    \A c \in Callers :
        cmd[c].stage \in {"open", "write", "wait"} => proc[cmd[c].pid].svc = Service(c)
-----------------------------------------------------------------------------
(* Types.                                                                  *)

\* The part of TypeOK about the commands.
CommandsOK ==
    /\ cmd \in [Callers -> Command]
    /\ \A c \in Callers : cmd[c].stage = "idle" <=> cmd[c].todo = << >>

\* What main can be asked to do is a sequence of operations.
LEMMA CommandsTyped == Commands \subseteq Seq(Ops)
<1>1. StartAll \in Seq(Ops) /\ StopAll \in Seq(Ops)
  BY DEF StartAll, StopAll, Start, Stop, Ops, Services
<1>2. \A o \in Ops : <<o>> \in Seq(Ops)
  OBVIOUS
<1> QED  BY <1>1, <1>2 DEF Commands

\* The next operation begins at a stage of its own kind.
LEMMA FirstStageTyped ==
    ASSUME NEW todo \in Seq(Ops)
    PROVE  /\ FirstStage(todo) \in {"idle", "generate", "signal", "find"}
           /\ FirstStage(todo) = "idle" <=> todo = << >>
           /\ FirstStage(todo) = "generate" => Head(todo).op = "start"
           /\ FirstStage(todo) = "signal" => Head(todo).op = "stop" /\ Head(todo).svc = "nginx"
           /\ FirstStage(todo) = "find" => Head(todo).op = "stop"
<1>1. CASE todo = << >>
  BY <1>1 DEF FirstStage
<1>2. CASE todo # << >>
  <2>1. Head(todo) \in Ops
    BY <1>2
  <2> QED  BY <1>2, <2>1 DEF FirstStage, Ops
<1> QED  BY <1>1, <1>2

\* Starting an operation keeps the commands well typed, and touches no other caller.
LEMMA RunTyped ==
    ASSUME CommandsOK, NEW c \in Callers, NEW todo \in Seq(Ops),
           NEW result \in {"ok", "error"}, Run(c, todo, result)
    PROVE  /\ CommandsOK'
           /\ cmd'[c].todo = todo /\ cmd'[c].stage = FirstStage(todo)
           /\ cmd'[c].pid = NoPid /\ cmd'[c].result = result
           /\ \A d \in Callers : d # c => cmd'[d] = cmd[d]
<1>1. cmd' = [cmd EXCEPT ![c] = [todo |-> todo, stage |-> FirstStage(todo),
                                 pid |-> NoPid, result |-> result]]
  BY DEF Run
<1>2. FirstStage(todo) \in Stages /\ (FirstStage(todo) = "idle" <=> todo = << >>)
  BY FirstStageTyped DEF Stages
<1> QED  BY <1>1, <1>2 DEF CommandsOK, Command

\* So does moving within an operation.
LEMMA GotoTyped ==
    ASSUME CommandsOK, NEW c \in Callers, Busy(c),
           NEW stage \in Stages \ {"idle"}, NEW pid \in Pids \cup {NoPid},
           Goto(c, stage, pid)
    PROVE  /\ CommandsOK'
           /\ cmd'[c].stage = stage /\ cmd'[c].pid = pid
           /\ cmd'[c].todo = cmd[c].todo /\ cmd'[c].result = cmd[c].result
           /\ \A d \in Callers : d # c => cmd'[d] = cmd[d]
BY ZenonT(40) DEF CommandsOK, Command, Goto, Busy

\* The operation that is due is one, and something is left after it.
LEMMA DueTyped ==
    ASSUME CommandsOK, NEW c \in Callers, Busy(c)
    PROVE  /\ Service(c) \in Services
           /\ Head(cmd[c].todo) \in Ops /\ Op(c) \in {"start", "stop"}
           /\ Tail(cmd[c].todo) \in Seq(Ops)
           /\ Tail(cmd[c].todo) # cmd[c].todo
           /\ cmd[c].pid \in Pids \cup {NoPid}
<1>1. cmd[c].todo \in Seq(Ops) /\ cmd[c].todo # << >> /\ cmd[c].pid \in Pids \cup {NoPid}
  BY DEF CommandsOK, Command, Busy
<1>2. Head(cmd[c].todo) \in Ops /\ Tail(cmd[c].todo) \in Seq(Ops)
  BY <1>1
<1>3. Len(Tail(cmd[c].todo)) # Len(cmd[c].todo)
  BY <1>1
<1> QED  BY <1>1, <1>2, <1>3 DEF Service, Op, Ops

\* The two ways an operation ends.
LEMMA EndTyped ==
    ASSUME CommandsOK, NEW c \in Callers, Busy(c), Returns(c) \/ Aborts(c)
    PROVE  /\ CommandsOK'
           /\ cmd'[c].stage \in {"idle", "generate", "signal", "find"}
           /\ StagedAt(c)'
           /\ \A d \in Callers : d # c => cmd'[d] = cmd[d]
           /\ Returns(c) => cmd'[c].todo = Tail(cmd[c].todo)
           /\ Aborts(c) => cmd'[c].result = "error" /\ cmd'[c].stage = "idle"
<1>1. CASE Returns(c)
  <2> DEFINE todo == Tail(cmd[c].todo)
  <2>1. todo \in Seq(Ops)
    BY DueTyped
  <2>2. Run(c, todo, "ok")
    BY <1>1 DEF Returns
  <2> HIDE DEF todo
  <2>3. /\ CommandsOK'
        /\ cmd'[c].stage = FirstStage(todo) /\ cmd'[c].todo = todo /\ cmd'[c].result = "ok"
        /\ \A d \in Callers : d # c => cmd'[d] = cmd[d]
    BY <2>1, <2>2, RunTyped
  <2>4. ~Aborts(c)
    BY <2>3 DEF Aborts, Run, CommandsOK
  <2>5. StagedAt(c)'
    BY <2>1, <2>3, FirstStageTyped DEF StagedAt, StartStages, StopStages, AtStage, Service, Op
  <2> QED  BY <2>1, <2>3, <2>4, <2>5, FirstStageTyped DEF todo
<1>2. CASE Aborts(c)
  <2>1. << >> \in Seq(Ops) /\ Run(c, << >>, "error")
    BY <1>2 DEF Aborts
  <2>2. /\ CommandsOK'
        /\ cmd'[c].stage = FirstStage(<< >>) /\ cmd'[c].result = "error"
        /\ \A d \in Callers : d # c => cmd'[d] = cmd[d]
    BY <2>1, RunTyped
  <2>3. ~Returns(c)
    BY <2>2, <1>2 DEF Returns, Run, CommandsOK
  <2> QED  BY <2>2, <2>3 DEF FirstStage, StagedAt, StartStages, StopStages, AtStage
<1> QED  BY <1>1, <1>2

LEMMA TypeInit == Init => TypeOK
BY LauncherAssumption DEF Init, TypeOK, Command, Process, Free, Stages

LEMMA TypeStep ==
    ASSUME TypeOK, [Next]_vars
    PROVE  TypeOK'
<1> USE LauncherAssumption
<1>1. CommandsOK
  BY DEF TypeOK, CommandsOK
<1>2. SUFFICES /\ CommandsOK'
               /\ meta' \in [Services -> Pids \cup {NoPid, Torn}]
               /\ proc' \in [Pids -> Process]
               /\ issued' \in Nat /\ faults' \in Nat
  BY DEF TypeOK, CommandsOK
<1>3. CASE UNCHANGED vars
  BY <1>1, <1>3 DEF vars, TypeOK, CommandsOK
<1>4. ASSUME NEW c \in Callers, Invoke(c) PROVE CommandsOK'
  BY <1>1, <1>4, CommandsTyped, RunTyped DEF Invoke
<1>5. ASSUME NEW c \in Callers, CallerStep(c) PROVE CommandsOK'
  <2>1. Busy(c)
    BY <1>5 DEF CallerStep, Generate, FindMetadata, Launch, OpenMetadata, WriteMetadata, Answered,
                TimesOut, SignalNginx, ReadMetadata, Probe, Kill, RemoveMetadata, AtStage, Busy
  <2>2. \/ Returns(c) \/ Aborts(c)
        \/ \E stage \in Stages \ {"idle"}, pid \in Pids \cup {NoPid} : Goto(c, stage, pid)
    <3>1. cmd[c].pid \in Pids \cup {NoPid} /\ Service(c) \in Services
      BY <1>1, <2>1, DueTyped
    <3>2. meta[Service(c)] \in Pids \cup {NoPid, Torn}
      BY <3>1 DEF TypeOK
    <3> USE <3>1, <3>2 DEF Stages
    <3>3. CASE Generate(c)
      BY <3>3 DEF Generate
    <3>4. CASE FindMetadata(c)
      BY <3>4 DEF FindMetadata
    <3>5. CASE Launch(c)
      BY <3>5 DEF Launch
    <3>6. CASE OpenMetadata(c)
      BY <3>6 DEF OpenMetadata
    <3>7. CASE WriteMetadata(c)
      BY <3>7 DEF WriteMetadata
    <3>8. CASE Answered(c) \/ TimesOut(c) \/ RemoveMetadata(c)
      BY <3>8 DEF Answered, TimesOut, RemoveMetadata
    <3>9. CASE SignalNginx(c)
      BY <3>9 DEF SignalNginx
    <3>10. CASE ReadMetadata(c)
      BY <3>10 DEF ReadMetadata
    <3>11. CASE Probe(c)
      BY <3>11 DEF Probe
    <3>12. CASE Kill(c)
      BY <3>12 DEF Kill
    <3> QED  BY <1>5, <3>3, <3>4, <3>5, <3>6, <3>7, <3>8, <3>9, <3>10, <3>11, <3>12
             DEF CallerStep
  <2> QED  BY <1>1, <2>1, <2>2, EndTyped, GotoTyped
<1>6. ASSUME NEW c \in Callers, Killed(c) PROVE CommandsOK'
  BY <1>1, <1>6, EndTyped DEF Killed
<1>7. ASSUME Reboot PROVE CommandsOK'
  <2> DEFINE none == [todo |-> << >>, stage |-> "idle", pid |-> NoPid, result |-> "error"]
  <2>1. none \in Command /\ none.stage = "idle" /\ none.todo = << >>
    BY DEF Command, Stages
  <2>2. cmd' = [c \in Callers |-> none]
    BY <1>7 DEF Reboot
  <2> HIDE DEF none
  <2>3. cmd' \in [Callers -> Command]
    BY <2>1, <2>2
  <2>4. \A c \in Callers : cmd'[c].stage = "idle" <=> cmd'[c].todo = << >>
    BY <2>1, <2>2
  <2> QED  BY <2>3, <2>4 DEF CommandsOK
<1>8. Next => CommandsOK'
  BY <1>1, <1>4, <1>5, <1>6, <1>7
     DEF Next, CommandsOK, Binds, BindFails, Ends, Dies, OtherStarts
<1>9. Next => meta' \in [Services -> Pids \cup {NoPid, Torn}]
  <2>1. \A c \in Callers : Busy(c) => cmd[c].pid \in Pids \cup {NoPid}
    BY <1>1, DueTyped
  <2>2. ASSUME NEW c \in Callers, CallerStep(c)
        PROVE  meta' \in [Services -> Pids \cup {NoPid, Torn}]
    <3>1. CASE OpenMetadata(c) \/ WriteMetadata(c) \/ RemoveMetadata(c)
      BY <2>1, <3>1 DEF OpenMetadata, WriteMetadata, RemoveMetadata, TypeOK, AtStage, Busy
    <3>2. CASE meta' = meta
      BY <3>2 DEF TypeOK
    <3> QED  BY <2>2, <3>1, <3>2
             DEF CallerStep, Generate, FindMetadata, Launch, Answered, TimesOut, SignalNginx,
                 ReadMetadata, Probe, Kill
  <2> QED  BY <2>2 DEF Next, TypeOK, Invoke, Killed, Reboot, Binds, BindFails, Ends, Dies,
                       OtherStarts
<1>10. Next => proc' \in [Pids -> Process]
  <2>. /\ proc \in [Pids -> Process]
       /\ Free \in Process
       /\ \A s \in Services : Launched(s) \in Process
       /\ [svc |-> "other", bound |-> FALSE, told |-> FALSE] \in Process
       /\ \A r \in Process : [r EXCEPT !.told = TRUE] \in Process
       /\ \A r \in Process : [r EXCEPT !.bound = TRUE] \in Process
    BY DEF TypeOK, Process, Free, Launched
  <2>1. ASSUME NEW c \in Callers, CallerStep(c) PROVE proc' \in [Pids -> Process]
    <3>1. CASE Launch(c)
      <4>1. Service(c) \in Services
        BY <1>1, <3>1, DueTyped DEF Launch, AtStage, Busy
      <4> QED  BY <3>1, <4>1 DEF Launch
    <3>2. CASE SignalNginx(c)
      BY <3>2 DEF SignalNginx, Told
    <3>3. CASE Kill(c)
      BY <3>3 DEF Kill, Told
    <3>4. CASE proc' = proc
      BY <3>4
    <3> QED  BY <2>1, <3>1, <3>2, <3>3, <3>4
             DEF CallerStep, Generate, FindMetadata, OpenMetadata, WriteMetadata, Answered, TimesOut,
                 ReadMetadata, Probe, RemoveMetadata
  <2>2. ASSUME NEW p \in Pids, Binds(p) PROVE proc' \in [Pids -> Process]
    BY <2>2, SMTT(30) DEF Binds
  <2> QED  BY <2>1, <2>2 DEF Next, Invoke, Killed, Reboot, BindFails, Ends, Dies, OtherStarts
<1>11. Next => issued' \in Nat /\ faults' \in Nat
  BY DEF Next, TypeOK, Invoke, Killed, Reboot, Binds, BindFails, Ends, Dies, OtherStarts,
         CallerStep, Generate, FindMetadata, Launch, OpenMetadata, WriteMetadata, Answered, TimesOut,
         SignalNginx, ReadMetadata, Probe, Kill, RemoveMetadata
<1> QED  BY <1>3, <1>8, <1>9, <1>10, <1>11 DEF TypeOK, vars

\* In every reachable state of the launcher the files, the processes and the
\* commands are well typed.
THEOREM LauncherTyped == Spec => []TypeOK
<1>1. Init => TypeOK
  BY TypeInit
<1>2. TypeOK /\ [Next]_vars => TypeOK'
  BY TypeStep
<1> QED  BY <1>1, <1>2, PTL DEF Spec

-----------------------------------------------------------------------------
(* The invariant.                                                          *)

LaunchRest == Staged /\ OneBusy /\ Whole /\ Known /\ Named /\ InHand

\* Nothing the invariant says depends on an operation that has ended or not begun.
LEMMA BeginsKeeps ==
    ASSUME TypeOK, LaunchRest, NEW c \in Callers,
           StagedAt(c)', cmd'[c].stage \in {"idle", "generate", "signal", "find"},
           \A d \in Callers : d # c => cmd'[d] = cmd[d] /\ ~Busy(d),
           UNCHANGED <<meta, proc>>,
           cmd[c].stage \notin {"open", "write"},
           Busy(c) /\ Op(c) = "stop" /\ ~AtStage(c, "signal") => ~Reported(Service(c))
    PROVE  LaunchRest'
<1> USE DEF LaunchRest, AtFor, AtStage, Busy
<1>1. \A d \in Callers : d # c => cmd'[d] = cmd[d] /\ cmd[d].stage = "idle"
  OBVIOUS
<1>2. Staged'
  BY <1>1 DEF Staged, StagedAt, StartStages, StopStages
<1>3. OneBusy'
  BY <1>1 DEF OneBusy
<1>4. Whole'
  BY <1>1 DEF Whole
<1>5. Known'
  BY <1>1 DEF Known
<1>6. Named'
  BY <1>1 DEF Named, Reported, Alive
<1>7. InHand'
  BY <1>1 DEF InHand, Reported, Alive
<1> QED  BY <1>2, <1>3, <1>4, <1>5, <1>6, <1>7

\* Moving within an operation leaves what is due, and its service, as they are.
LEMMA GotoStays ==
    ASSUME TypeOK, LaunchRest, NEW c \in Callers, Busy(c),
           NEW stage \in Stages \ {"idle"}, NEW pid \in Pids \cup {NoPid},
           Goto(c, stage, pid), stage # "signal",
           stage \in StartStages => Op(c) = "start",
           stage \in StopStages => Op(c) = "stop"
    PROVE  /\ Service(c) \in Services
           /\ Service(c)' = Service(c) /\ Op(c)' = Op(c)
           /\ cmd'[c].stage = stage /\ cmd'[c].pid = pid
           /\ \A d \in Callers : d # c => cmd'[d] = cmd[d] /\ cmd[d].stage = "idle"
           /\ Staged' /\ OneBusy'
<1>1. CommandsOK
  BY DEF TypeOK, CommandsOK
<1>2. /\ cmd'[c].stage = stage /\ cmd'[c].pid = pid
      /\ cmd'[c].todo = cmd[c].todo
      /\ \A d \in Callers : d # c => cmd'[d] = cmd[d]
  BY <1>1, GotoTyped
<1>3. Service(c) \in Services /\ Service(c)' = Service(c) /\ Op(c)' = Op(c)
  BY <1>1, <1>2, DueTyped DEF Service, Op
<1>4. \A d \in Callers : d # c => cmd[d].stage = "idle"
  BY DEF LaunchRest, OneBusy, Busy
<1>5. Staged'
  <2>1. StagedAt(c)'
    BY <1>2, <1>3 DEF StagedAt, StartStages, StopStages, AtStage
  <2>2. \A d \in Callers : d # c => StagedAt(d)'
    BY <1>2, <1>4 DEF StagedAt, StartStages, StopStages, AtStage
  <2> QED  BY <2>1, <2>2 DEF Staged
<1>6. OneBusy'
  BY <1>2, <1>4 DEF OneBusy, Busy
<1> QED  BY <1>2, <1>3, <1>4, <1>5, <1>6

\* An operation that ends with the files and the processes as they are.
LEMMA EndKeeps ==
    ASSUME TypeOK, LaunchRest, NEW c \in Callers, Busy(c), Returns(c) \/ Aborts(c),
           UNCHANGED <<meta, proc>>,
           cmd[c].stage \notin {"open", "write"},
           Busy(c) /\ Op(c) = "stop" /\ ~AtStage(c, "signal") => ~Reported(Service(c))
    PROVE  LaunchRest'
<1>1. CommandsOK
  BY DEF TypeOK, CommandsOK
<1>2. \A d \in Callers : d # c => ~Busy(d)
  BY DEF LaunchRest, OneBusy
<1>3. /\ cmd'[c].stage \in {"idle", "generate", "signal", "find"}
      /\ StagedAt(c)'
      /\ \A d \in Callers : d # c => cmd'[d] = cmd[d]
  BY <1>1, EndTyped
<1> QED  BY <1>2, <1>3, BeginsKeeps

\* An operation that goes on to its next stage with the files and the processes as they are.
LEMMA LookKeeps ==
    ASSUME TypeOK, LaunchRest, NEW c \in Callers, Busy(c), UNCHANGED <<meta, proc>>,
           cmd[c].stage \in {"generate", "signal", "find", "read", "probe"},
           NEW stage \in {"find", "read", "probe", "launch", "kill", "remove"},
           NEW pid \in Pids \cup {NoPid}, Goto(c, stage, pid),
           stage = "launch" => Op(c) = "start" /\ ~Reported(Service(c)),
           stage \in {"kill", "remove"} => Op(c) = "stop",
           stage \in {"probe", "kill", "remove"} => pid \in Pids /\ meta[Service(c)] = pid,
           stage = "remove" => proc[pid].svc = "none"
    PROVE  LaunchRest'
<1>1. /\ Service(c)' = Service(c) /\ Op(c)' = Op(c)
      /\ cmd'[c].stage = stage /\ cmd'[c].pid = pid
      /\ \A d \in Callers : d # c => cmd'[d] = cmd[d] /\ cmd[d].stage = "idle"
      /\ Staged' /\ OneBusy'
  BY GotoStays DEF Stages, StartStages, StopStages
<1> USE DEF LaunchRest, AtFor
<1>2. Whole'
  BY <1>1 DEF Whole
<1>3. Known'
  BY <1>1 DEF Known
<1>4. Named'
  BY <1>1 DEF Named
<1>5. InHand'
  BY <1>1 DEF InHand, Reported, Alive, AtStage
<1> QED  BY <1>1, <1>2, <1>3, <1>4, <1>5

\* The steps in which a command looks for the process.
LEMMA FindKeeps ==
    ASSUME TypeOK, LaunchRest, NEW c \in Callers,
           FindMetadata(c) \/ ReadMetadata(c) \/ Probe(c)
    PROVE  LaunchRest'
<1> USE LauncherAssumption DEF AtStage
<1>1. Busy(c) /\ CommandsOK
  BY DEF FindMetadata, ReadMetadata, Probe, Busy, TypeOK, CommandsOK
<1>2. Service(c) \in Services /\ Op(c) \in {"start", "stop"}
  BY <1>1, DueTyped
<1>3. UNCHANGED <<meta, proc>>
  BY DEF FindMetadata, ReadMetadata, Probe
<1>4. CASE FindMetadata(c)
  <2>1. CASE Goto(c, "read", NoPid)
    BY <1>1, <1>3, <1>4, <2>1, LookKeeps DEF FindMetadata
  <2>2. CASE meta[Service(c)] = NoPid
    <3>1. ~Reported(Service(c))
      BY <2>2 DEF Reported, Alive
    <3>2. CASE Op(c) = "start" /\ Goto(c, "launch", NoPid)
      BY <1>1, <1>3, <1>4, <3>1, <3>2, LookKeeps DEF FindMetadata
    <3>3. CASE Op(c) = "stop" /\ Returns(c)
      BY <1>1, <1>3, <1>4, <3>1, <3>3, EndKeeps DEF FindMetadata
    <3> QED  BY <1>4, <2>2, <3>2, <3>3 DEF FindMetadata
  <2> QED  BY <1>4, <2>1, <2>2 DEF FindMetadata
<1>5. CASE ReadMetadata(c)
  <2>1. CASE meta[Service(c)] \in {NoPid, Torn} /\ Aborts(c)
    <3>1. ~Reported(Service(c))
      BY <2>1 DEF Reported, Alive
    <3> QED  BY <1>1, <1>3, <1>5, <2>1, <3>1, EndKeeps DEF ReadMetadata
  <2>2. CASE meta[Service(c)] \in Pids /\ Goto(c, "probe", meta[Service(c)])
    BY <1>1, <1>3, <1>5, <2>2, LookKeeps DEF ReadMetadata
  <2> QED  BY <1>5, <2>1, <2>2 DEF ReadMetadata
<1>6. CASE Probe(c)
  <2>1. cmd[c].stage = "probe" /\ cmd[c].pid \in Pids /\ meta[Service(c)] = cmd[c].pid
    BY <1>6 DEF Probe, LaunchRest, InHand
  <2>2. CASE Alive(cmd[c].pid)
    <3>1. CASE Op(c) = "start" /\ Returns(c)
      BY <1>1, <1>3, <2>1, <3>1, EndKeeps
    <3>2. CASE Op(c) = "stop" /\ Goto(c, "kill", cmd[c].pid)
      BY <1>1, <1>3, <2>1, <3>2, LookKeeps
    <3> QED  BY <1>6, <2>2, <3>1, <3>2 DEF Probe
  <2>3. CASE ~Alive(cmd[c].pid)
    <3>1. proc[cmd[c].pid].svc = "none" /\ ~Reported(Service(c))
      BY <2>1, <2>3 DEF Reported, Alive
    <3>2. CASE Op(c) = "start" /\ Goto(c, "launch", NoPid)
      BY <1>1, <1>3, <2>1, <3>1, <3>2, LookKeeps
    <3>3. CASE Op(c) = "stop" /\ Goto(c, "remove", cmd[c].pid)
      BY <1>1, <1>3, <2>1, <3>1, <3>3, LookKeeps
    <3> QED  BY <1>6, <2>3, <3>2, <3>3 DEF Probe
  <2> QED  BY <2>2, <2>3
<1> QED  BY <1>4, <1>5, <1>6

\* The steps of a start.
LEMMA StartKeeps ==
    ASSUME Orderly, TypeOK, LaunchRest, NEW c \in Callers,
           \/ Generate(c) \/ Launch(c) \/ OpenMetadata(c) \/ WriteMetadata(c)
           \/ Answered(c) \/ TimesOut(c)
    PROVE  LaunchRest'
<1> USE LauncherAssumption DEF AtStage
<1>1. Busy(c) /\ CommandsOK
  BY DEF Generate, Launch, OpenMetadata, WriteMetadata, Answered, TimesOut, Busy,
         TypeOK, CommandsOK
<1>2. Service(c) \in Services /\ cmd[c].pid \in Pids \cup {NoPid}
  BY <1>1, DueTyped
<1>3. meta \in [Services -> Pids \cup {NoPid, Torn}] /\ proc \in [Pids -> Process]
  BY DEF TypeOK
<1>4. CASE AtStage(c, "generate") /\ Goto(c, "find", NoPid) /\ UNCHANGED <<meta, proc>>
  BY <1>1, <1>4, LookKeeps
<1>9. cmd[c].stage \in StartStages => Op(c) = "start"
  BY DEF LaunchRest, Staged, StagedAt
<1>5. CASE /\ AtStage(c, "launch") /\ meta' = meta
           /\ \E p \in Pids :
                 /\ proc[p] = Free
                 /\ Recycles \/ \A s \in Services : meta[s] # p
                 /\ proc' = [proc EXCEPT ![p] = Launched(Service(c))]
                 /\ Goto(c, "open", p)
  <2>1. PICK p \in Pids :
            /\ proc[p] = Free
            /\ \A s \in Services : meta[s] # p
            /\ proc' = [proc EXCEPT ![p] = Launched(Service(c))]
            /\ Goto(c, "open", p)
    BY <1>5 DEF Orderly
  <2>2. meta' = meta /\ cmd[c].stage = "launch"
    BY <1>5
  <2>3. /\ Service(c)' = Service(c)
        /\ cmd'[c].stage = "open" /\ cmd'[c].pid = p
        /\ \A d \in Callers : d # c => cmd'[d] = cmd[d] /\ cmd[d].stage = "idle"
        /\ Staged' /\ OneBusy'
    BY <1>1, <2>1, <2>2, <1>9, GotoStays DEF Stages, StartStages, StopStages
  <2>4. /\ proc'[p].svc = Service(c) /\ ~proc'[p].told
        /\ \A q \in Pids : q # p => proc'[q] = proc[q]
    BY <1>3, <2>1 DEF Launched
  <2> USE DEF LaunchRest, AtFor
  <2>5. Whole'
    BY <2>2, <2>3 DEF Whole
  <2>6. Known'
    BY <2>2, <2>3, <2>4 DEF Known
  <2>7. Named'
    BY <2>1, <2>2, <2>3, <2>4 DEF Named
  <2>8. InHand'
    <3>1. ~Reported(Service(c))
      BY <2>2 DEF InHand
    <3>2. ~Reported(Service(c))'
      BY <1>2, <2>1, <2>2, <2>3, <2>4, <3>1 DEF Reported, Alive
    <3> QED  BY <2>1, <2>3, <2>4, <3>2 DEF InHand
  <2> QED  BY <2>3, <2>5, <2>6, <2>7, <2>8
<1>6. CASE OpenMetadata(c)
  <2>1. /\ meta' = [meta EXCEPT ![Service(c)] = Torn] /\ proc' = proc
        /\ cmd[c].stage = "open" /\ Goto(c, "write", cmd[c].pid)
    BY <1>6 DEF OpenMetadata
  <2>2. /\ Service(c)' = Service(c)
        /\ cmd'[c].stage = "write" /\ cmd'[c].pid = cmd[c].pid
        /\ \A d \in Callers : d # c => cmd'[d] = cmd[d] /\ cmd[d].stage = "idle"
        /\ Staged' /\ OneBusy'
    BY <1>1, <1>2, <2>1, <1>9, GotoStays DEF Stages, StartStages, StopStages
  <2>3. \A p \in Pids : meta[Service(c)] = p => proc[p].svc = "none"
    BY <2>1 DEF LaunchRest, InHand, Reported, Alive
  <2>4. meta'[Service(c)] = Torn /\ \A s \in Services : s # Service(c) => meta'[s] = meta[s]
    BY <1>2, <1>3, <2>1
  <2> USE DEF LaunchRest, AtFor
  <2>5. Whole'
    BY <2>2, <2>4 DEF Whole
  <2>6. Known'
    BY <1>2, <2>1, <2>2, <2>3, <2>4 DEF Known, Services
  <2>7. Named'
    BY <2>1, <2>2, <2>4 DEF Named
  <2>8. InHand'
    BY <2>1, <2>2, <2>4 DEF InHand
  <2> QED  BY <2>2, <2>5, <2>6, <2>7, <2>8
<1>7. CASE WriteMetadata(c)
  <2>1. /\ meta' = [meta EXCEPT ![Service(c)] = cmd[c].pid] /\ proc' = proc
        /\ cmd[c].stage = "write" /\ Goto(c, "wait", cmd[c].pid)
    BY <1>7 DEF WriteMetadata
  <2>2. /\ Service(c)' = Service(c)
        /\ cmd'[c].stage = "wait" /\ cmd'[c].pid = cmd[c].pid
        /\ \A d \in Callers : d # c => cmd'[d] = cmd[d] /\ cmd[d].stage = "idle"
        /\ Staged' /\ OneBusy'
    BY <1>1, <1>2, <2>1, <1>9, GotoStays DEF Stages, StartStages, StopStages
  <2>3. /\ meta[Service(c)] = Torn /\ cmd[c].pid \in Pids
        /\ proc[cmd[c].pid].svc \in {"none", Service(c)} /\ ~proc[cmd[c].pid].told
    BY <2>1 DEF LaunchRest, InHand
  <2>4. /\ meta'[Service(c)] = cmd[c].pid
        /\ \A s \in Services : s # Service(c) => meta'[s] = meta[s]
    BY <1>2, <1>3, <2>1
  <2> USE DEF LaunchRest, AtFor
  <2>5. Whole'
    BY <2>1, <2>2, <2>3, <2>4 DEF Whole
  <2>6. Known'
    BY <2>1, <2>2, <2>3, <2>4 DEF Known
  <2>7. Named'
    BY <2>1, <2>2, <2>3, <2>4 DEF Named
  <2>8. InHand'
    BY <2>1, <2>2, <2>3, <2>4 DEF InHand
  <2> QED  BY <2>2, <2>5, <2>6, <2>7, <2>8
<1>8. CASE (Returns(c) \/ Aborts(c)) /\ cmd[c].stage \in {"generate", "launch", "wait"}
           /\ UNCHANGED <<meta, proc>>
  <2>1. Op(c) = "start"
    BY <1>8 DEF LaunchRest, Staged, StagedAt, StartStages
  <2> QED  BY <1>1, <1>8, <2>1, EndKeeps
<1> QED  BY <1>4, <1>5, <1>6, <1>7, <1>8
         DEF Generate, Launch, Answered, TimesOut

\* The steps of a stop.
LEMMA StopKeeps ==
    ASSUME Orderly, TypeOK, LaunchRest, NEW c \in Callers,
           SignalNginx(c) \/ Kill(c) \/ RemoveMetadata(c)
    PROVE  LaunchRest'
<1> USE LauncherAssumption DEF AtStage
<1>1. Busy(c) /\ CommandsOK
  BY DEF SignalNginx, Kill, RemoveMetadata, Busy, TypeOK, CommandsOK
<1>2. Service(c) \in Services /\ cmd[c].pid \in Pids \cup {NoPid}
  BY <1>1, DueTyped
<1>3. meta \in [Services -> Pids \cup {NoPid, Torn}] /\ proc \in [Pids -> Process]
  BY DEF TypeOK
<1>5. cmd[c].stage \in StopStages => Op(c) = "stop"
  BY DEF LaunchRest, Staged, StagedAt
<1>4. CASE /\ cmd[c].stage = "signal" /\ Goto(c, "find", NoPid) /\ meta' = meta
           /\ \/ proc' = proc
              \/ proc' = [p \in Pids |-> IF proc[p].svc = "nginx" /\ proc[p].bound
                                         THEN Told(p) ELSE proc[p]]
  <2>1. /\ Service(c)' = Service(c) /\ Op(c)' = "stop"
        /\ cmd'[c].stage = "find"
        /\ \A d \in Callers : d # c => cmd'[d] = cmd[d] /\ cmd[d].stage = "idle"
        /\ Staged' /\ OneBusy'
    BY <1>1, <1>4, <1>5, GotoStays DEF Stages, StartStages, StopStages
  <2>2. Service(c) = "nginx"
    BY <1>4 DEF LaunchRest, Staged, StagedAt
  <2>3. \A p \in Pids : /\ proc'[p].svc = proc[p].svc
                        /\ proc[p].told => proc'[p].told
                        /\ proc'[p].told => proc[p].told \/ proc[p].svc = "nginx"
    BY <1>3, <1>4 DEF Told, Process
  <2> USE DEF LaunchRest, AtFor
  <2>4. Whole'
    BY <1>4, <2>1 DEF Whole
  <2>5. Known'
    BY <1>4, <2>1, <2>3 DEF Known
  <2>6. Named'
    BY <1>4, <2>1, <2>2, <2>3 DEF Named
  <2>7. InHand'
    BY <1>4, <2>1 DEF InHand
  <2> QED  BY <2>1, <2>4, <2>5, <2>6, <2>7
<1>7. CASE /\ cmd[c].stage = "kill" /\ Goto(c, "remove", cmd[c].pid) /\ meta' = meta
           /\ proc' = [proc EXCEPT ![cmd[c].pid] = IF Posix THEN Told(cmd[c].pid) ELSE Free]
           /\ Posix => Alive(cmd[c].pid)
  <2>1. /\ Service(c)' = Service(c) /\ Op(c)' = "stop"
        /\ cmd'[c].stage = "remove" /\ cmd'[c].pid = cmd[c].pid
        /\ \A d \in Callers : d # c => cmd'[d] = cmd[d] /\ cmd[d].stage = "idle"
        /\ Staged' /\ OneBusy'
    BY <1>1, <1>2, <1>5, <1>7, GotoStays DEF Stages, StartStages, StopStages
  <2>2. cmd[c].pid \in Pids /\ meta[Service(c)] = cmd[c].pid
    BY <1>7 DEF LaunchRest, InHand
  <2>3. /\ \A q \in Pids : q # cmd[c].pid => proc'[q] = proc[q]
        /\ Posix => proc'[cmd[c].pid].told /\ proc'[cmd[c].pid].svc = proc[cmd[c].pid].svc
        /\ ~Posix => proc'[cmd[c].pid].svc = "none" /\ ~proc'[cmd[c].pid].told
    BY <1>3, <1>7, <2>2 DEF Told, Free, Process
  <2> USE DEF LaunchRest, AtFor
  <2>4. Whole'
    BY <1>7, <2>1 DEF Whole
  <2>5. Known'
    BY <1>7, <2>1, <2>2, <2>3 DEF Known, Services
  <2>6. Named'
    <3> SUFFICES ASSUME NEW p \in Pids, NEW s \in Services,
                        meta[s] = p, proc'[p].svc # "none"
                 PROVE  proc'[p].svc = s /\ (proc'[p].told => Service(c) = s)
      BY <1>7, <2>1 DEF Named
    <3>1. CASE p = cmd[c].pid
      <4>1. Posix /\ proc[p].svc # "none"
        BY <2>3, <3>1
      <4>2. \A t \in Services : meta[t] = p => proc[p].svc = t
        BY <4>1 DEF Named
      <4>3. meta[Service(c)] = p
        BY <2>2, <3>1
      <4>4. proc[p].svc = s /\ Service(c) = s
        BY <1>2, <4>2, <4>3
      <4> QED  BY <2>3, <3>1, <4>1, <4>4
    <3>2. CASE p # cmd[c].pid
      BY <1>7, <2>1, <2>3, <3>2 DEF Named
    <3> QED  BY <3>1, <3>2
  <2>7. InHand'
    BY <1>7, <2>1, <2>2, <2>3 DEF InHand
  <2> QED  BY <2>1, <2>4, <2>5, <2>6, <2>7
<1>8. CASE RemoveMetadata(c)
  <2>1. /\ cmd[c].stage = "remove" /\ proc' = proc
        /\ meta' = [meta EXCEPT ![Service(c)] = NoPid]
    BY <1>8 DEF RemoveMetadata
  <2>2. /\ cmd'[c].stage \in {"idle", "generate", "signal", "find"} /\ StagedAt(c)'
        /\ \A d \in Callers : d # c => cmd'[d] = cmd[d]
    BY <1>1, <1>8, EndTyped DEF RemoveMetadata
  <2>3. \A d \in Callers : d # c => cmd[d].stage = "idle"
    BY <1>1 DEF LaunchRest, OneBusy, Busy
  <2>4. /\ meta'[Service(c)] = NoPid /\ NoPid # Torn
        /\ \A s \in Services : s # Service(c) => meta'[s] = meta[s]
    BY <1>2, <1>3, <2>1 DEF NoPid, Torn
  <2>5. /\ meta[Service(c)] = cmd[c].pid /\ cmd[c].pid \in Pids
        /\ proc[cmd[c].pid].svc = "none" \/ (Posix /\ proc[cmd[c].pid].told)
    BY <2>1 DEF LaunchRest, InHand
  <2> USE DEF LaunchRest, AtFor
  <2>6. Staged' /\ OneBusy'
    BY <2>2, <2>3 DEF Staged, StagedAt, StartStages, StopStages, OneBusy, Busy
  <2>7. Whole'
    BY <2>1, <2>2, <2>3, <2>4 DEF Whole
  <2>8. Known'
    BY <2>1, <2>2, <2>3, <2>4, <2>5 DEF Known, Services
  <2>9. Named'
    BY <2>1, <2>2, <2>3, <2>4 DEF Named
  <2>10. InHand'
    BY <2>1, <2>2, <2>3 DEF InHand
  <2> QED  BY <2>6, <2>7, <2>8, <2>9, <2>10
<1>9. CASE /\ Returns(c) \/ Aborts(c)
           /\ UNCHANGED <<meta, proc>>
           /\ cmd[c].stage = "kill" /\ ~Alive(cmd[c].pid)
  <2>1. ~Reported(Service(c))
    BY <1>9 DEF LaunchRest, InHand, Reported, Alive
  <2> QED  BY <1>1, <1>9, <2>1, EndKeeps
<1>10. CASE cmd[c].stage = "signal" /\ Aborts(c) /\ UNCHANGED <<meta, proc>>
  <2>1. cmd'[c].stage = "idle" /\ \A d \in Callers : d # c => cmd'[d] = cmd[d]
    BY <1>1, <1>10, EndTyped
  <2>2. \A d \in Callers : d # c => cmd[d].stage = "idle"
    BY <1>1 DEF LaunchRest, OneBusy, Busy
  <2> USE DEF LaunchRest, AtFor
  <2>3. Staged' /\ OneBusy' /\ Whole'
    BY <1>10, <2>1, <2>2 DEF Staged, StagedAt, StartStages, StopStages, OneBusy, Busy, Whole
  <2>4. Known' /\ Named' /\ InHand'
    BY <1>10, <2>1, <2>2 DEF Known, Named, InHand
  <2> QED  BY <2>3, <2>4
<1>11. CASE SignalNginx(c)
  BY <1>4, <1>10, <1>11 DEF SignalNginx
<1>13. CASE Kill(c)
  BY <1>7, <1>9, <1>13 DEF Kill
<1> QED  BY <1>8, <1>11, <1>13

\* A process that ends, or starts to listen, contradicts nothing that is known of it.
LEMMA ProcessKeeps ==
    ASSUME TypeOK, LaunchRest, UNCHANGED <<meta, cmd>>, NEW p \in Pids,
           \/ proc' = [proc EXCEPT ![p] = Free]
           \/ proc' = [proc EXCEPT ![p].bound = TRUE]
    PROVE  LaunchRest'
<1> USE LauncherAssumption DEF LaunchRest, AtFor, AtStage
<1>1. \A q \in Pids : /\ proc'[q].svc \in {"none", proc[q].svc}
                      /\ proc'[q].svc # "none" => proc'[q].told = proc[q].told
                      /\ proc'[q].told => proc[q].told
                      /\ proc'[q].svc = "none" \/ (proc'[q].told <=> proc[q].told)
  BY DEF TypeOK, Process, Free
<1>2. Staged' /\ OneBusy' /\ Whole'
  BY DEF Staged, StagedAt, OneBusy, Busy, Service, Op, Whole
<1>3. Known'
  BY <1>1 DEF Known, Service, Op, Services
<1>4. Named'
  BY <1>1 DEF Named, Service, Op
<1>5. InHand'
  <2> SUFFICES ASSUME NEW c \in Callers PROVE InHand!(c)'
    BY DEF InHand
  <2>1. cmd[c].stage \in {"launch", "open"} => ~Reported(Service(c))'
    BY <1>1 DEF InHand, Reported, Alive, Service
  <2>2. cmd[c].stage \in {"open", "write", "wait"} =>
            /\ cmd[c].pid \in Pids
            /\ proc'[cmd[c].pid].svc \in {"none", Service(c)}
            /\ ~proc'[cmd[c].pid].told
    BY <1>1 DEF InHand
  <2>3. cmd[c].stage = "remove" =>
            \/ proc'[cmd[c].pid].svc = "none"
            \/ Posix /\ proc'[cmd[c].pid].told
    BY <1>1 DEF InHand
  <2> QED  BY <2>1, <2>2, <2>3 DEF InHand, Service
<1> QED  BY <1>2, <1>3, <1>4, <1>5

LEMMA LaunchInit == Init => LaunchRest
BY LauncherAssumption
   DEF Init, Services, LaunchRest, Staged, StagedAt, StartStages, StopStages, AtStage, OneBusy, Busy, Whole,
       Known, Named, InHand, Free, NoPid, Torn, Reported, Alive

LEMMA LaunchStep ==
    ASSUME Orderly, LaunchInv, [Next]_vars
    PROVE  LaunchInv'
<1>1. TypeOK /\ LaunchRest /\ TypeOK'
  BY TypeStep, SMTT(30) DEF LaunchInv, LaunchRest
<1>2. CASE UNCHANGED vars
  BY <1>1, <1>2 DEF vars, LaunchInv, LaunchRest, Staged, StagedAt, AtStage, OneBusy, Busy, Whole,
                    Known, Named, InHand, AtFor, Service, Op, Reported, Alive
<1>3. ASSUME NEW c \in Callers, Invoke(c) PROVE LaunchRest'
  <2>1. PICK todo \in Commands : Run(c, todo, "ok")
    BY <1>3 DEF Invoke
  <2>2. todo \in Seq(Ops)
    BY CommandsTyped
  <2>3. /\ cmd'[c].todo = todo /\ cmd'[c].stage = FirstStage(todo)
        /\ \A d \in Callers : d # c => cmd'[d] = cmd[d]
    BY <1>1, <2>1, <2>2, RunTyped DEF TypeOK, CommandsOK
  <2>4. cmd'[c].stage \in {"idle", "generate", "signal", "find"} /\ StagedAt(c)'
    BY <2>2, <2>3, FirstStageTyped DEF StagedAt, StartStages, StopStages, AtStage, Service, Op
  <2>5. \A d \in Callers : ~Busy(d)
    BY <1>3 DEF Invoke, Orderly
  <2>6. cmd[c].stage = "idle" /\ UNCHANGED <<meta, proc>>
    BY <1>3 DEF Invoke, Busy
  <2> QED  BY <1>1, <2>3, <2>4, <2>5, <2>6, BeginsKeeps
<1>4. ASSUME NEW c \in Callers, CallerStep(c) PROVE LaunchRest'
  BY <1>1, <1>4, FindKeeps, StartKeeps, StopKeeps DEF CallerStep
<1>5. ASSUME NEW p \in Pids, Binds(p) PROVE LaunchRest'
  <2>1. proc[p].svc \notin Daemons
    BY <1>5 DEF Binds, Orderly
  <2> QED  BY <1>1, <1>5, <2>1, ProcessKeeps DEF Binds
<1>6. ASSUME NEW p \in Pids, BindFails(p) \/ Ends(p) \/ Dies(p) PROVE LaunchRest'
  BY <1>1, <1>6, ProcessKeeps DEF BindFails, Ends, Dies
<1>7. \A c \in Callers : ~Killed(c)
  BY DEF Killed, Orderly
<1>8. ~Reboot /\ \A p \in Pids : ~OtherStarts(p)
  BY DEF Reboot, OtherStarts, Orderly
<1>9. ASSUME Next PROVE LaunchRest'
  <2>1. CASE \E c \in Callers : Invoke(c) \/ CallerStep(c) \/ Killed(c)
    BY <1>3, <1>4, <1>7, <2>1
  <2>2. CASE \E p \in Pids : Binds(p) \/ BindFails(p) \/ Ends(p) \/ Dies(p) \/ OtherStarts(p)
    BY <1>5, <1>6, <1>8, <2>2
  <2> QED  BY <1>8, <1>9, <2>1, <2>2 DEF Next
<1> QED  BY <1>1, <1>2, <1>9 DEF LaunchInv, LaunchRest

LEMMA OrderlyRuns ==
    ASSUME Orderly
    PROVE  Spec => []LaunchInv
<1>1. Init => LaunchInv
  BY TypeInit, LaunchInit DEF LaunchInv, LaunchRest
<1>2. LaunchInv /\ [Next]_vars => LaunchInv'
  BY LaunchStep
<1> QED  BY <1>1, <1>2, PTL DEF Spec

-----------------------------------------------------------------------------
(* What follows from it.                                                   *)

\* Run one command at a time, the launcher never has two processes of a service,
\* unless one was told to end (start_* against read_metadata and is_pid_running).
THEOREM OneEach ==
    ASSUME Orderly
    PROVE  Spec => []OneProcess
<1>1. LaunchInv => OneProcess
  <2> SUFFICES ASSUME LaunchInv, NEW s \in Services, NEW p \in Live(s), NEW q \in Live(s)
               PROVE  p = q
    BY DEF OneProcess
  <2>1. /\ p \in Pids /\ proc[p].svc = s /\ ~proc[p].told
        /\ q \in Pids /\ proc[q].svc = s /\ ~proc[q].told
    BY DEF Live
  <2>2. /\ meta[s] = p \/ \E c \in Callers : AtFor(c, {"open", "write"}, s) /\ cmd[c].pid = p
        /\ meta[s] = q \/ \E c \in Callers : AtFor(c, {"open", "write"}, s) /\ cmd[c].pid = q
    BY <2>1 DEF LaunchInv, Known
  <2>3. \A c \in Callers, r \in {p, q} : AtFor(c, {"open", "write"}, s) => meta[s] # r
    BY <2>1, LauncherAssumption DEF AtFor, LaunchInv, InHand, Reported, Alive, AtStage, Services
  <2>4. \A c, d \in Callers :
            AtFor(c, {"open", "write"}, s) /\ AtFor(d, {"open", "write"}, s) => c = d
    BY DEF AtFor, LaunchInv, OneBusy, Busy
  <2> QED  BY <2>2, <2>3, <2>4
<1> QED  BY <1>1, OrderlyRuns, PTL

\* Between commands, status is right about every service (print_status).
THEOREM StatusRight ==
    ASSUME Orderly
    PROVE  Spec => []StatusTruthful
<1>1. LaunchInv => StatusTruthful
  <2> SUFFICES ASSUME LaunchInv, \A c \in Callers : ~Busy(c), NEW s \in Services
               PROVE  Reported(s) <=> Live(s) # {}
    BY DEF StatusTruthful
  <2>1. ASSUME Reported(s) PROVE Live(s) # {}
    BY <2>1 DEF LaunchInv, Named, AtFor, Busy, Reported, Alive, Live
  <2>2. ASSUME NEW p \in Live(s) PROVE Reported(s)
    BY <2>2, LauncherAssumption DEF LaunchInv, Known, AtFor, Busy, Reported, Alive, Live, Services
  <2> QED  BY <2>1, <2>2
<1> QED  BY <1>1, OrderlyRuns, PTL

\* Only the command itself can make its operation return, and no other is under way.
LEMMA ReturningStep ==
    ASSUME Orderly, LaunchInv, [Next]_vars, NEW c \in Callers, NEW op, ReturnsNow(c, op)
    PROVE  /\ CallerStep(c)
           /\ Service(c) \in Services
           /\ \A d \in Callers : Busy(d) => d = c
<1>1. Busy(c) /\ cmd'[c].todo = Tail(cmd[c].todo)
  BY DEF ReturnsNow
<1>2. CommandsOK
  BY DEF LaunchInv, TypeOK, CommandsOK
<1>3. Service(c) \in Services /\ Tail(cmd[c].todo) # cmd[c].todo
  BY <1>1, <1>2, DueTyped
<1>4. \A d \in Callers : Busy(d) => d = c
  BY <1>1 DEF LaunchInv, OneBusy
<1>5. cmd' # cmd
  BY <1>1, <1>3
<1>6. ASSUME NEW d \in Callers PROVE ~Invoke(d) /\ ~Killed(d) /\ (CallerStep(d) => d = c)
  <2>1. CallerStep(d) => Busy(d)
    BY DEF CallerStep, Generate, FindMetadata, Launch, OpenMetadata, WriteMetadata, Answered,
           TimesOut, SignalNginx, ReadMetadata, Probe, Kill, RemoveMetadata, AtStage, Busy
  <2> QED  BY <1>1, <1>4, <2>1 DEF Invoke, Killed, Orderly
<1>7. CallerStep(c)
  BY <1>5, <1>6
     DEF Next, vars, Binds, BindFails, Ends, Dies, OtherStarts, Reboot, Orderly
<1> QED  BY <1>3, <1>4, <1>7

\* Run one command at a time, a stop that returns has told every process of its
\* service to end (stop_service).
THEOREM StopFinds ==
    ASSUME Orderly
    PROVE  Spec => StopReaches
<1>1. ASSUME LaunchInv, [Next]_vars, NEW c \in Callers, ReturnsNow(c, "stop"),
             NEW s \in Services, s = Service(c)
      PROVE  Live(s)' = {}
  <2>1. CallerStep(c) /\ \A d \in Callers : Busy(d) => d = c
    BY <1>1, ReturningStep
  <2>2. /\ Busy(c) /\ cmd'[c].result = "ok" /\ cmd'[c].todo = Tail(cmd[c].todo)
        /\ Op(c) = "stop"
    BY <1>1 DEF ReturnsNow
  <2>3. CommandsOK
    BY <1>1 DEF LaunchInv, TypeOK, CommandsOK
  <2>4. ~Aborts(c)
    BY <2>2, <2>3, EndTyped
  <2>5. \A stage, pid : ~Goto(c, stage, pid)
    BY <2>2, <2>3, DueTyped DEF Goto, CommandsOK, Command
  <2>6. cmd[c].stage \notin StartStages
    BY <1>1, <2>2 DEF LaunchInv, Staged, StagedAt
  <2>7. \/ AtStage(c, "find") /\ meta[s] = NoPid /\ proc' = proc
        \/ AtStage(c, "remove") /\ proc' = proc
    BY <1>1, <2>1, <2>2, <2>4, <2>5, <2>6
       DEF CallerStep, Generate, FindMetadata, Launch, OpenMetadata, WriteMetadata, Answered, TimesOut,
           SignalNginx, ReadMetadata, Probe, Kill, RemoveMetadata, AtStage, StartStages
  <2>8. \A p \in Pids : proc[p].svc = s /\ ~proc[p].told => meta[s] = p
    BY <1>1, <2>1, <2>6 DEF LaunchInv, Known, AtFor, StartStages, Busy
  <2>9. CASE AtStage(c, "find") /\ meta[s] = NoPid /\ proc' = proc
    BY <2>8, <2>9, LauncherAssumption DEF Live
  <2>10. CASE AtStage(c, "remove") /\ proc' = proc
    <3>1. /\ meta[s] = cmd[c].pid
          /\ proc[cmd[c].pid].svc = "none" \/ proc[cmd[c].pid].told
      BY <1>1, <2>10 DEF LaunchInv, InHand, AtStage
    <3> QED  BY <2>8, <2>10, <3>1, LauncherAssumption DEF Live, Services
  <2> QED  BY <2>7, <2>9, <2>10
<1>2. LaunchInv /\ [Next]_vars =>
          [\A c \in Callers :
              ReturnsNow(c, "stop") => \A s \in Services : s = Service(c) => Live(s)' = {}]_vars
  BY <1>1
<1> QED  BY <1>2, OrderlyRuns, PTL DEF Spec, StopReaches

\* No process of a service but the one that was launched last.
LEMMA OnlyLaunched ==
    ASSUME ~Posix, LaunchInv, NEW c \in Callers,
           cmd[c].stage \in {"open", "write", "wait"},
           NEW p \in Pids, proc[p].svc = Service(c)
    PROVE  p = cmd[c].pid
<1>1. Busy(c) /\ CommandsOK
  BY DEF Busy, LaunchInv, TypeOK, CommandsOK
<1>2. Service(c) \in Services
  BY <1>1, DueTyped
<1>3. \A d \in Callers : Busy(d) => d = c
  BY <1>1 DEF LaunchInv, OneBusy
<1>4. \/ meta[Service(c)] = p
      \/ \E d \in Callers : AtFor(d, {"open", "write"}, Service(c)) /\ cmd[d].pid = p
  BY <1>2 DEF LaunchInv, Known
<1>5. CASE meta[Service(c)] = p
  <2>1. p # Torn /\ Service(c) \in Services
    BY <1>2, LauncherAssumption
  <2>2. Reported(Service(c))
    BY <1>2, <1>5, LauncherAssumption DEF Reported, Alive, Services
  <2> QED  BY <1>5, <2>1, <2>2 DEF LaunchInv, InHand, AtStage
<1> QED  BY <1>3, <1>4, <1>5 DEF AtFor, Busy

\* What a start has launched is still there when it returns.
LEMMA KeptStep ==
    ASSUME Orderly, ~Posix, ~ServiceDies, LaunchInv, Kept, [Next]_vars
    PROVE  Kept'
<1> USE LauncherAssumption
<1> SUFFICES ASSUME NEW c \in Callers, cmd'[c].stage \in {"open", "write", "wait"}
             PROVE  proc'[cmd'[c].pid].svc = Service(c)'
  BY DEF Kept
<1>1. CommandsOK /\ TypeOK /\ proc \in [Pids -> Process]
  BY DEF LaunchInv, TypeOK, CommandsOK
<1>2. ASSUME cmd' = cmd, \A q \in Pids : q = cmd[c].pid => proc'[q].svc = proc[q].svc
      PROVE  proc'[cmd'[c].pid].svc = Service(c)'
  BY <1>2 DEF Kept, Service, LaunchInv, InHand
<1>3. CASE UNCHANGED vars
  BY <1>2, <1>3 DEF vars
<1>4. ASSUME NEW d \in Callers, Invoke(d) PROVE FALSE
  <2>1. PICK todo \in Commands : Run(d, todo, "ok")
    BY <1>4 DEF Invoke
  <2>2. /\ cmd'[d].stage = FirstStage(todo) /\ todo \in Seq(Ops)
        /\ \A e \in Callers : e # d => cmd'[e] = cmd[e]
    BY <1>1, <2>1, CommandsTyped, RunTyped
  <2>3. \A e \in Callers : cmd[e].stage = "idle"
    BY <1>4 DEF Invoke, Orderly, Busy
  <2> QED  BY <2>2, <2>3, FirstStageTyped
<1>5. ASSUME NEW d \in Callers, CallerStep(d) PROVE proc'[cmd'[c].pid].svc = Service(c)'
  <2>1. Busy(d)
    BY <1>5 DEF CallerStep, Generate, FindMetadata, Launch, OpenMetadata, WriteMetadata, Answered,
                TimesOut, SignalNginx, ReadMetadata, Probe, Kill, RemoveMetadata, AtStage, Busy
  <2>2. \A e \in Callers : e # d => cmd[e].stage = "idle"
    BY <2>1 DEF LaunchInv, OneBusy, Busy
  <2>3. ASSUME Returns(d) \/ Aborts(d) PROVE FALSE
    BY <1>1, <2>1, <2>2, <2>3, EndTyped
  <2>4. ASSUME NEW stage \in Stages \ {"idle"}, NEW pid \in Pids \cup {NoPid}, Goto(d, stage, pid)
        PROVE  c = d /\ cmd'[c].stage = stage /\ cmd'[c].pid = pid /\ Service(c)' = Service(c)
    BY <1>1, <2>1, <2>2, <2>4, GotoTyped DEF Service
  <2>5. cmd[d].pid \in Pids \cup {NoPid} /\ Service(d) \in Services
    BY <1>1, <2>1, DueTyped
  <2>6. CASE Launch(d)
    <3>1. PICK p \in Pids : /\ proc' = [proc EXCEPT ![p] = Launched(Service(d))]
                            /\ Goto(d, "open", p)
      BY <2>3, <2>6 DEF Launch
    <3> QED  BY <1>1, <2>4, <3>1 DEF Stages, Launched
  <2>7. CASE OpenMetadata(d) \/ WriteMetadata(d)
    <3>1. PICK stage \in {"write", "wait"} : Goto(d, stage, cmd[d].pid) /\ proc' = proc
      BY <2>7 DEF OpenMetadata, WriteMetadata
    <3>2. cmd[d].stage \in {"open", "write"}
      BY <2>7 DEF OpenMetadata, WriteMetadata, AtStage
    <3> QED  BY <2>4, <2>5, <3>1, <3>2 DEF Stages, Kept
  <2>8. ASSUME \E stage \in {"find", "launch", "read", "probe", "kill", "remove"},
                  pid \in Pids \cup {NoPid} : Goto(d, stage, pid)
        PROVE  FALSE
    BY <2>4, <2>8 DEF Stages
  <2>9. CASE Generate(d) \/ FindMetadata(d) \/ Answered(d) \/ TimesOut(d) \/ SignalNginx(d)
             \/ ReadMetadata(d) \/ Probe(d) \/ Kill(d) \/ RemoveMetadata(d)
    <3>1. \/ Returns(d) \/ Aborts(d)
          \/ \E stage \in {"find", "launch", "read", "probe", "kill", "remove"},
                pid \in Pids \cup {NoPid} : Goto(d, stage, pid)
      BY <2>5, <2>9 DEF Generate, FindMetadata, Answered, TimesOut, SignalNginx, ReadMetadata, Probe, Kill,
                        RemoveMetadata
    <3> QED  BY <2>3, <2>8, <3>1
  <2> QED  BY <1>5, <2>6, <2>7, <2>9 DEF CallerStep
<1>6. ASSUME NEW p \in Pids, Binds(p) PROVE proc'[cmd'[c].pid].svc = Service(c)'
  <2>1. cmd' = cmd /\ proc' = [proc EXCEPT ![p].bound = TRUE]
    BY <1>6 DEF Binds, Orderly
  <2>2. \A q \in Pids : proc'[q].svc = proc[q].svc
    BY <1>1, <2>1 DEF Process
  <2> QED  BY <1>2, <2>1, <2>2
<1>7. ASSUME NEW p \in Pids, BindFails(p) \/ Ends(p)
      PROVE  proc'[cmd'[c].pid].svc = Service(c)'
  <2>1. cmd' = cmd /\ proc' = [proc EXCEPT ![p] = Free]
    BY <1>7 DEF BindFails, Ends
  <2>2. /\ cmd[c].pid \in Pids /\ ~proc[cmd[c].pid].told
        /\ proc[cmd[c].pid].svc = Service(c)
    BY <2>1 DEF LaunchInv, InHand, Kept
  <2>3. p # cmd[c].pid
    <3> SUFFICES ASSUME p = cmd[c].pid PROVE FALSE
      OBVIOUS
    <3>1. BindFails(p) /\ ~proc[p].bound
      BY <1>7, <2>2 DEF Ends, BindFails
    <3>2. PICK q \in Pids : proc[q].svc = Service(c) /\ proc[q].bound
      BY <2>2, <3>1 DEF BindFails, PortTaken
    <3>3. q = p
      BY <2>1, <3>2, OnlyLaunched
    <3> QED  BY <3>1, <3>2, <3>3
  <2> QED  BY <1>1, <1>2, <2>1, <2>3
<1>8. ~Reboot /\ (\A p \in Pids : ~OtherStarts(p) /\ ~Dies(p)) /\ (\A d \in Callers : ~Killed(d))
  BY DEF Reboot, OtherStarts, Dies, Killed, Orderly
<1> QED  BY <1>3, <1>4, <1>5, <1>6, <1>7, <1>8 DEF Next

\* On Windows, where a stopped process is gone, a start that returns has left a
\* process of its service that nobody has told to end, as long as services stay up
\* (launch_detached, is_pid_running and wait_for_any).
THEOREM StartStands ==
    ASSUME Orderly, ~Posix, ~ServiceDies
    PROVE  Spec => StartMeans
<1> DEFINE Inv == LaunchInv /\ Kept
<1>1. Init => Inv
  BY TypeInit, LaunchInit DEF LaunchInv, LaunchRest, Init, Kept
<1>2. Inv /\ [Next]_vars => Inv'
  BY LaunchStep, KeptStep
<1>3. ASSUME Inv, [Next]_vars, NEW c \in Callers, ReturnsNow(c, "start"),
             NEW s \in Enabled, s = Service(c)
      PROVE  Live(s)' # {}
  <2>1. CallerStep(c) /\ \A d \in Callers : Busy(d) => d = c
    BY <1>3, ReturningStep
  <2>2. /\ Busy(c) /\ cmd'[c].result = "ok" /\ cmd'[c].todo = Tail(cmd[c].todo)
        /\ Op(c) = "start"
    BY <1>3 DEF ReturnsNow
  <2>3. CommandsOK
    BY <1>3 DEF LaunchInv, TypeOK, CommandsOK
  <2>4. ~Aborts(c)
    BY <2>2, <2>3, EndTyped
  <2>5. \A stage, pid : ~Goto(c, stage, pid)
    BY <2>2, <2>3, DueTyped DEF Goto, CommandsOK, Command
  <2>6. cmd[c].stage \notin StopStages
    BY <1>3, <2>2 DEF LaunchInv, Staged, StagedAt
  <2>. s \in Services /\ ~(s = "nginx" /\ ~NginxEnabled)
    BY DEF Enabled, Services
  <2>7. proc' = proc /\ (AtStage(c, "wait") \/ (AtStage(c, "probe") /\ Alive(cmd[c].pid)))
    BY <1>3, <2>1, <2>2, <2>4, <2>5, <2>6
       DEF CallerStep, Generate, FindMetadata, Launch, OpenMetadata, WriteMetadata, Answered, TimesOut,
           SignalNginx, ReadMetadata, Probe, Kill, RemoveMetadata, AtStage, StopStages
  <2>8. CASE AtStage(c, "wait")
    <3>1. /\ cmd[c].pid \in Pids /\ ~proc[cmd[c].pid].told
          /\ proc[cmd[c].pid].svc = s
      BY <1>3, <2>8 DEF LaunchInv, InHand, Kept, AtStage
    <3> QED  BY <2>7, <3>1 DEF Live
  <2>9. CASE AtStage(c, "probe") /\ Alive(cmd[c].pid)
    <3>1. meta[s] = cmd[c].pid /\ meta[s] \in Pids /\ proc[meta[s]].svc # "none"
      BY <1>3, <2>9 DEF LaunchInv, InHand, Alive, AtStage
    <3>2. proc[meta[s]].svc = s /\ ~proc[meta[s]].told
      BY <1>3, <2>1, <2>2, <3>1 DEF LaunchInv, Named, AtFor, Busy
    <3> QED  BY <2>7, <3>1, <3>2 DEF Live
  <2> QED  BY <2>7, <2>8, <2>9
<1>4. Inv /\ [Next]_vars =>
          [\A c \in Callers :
              ReturnsNow(c, "start") => \A s \in Enabled : s = Service(c) => Live(s)' # {}]_vars
  BY <1>3
<1> QED  BY <1>1, <1>2, <1>4, PTL DEF Spec, StartMeans
=============================================================================
