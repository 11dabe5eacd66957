---------------------------- MODULE ProcessManager ----------------------------
(***************************************************************************)
(* The native launcher (src/launcher/process_manager.py): command-line     *)
(* invocations that start and stop detached processes, and know them only  *)
(* by the pid in .runtime/services/<service>.json.  Each invocation takes  *)
(* several steps, between which the processes, and other invocations, move.*)
(***************************************************************************)
EXTENDS Naturals, Sequences

CONSTANTS
    Pids,         \* the process ids of the machine
    Callers,      \* the terminals, units and scripts that run the launcher
    Posix,        \* os.name # "nt"
    NginxEnabled, \* stack.nginx.enabled
    Sequential,   \* is one command run at a time?
    Raises,       \* may the generator or Popen raise, or nginx -s stop fail?
    CallerDies,   \* may a command be killed half way, or the machine restart?
    ServiceDies,  \* may a service end by itself?
    Recycles,     \* may a pid be given to another process while a file names it?
    MaxCommands,  \* bound on the commands issued
    MaxFaults     \* bound on the deaths of commands and services

Services == {"llama-swap", "gateway", "nginx"}

NoPid == "none"
Torn  == "torn"   \* truncated by open("w"): json.load raises

ASSUME LauncherAssumption ==
    /\ Pids \cap {NoPid, Torn} = {}
    /\ Posix \in BOOLEAN /\ NginxEnabled \in BOOLEAN /\ Sequential \in BOOLEAN
    /\ Raises \in BOOLEAN /\ CallerDies \in BOOLEAN /\ ServiceDies \in BOOLEAN
    /\ Recycles \in BOOLEAN
    /\ MaxCommands \in Nat
    /\ MaxFaults \in Nat

VARIABLES
    meta,    \* meta[s]: the metadata file of service s
    proc,    \* proc[p]: the process with pid p
    cmd,     \* cmd[c]: the command that caller c runs
    issued,  \* commands issued so far
    faults   \* deaths so far

vars == <<meta, proc, cmd, issued, faults>>

-----------------------------------------------------------------------------

Ops == [op : {"start", "stop"}, svc : Services]

Start(s) == [op |-> "start", svc |-> s]
Stop(s)  == [op |-> "stop",  svc |-> s]

\* start-all and stop-all of main.
StartAll == <<Start("llama-swap"), Start("gateway"), Start("nginx")>>
StopAll  == <<Stop("nginx"), Stop("gateway"), Stop("llama-swap")>>

Commands == {<<o>> : o \in Ops} \cup {StartAll, StopAll}

Stages == {"idle", "generate", "signal", "find", "read", "probe",
           "launch", "open", "write", "wait", "kill", "remove"}

Command == [todo : Seq(Ops), stage : Stages, pid : Pids \cup {NoPid},
            result : {"ok", "error"}]

\* bound: listens on its service's port; told: was sent a signal that ends it.
Process == [svc : Services \cup {"none", "other"}, bound : BOOLEAN, told : BOOLEAN]

Free == [svc |-> "none", bound |-> FALSE, told |-> FALSE]
Launched(s) == [svc |-> s, bound |-> FALSE, told |-> FALSE]

TypeOK ==
    /\ meta \in [Services -> Pids \cup {NoPid, Torn}]
    /\ proc \in [Pids -> Process]
    /\ cmd \in [Callers -> Command]
    /\ \A c \in Callers : cmd[c].stage = "idle" <=> cmd[c].todo = << >>
    /\ issued \in Nat
    /\ faults \in Nat

Init ==
    /\ meta = [s \in Services |-> NoPid]
    /\ proc = [p \in Pids |-> Free]
    /\ cmd = [c \in Callers |->
                 [todo |-> << >>, stage |-> "idle", pid |-> NoPid, result |-> "ok"]]
    /\ issued = 0
    /\ faults = 0

-----------------------------------------------------------------------------

\* is_pid_running.
Alive(p) == p \in Pids /\ proc[p].svc # "none"

\* The services that start-all starts.
Enabled == IF NginxEnabled THEN Services ELSE Services \ {"nginx"}

\* The processes of s that nobody has told to end.
Live(s) == {p \in Pids : proc[p].svc = s /\ ~proc[p].told}

PortTaken(s) == \E p \in Pids : proc[p].svc = s /\ proc[p].bound

\* nginx's launched process forks, and ends, on POSIX: the configuration has no "daemon off".
Daemons == IF Posix /\ NginxEnabled THEN {"nginx"} ELSE {}

\* What a running metadata file names, as print_status reports it.
Reported(s) == Alive(meta[s])

Busy(c) == cmd[c].stage # "idle"
AtStage(c, stage) == cmd[c].stage = stage
Service(c) == Head(cmd[c].todo).svc
Op(c) == Head(cmd[c].todo).op

FirstStage(todo) ==
    IF todo = << >> THEN "idle"
    ELSE IF Head(todo).op = "start" THEN "generate"
    ELSE IF Head(todo).svc = "nginx" THEN "signal" ELSE "find"

Run(c, todo, result) ==
    cmd' = [cmd EXCEPT ![c] = [todo |-> todo, stage |-> FirstStage(todo),
                               pid |-> NoPid, result |-> result]]

Goto(c, stage, pid) ==
    cmd' = [cmd EXCEPT ![c].stage = stage, ![c].pid = pid]

\* The operation returns, and the command goes on to its next one.
Returns(c) == Run(c, Tail(cmd[c].todo), "ok")

\* An exception leaves main: the remaining operations are not done.
Aborts(c) == Run(c, << >>, "error")

Invoke(c) ==
    /\ ~Busy(c)
    /\ issued < MaxCommands
    /\ Sequential => \A d \in Callers : ~Busy(d)
    /\ issued' = issued + 1
    /\ \E todo \in Commands : Run(c, todo, "ok")
    /\ UNCHANGED <<meta, proc, faults>>

-----------------------------------------------------------------------------
(* read_metadata and is_pid_running, for start_* and stop_*.               *)

\* Mutant: a service that does not answer is taken to be stopped.
FindIfAnswering(c) ==
    /\ AtStage(c, "find")
    /\ \/ meta[Service(c)] # NoPid /\ PortTaken(Service(c)) /\ Goto(c, "read", NoPid)
       \/ (meta[Service(c)] = NoPid \/ ~PortTaken(Service(c))) /\ Op(c) = "stop" /\ Returns(c)
       \/ (meta[Service(c)] = NoPid \/ ~PortTaken(Service(c))) /\ Op(c) = "start"
             /\ Goto(c, "launch", NoPid)
    /\ UNCHANGED <<meta, proc, issued, faults>>

\* path.exists(): without a file, start launches and stop has nothing to do.
FindMetadata(c) ==
    /\ AtStage(c, "find")
    /\ \/ meta[Service(c)] # NoPid /\ Goto(c, "read", NoPid)
       \/ meta[Service(c)] = NoPid /\ Op(c) = "start" /\ Goto(c, "launch", NoPid)
       \/ meta[Service(c)] = NoPid /\ Op(c) = "stop" /\ Returns(c)
    /\ UNCHANGED <<meta, proc, issued, faults>>

\* The file has gone meanwhile, or json.load raises, or there is a pid.
ReadMetadata(c) ==
    /\ AtStage(c, "read")
    /\ \/ meta[Service(c)] \in {NoPid, Torn} /\ Aborts(c)
       \/ meta[Service(c)] \in Pids /\ Goto(c, "probe", meta[Service(c)])
    /\ UNCHANGED <<meta, proc, issued, faults>>

\* Mutant: start launches whatever the pid says.
ProbeIgnored(c) ==
    /\ AtStage(c, "probe")
    /\ \/ Op(c) = "start" /\ Goto(c, "launch", NoPid)
       \/ Op(c) = "stop" /\ Alive(cmd[c].pid) /\ Goto(c, "kill", cmd[c].pid)
       \/ Op(c) = "stop" /\ ~Alive(cmd[c].pid) /\ Goto(c, "remove", cmd[c].pid)
    /\ UNCHANGED <<meta, proc, issued, faults>>

\* A service whose pid is alive is taken to be running.
Probe(c) ==
    /\ AtStage(c, "probe")
    /\ \/ Op(c) = "start" /\ Alive(cmd[c].pid) /\ Returns(c)
       \/ Op(c) = "start" /\ ~Alive(cmd[c].pid) /\ Goto(c, "launch", NoPid)
       \/ Op(c) = "stop" /\ Alive(cmd[c].pid) /\ Goto(c, "kill", cmd[c].pid)
       \/ Op(c) = "stop" /\ ~Alive(cmd[c].pid) /\ Goto(c, "remove", cmd[c].pid)
    /\ UNCHANGED <<meta, proc, issued, faults>>

-----------------------------------------------------------------------------
(* start_llama_swap, start_gateway, start_nginx.                           *)

\* load_stack_config, and write_generated_configs unless it is nginx that is disabled.
Generate(c) ==
    /\ AtStage(c, "generate")
    /\ \/ Service(c) = "nginx" /\ ~NginxEnabled /\ Returns(c)
       \/ ~(Service(c) = "nginx" /\ ~NginxEnabled) /\ Goto(c, "find", NoPid)
       \/ Raises /\ Aborts(c)
    /\ UNCHANGED <<meta, proc, issued, faults>>

\* Popen: the system picks a pid that is not in use.
Launch(c) ==
    /\ AtStage(c, "launch")
    /\ \/ \E p \in Pids :
              /\ proc[p] = Free
              /\ Recycles \/ \A s \in Services : meta[s] # p
              /\ proc' = [proc EXCEPT ![p] = Launched(Service(c))]
              /\ Goto(c, "open", p)
       \/ /\ Raises
          /\ Aborts(c)
          /\ UNCHANGED proc
    /\ UNCHANGED <<meta, issued, faults>>

\* write_metadata opens the file, which empties it, ...
OpenMetadata(c) ==
    /\ AtStage(c, "open")
    /\ meta' = [meta EXCEPT ![Service(c)] = Torn]
    /\ Goto(c, "write", cmd[c].pid)
    /\ UNCHANGED <<proc, issued, faults>>

\* ... and writes the pid.
WriteMetadata(c) ==
    /\ AtStage(c, "write")
    /\ meta' = [meta EXCEPT ![Service(c)] = cmd[c].pid]
    /\ Goto(c, "wait", cmd[c].pid)
    /\ UNCHANGED <<proc, issued, faults>>

\* wait_for_any: whoever listens on the port may answer.
Answered(c) ==
    /\ AtStage(c, "wait")
    /\ PortTaken(Service(c))
    /\ Returns(c)
    /\ UNCHANGED <<meta, proc, issued, faults>>

\* Mutant: no deadline.
NoDeadline(c) ==
    /\ AtStage(c, "wait")
    /\ Service(c) = "nginx"
    /\ Returns(c)
    /\ UNCHANGED <<meta, proc, issued, faults>>

\* TimeoutError: main returns 1; start_nginx ignores it.
TimesOut(c) ==
    /\ AtStage(c, "wait")
    /\ IF Service(c) = "nginx" THEN Returns(c) ELSE Aborts(c)
    /\ UNCHANGED <<meta, proc, issued, faults>>

-----------------------------------------------------------------------------
(* stop_llama_swap, stop_gateway, stop_nginx.                              *)

Told(p) == [proc[p] EXCEPT !.told = TRUE]

\* load_stack_config may raise, even when nginx is not enabled; nginx -s stop reaches
\* the nginx that listens, if it accepts its configuration, which nobody checks.
SignalNginx(c) ==
    /\ AtStage(c, "signal")
    /\ \/ /\ ~NginxEnabled \/ Raises
          /\ Goto(c, "find", NoPid)
          /\ UNCHANGED proc
       \/ /\ NginxEnabled
          /\ proc' = [p \in Pids |->
                          IF proc[p].svc = "nginx" /\ proc[p].bound
                          THEN Told(p) ELSE proc[p]]
          /\ Goto(c, "find", NoPid)
       \/ /\ Raises
          /\ Aborts(c)
          /\ UNCHANGED proc
    /\ UNCHANGED <<meta, issued, faults>>

\* Mutant: taskkill without /F.
KillAsks(c) ==
    /\ AtStage(c, "kill")
    /\ Goto(c, "remove", cmd[c].pid)
    /\ proc' = [proc EXCEPT ![cmd[c].pid] = Told(cmd[c].pid)]
    /\ UNCHANGED <<meta, issued, faults>>

\* SIGTERM only asks, and os.kill raises if the process has just ended; taskkill /F ends it.
Kill(c) ==
    /\ AtStage(c, "kill")
    /\ IF Posix /\ ~Alive(cmd[c].pid)
       THEN Aborts(c) /\ UNCHANGED proc
       ELSE /\ Goto(c, "remove", cmd[c].pid)
            /\ proc' = [proc EXCEPT ![cmd[c].pid] =
                            IF Posix THEN Told(cmd[c].pid) ELSE Free]
    /\ UNCHANGED <<meta, issued, faults>>

\* Mutant: the metadata file is kept.
MetadataKept(c) ==
    /\ AtStage(c, "remove")
    /\ Returns(c)
    /\ UNCHANGED <<meta, proc, issued, faults>>

\* exists() and unlink(), which raises if another command removes the file in between.
RemoveMetadata(c) ==
    /\ AtStage(c, "remove")
    /\ meta' = [meta EXCEPT ![Service(c)] = NoPid]
    /\ Returns(c) \/ (meta[Service(c)] = NoPid /\ Aborts(c))
    /\ UNCHANGED <<proc, issued, faults>>

CallerStep(c) ==
    \/ FindMetadata(c) \/ ReadMetadata(c) \/ Probe(c)
    \/ Generate(c) \/ Launch(c) \/ OpenMetadata(c) \/ WriteMetadata(c)
    \/ Answered(c) \/ TimesOut(c)
    \/ SignalNginx(c) \/ Kill(c) \/ RemoveMetadata(c)

-----------------------------------------------------------------------------
(* The processes.                                                          *)

\* A service starts to listen; nginx goes on in a forked process.
Binds(p) ==
    /\ proc[p].svc \in Services /\ ~proc[p].bound /\ ~proc[p].told
    /\ ~PortTaken(proc[p].svc)
    /\ IF proc[p].svc \in Daemons
       THEN \E q \in Pids :
              /\ proc[q] = Free
              /\ Recycles \/ \A s \in Services : meta[s] # q
              /\ proc' = [proc EXCEPT ![q] = [proc[p] EXCEPT !.bound = TRUE],
                                      ![p] = Free]
       ELSE proc' = [proc EXCEPT ![p].bound = TRUE]
    /\ UNCHANGED <<meta, cmd, issued, faults>>

\* The address is in use.
BindFails(p) ==
    /\ proc[p].svc \in Services /\ ~proc[p].bound /\ ~proc[p].told
    /\ PortTaken(proc[p].svc)
    /\ proc' = [proc EXCEPT ![p] = Free]
    /\ UNCHANGED <<meta, cmd, issued, faults>>

\* A process that was told to end ends, some time later.
Ends(p) ==
    /\ proc[p].told
    /\ proc' = [proc EXCEPT ![p] = Free]
    /\ UNCHANGED <<meta, cmd, issued, faults>>

Dies(p) ==
    /\ ServiceDies /\ faults < MaxFaults
    /\ proc[p].svc \in Services /\ ~proc[p].told
    /\ proc' = [proc EXCEPT ![p] = Free]
    /\ faults' = faults + 1
    /\ UNCHANGED <<meta, cmd, issued>>

\* A program of the same user gets a pid that a metadata file may still name.
OtherStarts(p) ==
    /\ Recycles /\ faults < MaxFaults
    /\ proc[p] = Free
    /\ proc' = [proc EXCEPT ![p] = [svc |-> "other", bound |-> FALSE, told |-> FALSE]]
    /\ faults' = faults + 1
    /\ UNCHANGED <<meta, cmd, issued>>

\* Ctrl-C, or the end of the session: the detached processes live on.
Killed(c) ==
    /\ CallerDies /\ faults < MaxFaults
    /\ Busy(c)
    /\ Aborts(c)
    /\ faults' = faults + 1
    /\ UNCHANGED <<meta, proc, issued>>

\* Only the metadata files outlive the machine.
Reboot ==
    /\ CallerDies /\ faults < MaxFaults
    /\ proc' = [p \in Pids |-> Free]
    /\ cmd' = [c \in Callers |->
                  [todo |-> << >>, stage |-> "idle", pid |-> NoPid, result |-> "error"]]
    /\ faults' = faults + 1
    /\ UNCHANGED <<meta, issued>>

-----------------------------------------------------------------------------

Next ==
    \/ \E c \in Callers : Invoke(c) \/ CallerStep(c) \/ Killed(c)
    \/ \E p \in Pids : Binds(p) \/ BindFails(p) \/ Ends(p) \/ Dies(p) \/ OtherStarts(p)
    \/ Reboot

Spec == Init /\ [][Next]_vars

\* A command that runs goes on: each of its calls returns, and its waits have deadlines.
FairSpec == Spec /\ \A c \in Callers : WF_vars(CallerStep(c))

-----------------------------------------------------------------------------

\* One command at a time, none killed, pids not recycled, no service that daemonizes.
Orderly ==
    /\ Sequential /\ ~CallerDies /\ ~Recycles
    /\ Daemons = {}

\* A service never has two processes, unless one has been told to end
\* (read_metadata and is_pid_running before launch_detached).
OneProcess == \A s \in Services : \A p, q \in Live(s) : p = q

\* Between commands, status tells the truth: a service is reported as running
\* exactly if it has a process that nobody has stopped (print_status).
StatusTruthful ==
    (\A c \in Callers : ~Busy(c)) => \A s \in Services : Reported(s) <=> Live(s) # {}

\* The operation that c is at returns normally in this step.
ReturnsNow(c, op) ==
    /\ Busy(c) /\ Op(c) = op
    /\ cmd'[c].result = "ok" /\ cmd'[c].todo = Tail(cmd[c].todo)

\* When stopping a service returns, none of its processes goes on undisturbed
\* (stop_service: it was found, and signalled).
StopReaches ==
    [][\A c \in Callers :
          ReturnsNow(c, "stop") =>
              \A s \in Services : s = Service(c) => Live(s)' = {}]_vars

\* When starting a service that is enabled returns normally, the service has a
\* process that nobody has stopped (launch_detached and wait_for_any).
StartMeans ==
    [][\A c \in Callers :
          ReturnsNow(c, "start") =>
              \A s \in Enabled : s = Service(c) => Live(s)' # {}]_vars

\* Every command ends, whatever the services, other commands and faults do
\* (the deadline of wait_for_any).
CommandsEnd == \A c \in Callers : Busy(c) ~> ~Busy(c)
=============================================================================
