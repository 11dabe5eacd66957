------------------------------- MODULE Dashboard -------------------------------
(***************************************************************************)
(* The monitoring service (src/monitoring): the manifests it loads at its  *)
(* start, the action executor with the runner and the Docker handler below *)
(* it, and the log buffer with its event streams.  All handlers run on one *)
(* event loop: an action holds the loop until it is answered.  A stream    *)
(* holds it too, with or without events to send, and lets it go only while *)
(* its client does not read what it was sent.  Containers and commands     *)
(* change under them at any time.                                          *)
(***************************************************************************)
EXTENDS Integers, Sequences, SequencesExt, FiniteSets

CONSTANTS
  Components,      \* component ids
  Actions,         \* action ids
  Type,            \* Actions -> "docker_restart" | "shell" | "http_post" | ...
  Container,       \* Actions -> the container it restarts
  Manifests,       \* contents a manifest file can have, or NoManifest
  NoManifest,
  Streams,         \* connections to /logs/stream
  Sources,         \* what a filter can tell apart in an entry
  Capacity,        \* max_entries of the buffer
  MaxInputs        \* how many requests, log entries, clearings and changes there are in all

DashboardAssumption ==
  /\ Type \in [Actions -> {"docker_restart", "shell", "http_post", "process_signal",
                           "config_reload", "unknown"}]
  /\ \A m \in Manifests \ {NoManifest} :
        m.enabled \in BOOLEAN /\ m.actions \subseteq Actions
  /\ Capacity \in Nat \ {0} /\ MaxInputs \in Nat
ASSUME DashboardAssumption

VARIABLES
  project, localDir, \* component id -> the manifest of each directory
  manifests,       \* app.state.manifests: the enabled ones, with their actions
  docker,          \* "none" if the Docker handler could not be created
  container,       \* per container: "running", "exited" or "gone"
  restarts,        \* per container: how often it was restarted
  delayed,         \* containers that the daemon still restarts for a call that failed
  executions,      \* sequence of executions, by start
  history,         \* their numbers, in the order of ActionExecutor.history
  pc,              \* where the handler that holds the loop is: "free" if none does,
                   \* "stream" if it is an event stream
  logged,          \* all entries ever logged, as their sources
  buffer,          \* DashboardLogger.logs: numbers of entries
  stream,          \* per connection: its state, filter and queue, what it was sent
  callbacks,       \* DashboardLogger.callbacks
  inputs           \* how many of MaxInputs there were

vars == <<project, localDir, manifests, docker, container, restarts, delayed,
          executions, history, pc, logged, buffer, stream, callbacks, inputs>>
config == <<project, localDir, manifests, docker>>
world == <<container, restarts, delayed, inputs>>
actions == <<executions, history, pc>>
logs == <<logged, buffer, stream, callbacks>>

Containers == {Container[a] : a \in Actions}
Current == Len(executions)
States == {"running", "completed", "failed"}
Running == {"run", "restart", "status"}   \* a handler that works for an execution
All == "all"       \* a stream without a filter

(***************************************************************************)
(* Manifests.                                                              *)
(***************************************************************************)
\* _merge_manifests: a local manifest replaces the project's as a whole.
Merged(p, l) == [c \in Components |-> IF l[c] # NoManifest THEN l[c] ELSE p[c]]

\* load_manifests: what is enabled.
Loaded(p, l) ==
  [c \in {c \in Components : Merged(p, l)[c] # NoManifest /\ Merged(p, l)[c].enabled} |-> Merged(p, l)[c].actions]

Input == inputs < MaxInputs /\ inputs' = inputs + 1

NoStream == [state |-> "none", filter |-> All, from |-> 0, queue |-> <<>>, sent |-> <<>>]

Init ==
  /\ project \in [Components -> Manifests] /\ localDir \in [Components -> Manifests]
  /\ manifests = Loaded(project, localDir)
  /\ docker \in {"none", "up"}
  /\ container \in [Containers -> {"running", "gone"}]
  /\ restarts = [c \in Containers |-> 0] /\ delayed = {}
  /\ executions = <<>> /\ history = <<>> /\ pc = "free"
  /\ logged = <<>> /\ buffer = <<>> /\ stream = [s \in Streams |-> NoStream]
  /\ callbacks = <<>> /\ inputs = 0

(***************************************************************************)
(* Actions.                                                                *)
(***************************************************************************)
\* POST /components/{c}/actions/{a}: unknown ids are answered with 404.
Execute(c, a) ==
  /\ pc = "free" /\ Input
  /\ c \in DOMAIN manifests /\ a \in manifests[c]
  /\ executions' = Append(executions, [component |-> c, action |-> a, state |-> "running",
                                       before |-> IF Type[a] = "docker_restart" THEN restarts[Container[a]] ELSE 0])
  /\ pc' = "run"
  /\ UNCHANGED <<config, container, restarts, delayed, history, logs>>

Action == executions[Current].action
Target == Container[Action]

\* Mutant: only a success reaches the history.
FinishOk(state) ==
  /\ pc' = "free"
  /\ executions' = [executions EXCEPT ![Current].state = state]
  /\ history' = IF state = "completed" THEN Append(history, Current) ELSE history

\* The result of the runner, or its exception, ends in the record.
Finish(state) ==
  /\ pc' = "free"
  /\ executions' = [executions EXCEPT ![Current].state = state]
  /\ history' = Append(history, Current)

ClearHistory ==
  /\ pc = "free" /\ history # <<>> /\ Input /\ executions' = <<>> /\ history' = <<>>
  /\ UNCHANGED <<config, container, restarts, delayed, pc, logs>>

\* Types that are unknown or not implemented.
Unimplemented ==
  /\ pc = "run" /\ Type[Action] \notin {"docker_restart", "shell"}
  /\ Finish("failed") /\ UNCHANGED <<config, world, logs>>

\* subprocess.run(shell=True, timeout=10): a timeout kills the shell, not what it started.
Shell ==
  /\ pc = "run" /\ Type[Action] = "shell"
  /\ (Finish("completed") \/ Finish("failed"))
  /\ UNCHANGED <<config, world, logs>>

\* get_container swallows every error.
FindContainer ==
  /\ pc = "run" /\ Type[Action] = "docker_restart"
  /\ \/ docker = "up" /\ container[Target] # "gone" /\ pc' = "restart" /\ UNCHANGED <<executions, history>>
     \/ Finish("failed")
  /\ UNCHANGED <<config, world, logs>>

Restart(c) ==
  /\ container' = [container EXCEPT ![c] = "running"]
  /\ restarts' = [restarts EXCEPT ![c] = @ + 1]

\* Mutant: an error of the daemon is taken for a restart.
RestartSwallowed ==
  /\ pc = "restart"
  /\ \/ container[Target] # "gone" /\ Restart(Target) /\ pc' = "status" /\ UNCHANGED <<delayed, executions, history>>
     \/ pc' = "status" /\ UNCHANGED <<container, restarts, delayed, executions, history>>
  /\ UNCHANGED <<config, inputs, logs>>

\* Mutant: a container that has gone is waited for.
RestartWaits ==
  /\ pc = "restart" /\ container[Target] # "gone" /\ Restart(Target) /\ pc' = "status"
  /\ UNCHANGED <<config, delayed, inputs, executions, history, logs>>

\* container.restart: done, refused, or cut off while the daemon goes on.
RestartContainer ==
  /\ pc = "restart"
  /\ \/ container[Target] # "gone" /\ Restart(Target) /\ pc' = "status" /\ UNCHANGED <<delayed, executions, history>>
     \/ Finish("failed") /\ UNCHANGED <<container, restarts, delayed>>
     \/ /\ container[Target] # "gone" /\ delayed' = delayed \cup {Target}
        /\ Finish("failed") /\ UNCHANGED <<container, restarts>>
  /\ UNCHANGED <<config, inputs, logs>>

\* reload and get_container_status, after half a second.
ReadStatus ==
  /\ pc = "status"
  /\ \/ container[Target] # "gone" /\ Finish("completed")
     \/ Finish("failed")
  /\ UNCHANGED <<config, world, logs>>

(***************************************************************************)
(* Logs.                                                                   *)
(***************************************************************************)
Connected(s) == stream[s].state \in {"sending", "paused"}
Matches(s, source) == stream[s].filter \in {All, source}

\* Mutant: the deque has no maxlen.
BufferedAll(n) == Append(buffer, n)

\* deque(maxlen): a full one lets its oldest entry go.
Buffered(n) == Append(IF Len(buffer) = Capacity THEN Tail(buffer) ELSE buffer, n)

\* DashboardLogger.log: append, then every callback in turn.
Log(source) ==
  /\ pc = "free" /\ Input
  /\ LET n == Len(logged) + 1 IN
     /\ logged' = Append(logged, source)
     /\ buffer' = Buffered(n)
     /\ stream' = [s \in Streams |->
          IF Contains(callbacks, s) /\ Matches(s, source)
          THEN [stream[s] EXCEPT !.queue = Append(@, n)] ELSE stream[s]]
  /\ UNCHANGED <<config, container, restarts, delayed, actions, callbacks>>

ClearLogs ==
  /\ pc = "free" /\ Input /\ buffer # <<>> /\ buffer' = <<>>
  /\ UNCHANGED <<config, container, restarts, delayed, actions, logged, stream, callbacks>>

\* Mutant: the client is told it is connected before the callback is there.
ConnectLate(s, f) ==
  /\ pc = "free"
  /\ \/ /\ Input /\ stream[s].state = "none" /\ UNCHANGED callbacks
        /\ stream' = [stream EXCEPT ![s] = [NoStream EXCEPT !.state = "paused", !.filter = f, !.from = Len(logged)]]
     \/ Connected(s) /\ ~Contains(callbacks, s)
        /\ callbacks' = Append(callbacks, s) /\ UNCHANGED <<stream, inputs>>
  /\ UNCHANGED <<config, container, restarts, delayed, executions, history, pc, logged, buffer>>

\* The generator up to its first event: "connected", or an error for an invalid
\* level, after which it ends without a callback.
Connect(s, f) ==
  /\ pc = "free" /\ Input /\ stream[s].state = "none"
  /\ \/ /\ stream' = [stream EXCEPT ![s] = [state |-> "sending", filter |-> f, from |-> Len(logged),
                                            queue |-> <<>>, sent |-> <<>>]]
        /\ callbacks' = Append(callbacks, s) /\ pc' = "stream"
     \/ stream' = [stream EXCEPT ![s].state = "closed"] /\ UNCHANGED <<callbacks, pc>>
  /\ UNCHANGED <<config, container, restarts, delayed, executions, history, logged, buffer>>

\* One event, and back to queue.get without letting the loop go.  With an empty
\* queue the call blocks the loop for 30 seconds, again and again: the pings
\* between change nothing here.
StreamEvent(s) ==
  /\ pc = "stream" /\ stream[s].state = "sending" /\ stream[s].queue # <<>>
  /\ stream' = [stream EXCEPT ![s].sent = Append(@, Head(stream[s].queue)), ![s].queue = Tail(@)]
  /\ UNCHANGED <<config, world, actions, logged, buffer, callbacks>>

\* The client reads too slowly: the server waits for it, and the loop is free.
Pause(s) ==
  /\ pc = "stream" /\ stream[s].state = "sending"
  /\ stream' = [stream EXCEPT ![s].state = "paused"] /\ pc' = "free"
  /\ UNCHANGED <<config, world, executions, history, logged, buffer, callbacks>>

\* The client has read, and the generator goes on.
Resume(s) ==
  /\ pc = "free" /\ stream[s].state = "paused"
  /\ stream' = [stream EXCEPT ![s].state = "sending"] /\ pc' = "stream"
  /\ UNCHANGED <<config, world, executions, history, logged, buffer, callbacks>>

\* GeneratorExit, which needs the loop: the callback stays.
Disconnect(s) ==
  /\ pc = "free" /\ stream[s].state = "paused"
  /\ stream' = [stream EXCEPT ![s].state = "closed"]
  /\ UNCHANGED <<config, world, actions, logged, buffer, callbacks>>

Slice(seq, offset, limit) ==
  SubSeq(seq, offset + 1, IF offset + limit < Len(seq) THEN offset + limit ELSE Len(seq))

\* The filter of GET /logs.
Selected(source) ==
  FlattenSeq([i \in 1..Len(buffer) |-> IF source \in {All, logged[buffer[i]]} THEN <<buffer[i]>> ELSE <<>>])

\* Mutant: the newest ones up to the limit are taken before the page.
GetLogsNewest(source, offset, limit) ==
  LET matching == Selected(source)
      newest == IF Len(matching) > limit THEN SubSeq(matching, Len(matching) - limit + 1, Len(matching))
                                         ELSE matching
  IN Slice(newest, offset, limit)

\* GET /logs: filter, then a page, in the order of the entries.
GetLogs(source, offset, limit) ==
  Slice(Selected(source), offset, limit)

\* ActionExecutor.get_statistics.
Statistics ==
  [total |-> Len(history),
   completed |-> Cardinality({i \in DOMAIN history : executions[history[i]].state = "completed"}),
   failed |-> Cardinality({i \in DOMAIN history : executions[history[i]].state = "failed"}),
   running |-> Cardinality({i \in DOMAIN executions : executions[i].state = "running"})]

(***************************************************************************)
(* Around the service.                                                     *)
(***************************************************************************)
Change(c) ==
  /\ Input
  /\ \E to \in {"running", "exited", "gone"} \ {container[c]} : container' = [container EXCEPT ![c] = to]
  /\ UNCHANGED <<config, restarts, delayed, actions, logs>>

DelayedRestart(c) ==
  /\ c \in delayed /\ delayed' = delayed \ {c}
  /\ \/ container[c] # "gone" /\ Restart(c)
     \/ container[c] = "gone" /\ UNCHANGED <<container, restarts>>
  /\ UNCHANGED <<config, inputs, actions, logs>>

Handler == Unimplemented \/ Shell \/ FindContainer \/ RestartContainer \/ ReadStatus
Events == \E s \in Streams : StreamEvent(s) \/ Pause(s) \/ Resume(s) \/ Disconnect(s)
Next ==
  \/ \E c \in Components, a \in Actions : Execute(c, a)
  \/ Handler \/ Events
  \/ \E source \in Sources : Log(source)
  \/ \E s \in Streams, f \in Sources \cup {All} : Connect(s, f)
  \/ ClearHistory \/ ClearLogs
  \/ \E c \in Containers : Change(c) \/ DelayedRestart(c)

Spec == Init /\ [][Next]_vars

\* A handler that holds the loop goes on; Docker calls and commands have
\* timeouts.  Nothing is assumed of clients: one that reads holds the loop.
FairSpec == Spec /\ WF_vars(Handler)

(***************************************************************************)
(* Properties.                                                             *)
(***************************************************************************)
\* Every variable stays in its domain, the queues hold entries that were logged,
\* a handler that runs works for an execution that is in progress, and one
\* stream at most holds the loop.
TypeOK ==
  /\ DOMAIN manifests \subseteq Components
  /\ container \in [Containers -> {"running", "exited", "gone"}]
  /\ restarts \in [Containers -> Nat] /\ delayed \subseteq Containers
  /\ pc \in {"free", "stream"} \cup Running
  /\ pc \in Running => Current > 0 /\ executions[Current].state = "running"
  /\ \A i \in DOMAIN executions : executions[i].state \in States
  /\ Len(buffer) <= Capacity
  /\ \A s \in Streams : \A i \in DOMAIN stream[s].queue : stream[s].queue[i] \in 1..Len(logged)
  /\ \A s \in Streams : stream[s].state = "sending" =>
        pc = "stream" /\ \A t \in Streams \ {s} : stream[t].state # "sending"

\* Between requests every execution is settled and in the history exactly once, in
\* the order they were started, and the statistics add up: no error of a
\* runner, a handler or the daemon leaves one behind as running.
Settled ==
  pc \notin Running =>
    /\ history = [i \in 1..Current |-> i]
    /\ Statistics.running = 0
    /\ Statistics.total = Statistics.completed + Statistics.failed

\* A restart that is reported as done has restarted the container, whatever
\* happened to it between the look-up, the call and the look at its status.
HonestResult ==
  \A i \in DOMAIN executions :
    executions[i].state = "completed" /\ Type[executions[i].action] = "docker_restart" =>
      restarts[Container[executions[i].action]] > executions[i].before

\* A client that was told it is connected misses nothing: what it was sent and
\* what waits for it are the matching entries logged since, in their order,
\* although the buffer has let the oldest go or was cleared.
NoGap ==
  \A s \in Streams :
    Connected(s) =>
      LET got == stream[s].sent \o stream[s].queue IN
      /\ Range(got) = {n \in 1..Len(logged) : n > stream[s].from /\ Matches(s, logged[n])}
      /\ \A i, j \in DOMAIN got : i < j => got[i] < got[j]

\* The pages of GET /logs, one after the other, are the matching entries among
\* the newest ones, each once and oldest first, for every size of a page.
Pages ==
  \A source \in Sources \cup {All}, limit \in 1..Capacity :
    LET oldest == Len(logged) - Len(buffer)
        got == FlattenSeq([i \in 1..Capacity |-> GetLogs(source, (i - 1) * limit, limit)])
    IN /\ Range(got) = {n \in oldest + 1 .. Len(logged) : source \in {All, logged[n]}}
       /\ \A i, j \in DOMAIN got : i < j => got[i] < got[j]

\* An action that has started is answered, and the loop is free again.  (A
\* request that arrives while a stream holds the loop has not started.)
Answered == pc \in Running ~> pc = "free"
================================================================================
