---------------------------- MODULE DashboardProofs ----------------------------
(***************************************************************************)
(* What the monitoring service reports is what happened, and its streams   *)
(* miss nothing: for every set of components, actions and connections, and *)
(* every number of requests, log entries and changes around it.            *)
(***************************************************************************)
EXTENDS Dashboard, Induction, SequenceTheorems

Kinds == {"running", "exited", "gone"}
Record == [component : Components, action : Actions, state : States, before : Nat]
Connection == [state : {"none", "sending", "paused", "closed"}, filter : Sources \cup {All},
               from : Nat, queue : Seq(Nat), sent : Seq(Nat)]

ActionTypes ==
  /\ DOMAIN manifests \subseteq Components /\ \A c \in DOMAIN manifests : manifests[c] \subseteq Actions
  /\ container \in [Containers -> Kinds] /\ restarts \in [Containers -> Nat] /\ delayed \subseteq Containers
  /\ executions \in Seq(Record) /\ history \in Seq(Nat)
  /\ pc \in {"free", "stream"} \cup Running

\* The handler that holds the loop works for the newest execution; the others are settled.
Executing == pc \in Running => Current > 0 /\ executions[Current].state = "running"
Ended == \A i \in DOMAIN executions : pc \notin Running \/ i # Current => executions[i].state # "running"

\* The history has those that are settled, in their order.
Recorded == history = [i \in 1..(IF pc \in Running THEN Current - 1 ELSE Current) |-> i]

\* Restarts are counted from the start of the execution on.
Since == \A i \in DOMAIN executions :
  Type[executions[i].action] = "docker_restart" => executions[i].before <= restarts[Container[executions[i].action]]
Restarting ==
  /\ pc \in {"restart", "status"} => Type[Action] = "docker_restart"
  /\ pc = "status" => restarts[Target] > executions[Current].before

ActionInv == ActionTypes /\ Executing /\ Ended /\ Recorded /\ Since /\ Restarting /\ HonestResult

LogTypes ==
  /\ logged \in Seq(Sources) /\ buffer \in Seq(Nat) /\ Len(buffer) <= Capacity
  /\ stream \in [Streams -> Connection] /\ callbacks \in Seq(Streams)

Subscribed == \A s \in Streams : Connected(s) => Contains(callbacks, s)
Queued == \A s \in Streams : \A i \in DOMAIN stream[s].queue : stream[s].queue[i] \in 1..Len(logged)
Begun == \A s \in Streams : stream[s].from <= Len(logged)

\* What a connection was sent or will be, against what was logged since.
Got(s) == stream[s].sent \o stream[s].queue
Due(s) == {n \in 1..Len(logged) : n > stream[s].from /\ Matches(s, logged[n])}
Complete(s) == /\ Range(Got(s)) = Due(s)
               /\ \A i, j \in DOMAIN Got(s) : i < j => Got(s)[i] < Got(s)[j]

LogInv == /\ LogTypes /\ Subscribed /\ Queued /\ Begun
          /\ \A s \in Streams : Connected(s) => Complete(s)

-----------------------------------------------------------------------------
(***************************************************************************)
(* Actions.                                                                *)
(***************************************************************************)

\* The end of an execution settles it and adds it to the history.
LEMMA FinishInv ==
  ASSUME ActionInv, pc \in Running, NEW state \in {"completed", "failed"}, Finish(state),
         UNCHANGED <<manifests, container, restarts>>, delayed' \subseteq Containers,
         state = "completed" /\ Type[Action] = "docker_restart" => pc = "status"
  PROVE  ActionInv'
<1> USE DEF ActionInv
<1> DEFINE old == executions[Current]
           settled == [old EXCEPT !.state = state]
<1>a. /\ Current \in Nat \ {0} /\ Current = Len(executions) /\ Current \in DOMAIN executions
      /\ old \in Record /\ old = executions[Current]
  BY ElementOfSeq DEF ActionTypes, Executing, Current
<1>b. executions' = [executions EXCEPT ![Current] = settled] /\ pc' = "free" /\ history' = Append(history, Current)
  BY DEF Finish
<1>c. settled \in Record /\ settled.state = state /\ settled.action = old.action /\ settled.before = old.before
  <2> HIDE DEF old
  <2> QED
    BY <1>a, SMTT(30) DEF Record, States
<1> HIDE DEF old, settled
<1>1. /\ executions' \in Seq(Record) /\ Len(executions') = Len(executions) /\ DOMAIN executions' = DOMAIN executions
      /\ Current' = Current
      /\ \A i \in DOMAIN executions : executions'[i] = IF i = Current THEN settled ELSE executions[i]
  <2>1. executions \in Seq(Record)
    BY DEF ActionTypes
  <2>2. executions' \in Seq(Record) /\ Len(executions') = Len(executions)
        /\ \A i \in 1..Len(executions) : executions'[i] = IF i = Current THEN settled ELSE executions[i]
    BY <1>a, <1>b, <1>c, <2>1, ExceptSeq
  <2>3. DOMAIN executions = 1..Len(executions) /\ DOMAIN executions' = 1..Len(executions)
    BY <2>1, <2>2, LenProperties
  <2> QED
    BY <2>2, <2>3 DEF Current
<1>2. ActionTypes'
  BY <1>1, <1>a, <1>b DEF ActionTypes
<1>3. Executing' /\ Restarting'
  BY <1>b DEF Executing, Restarting, Running
<1>4. Ended'
  BY <1>1, <1>b, <1>c DEF Ended
<1>5. Recorded'
  <2>1. history = [i \in 1..(Current - 1) |-> i] /\ Current' = Current /\ history' = Append(history, Current)
    BY <1>1, <1>b DEF Recorded
  <2>2. Append([i \in 1..(Current - 1) |-> i], Current) = [i \in 1..Current |-> i]
    BY <1>a
  <2> QED
    BY <1>b, <2>1, <2>2 DEF Recorded, Running
<1>6. Since' /\ HonestResult'
  BY <1>1, <1>a, <1>c DEF Since, HonestResult, Restarting, Target, Action
<1> QED
  BY <1>2, <1>3, <1>4, <1>5, <1>6

\* Every step preserves what is known of executions and containers.
LEMMA ActionStep == ActionInv /\ [Next]_vars => ActionInv'
<1> SUFFICES ASSUME ActionInv, [Next]_vars PROVE ActionInv'
  OBVIOUS
<1> USE DEF config, world, actions, logs, Running
<1>0. CASE UNCHANGED <<config, container, restarts, delayed, executions, history, pc>>
  BY <1>0 DEF ActionInv, ActionTypes, Executing, Ended, Recorded, Since, Restarting, HonestResult, Current, Action, Target
<1>a. \A i \in DOMAIN executions : executions[i] \in Record /\ Container[executions[i].action] \in Containers /\ executions[i].before \in Nat
  <2> SUFFICES ASSUME NEW i \in DOMAIN executions
               PROVE  executions[i] \in Record /\ Container[executions[i].action] \in Containers /\ executions[i].before \in Nat
    OBVIOUS
  <2>1. executions[i] \in Record
    BY ElementOfSeq DEF ActionInv, ActionTypes
  <2> QED
    BY <2>1 DEF Record, Containers
<1>1. ASSUME NEW c \in Components, NEW a \in Actions, Execute(c, a) PROVE ActionInv'
  <2> DEFINE r == [component |-> c, action |-> a, state |-> "running",
                   before |-> IF Type[a] = "docker_restart" THEN restarts[Container[a]] ELSE 0]
  <2>1. /\ r \in Record /\ executions' = Append(executions, r) /\ Len(executions') = Len(executions) + 1
        /\ DOMAIN executions' = DOMAIN executions \cup {Len(executions) + 1}
        /\ executions'[Len(executions) + 1] = r
        /\ \A i \in DOMAIN executions : executions'[i] = executions[i] /\ i # Len(executions) + 1
    BY <1>1 DEF Execute, ActionInv, ActionTypes, Record, States, Containers
  <2>2. ActionTypes'
    BY <1>1, <2>1 DEF Execute, ActionInv, ActionTypes
  <2>3. Executing' /\ Ended' /\ Recorded' /\ Restarting'
    BY <1>1, <2>1 DEF Execute, ActionInv, ActionTypes, Executing, Ended, Recorded, Restarting, Current
  <2>4. Since' /\ HonestResult'
    <3>1. UNCHANGED restarts /\ restarts \in [Containers -> Nat] /\ Container[a] \in Containers
      BY <1>1 DEF Execute, ActionInv, ActionTypes, Containers
    <3>2. r.action = a /\ r.state = "running" /\ (Type[a] = "docker_restart" => r.before = restarts[Container[a]])
      OBVIOUS
    <3> HIDE DEF r
    <3>3. Since /\ HonestResult
      BY DEF ActionInv
    <3>4. Since'
      BY <2>1, <3>1, <3>2, <3>3 DEF Since
    <3>5. HonestResult'
      BY <2>1, <3>1, <3>2, <3>3 DEF HonestResult
    <3> QED
      BY <3>4, <3>5
  <2> QED
    BY <2>2, <2>3, <2>4 DEF ActionInv
<1>2. CASE Unimplemented
  BY <1>2, FinishInv DEF Unimplemented, ActionInv, ActionTypes
<1>3. CASE Shell
  BY <1>3, FinishInv DEF Shell, ActionInv, ActionTypes
<1>4. CASE FindContainer
  <2>1. CASE Finish("failed")
    BY <1>4, <2>1, FinishInv DEF FindContainer, ActionInv, ActionTypes
  <2>2. CASE pc' = "restart" /\ UNCHANGED <<executions, history>>
    BY <1>4, <2>2 DEF FindContainer, ActionInv, ActionTypes, Executing, Ended, Recorded, Since, Restarting, HonestResult, Current, Action
  <2> QED
    BY <1>4, <2>1, <2>2 DEF FindContainer
<1>r. ASSUME NEW c \in Containers, Restart(c)
      PROVE  /\ container' \in [Containers -> Kinds] /\ restarts' \in [Containers -> Nat]
             /\ \A d \in Containers : restarts'[d] >= restarts[d] /\ restarts'[c] > restarts[c]
  BY <1>r DEF Restart, ActionInv, ActionTypes, Kinds
<1>s. ASSUME NEW c \in Containers, Restart(c), UNCHANGED <<executions, history>>
      PROVE  Since' /\ HonestResult'
  BY <1>r, <1>s, <1>a, SMTT(30) DEF ActionInv, ActionTypes, Since, HonestResult
<1>5. CASE RestartContainer
  <2>0. Current \in DOMAIN executions /\ Target \in Containers /\ Type[Action] = "docker_restart"
    BY <1>5, <1>a DEF RestartContainer, ActionInv, ActionTypes, Executing, Restarting, Current, Target, Action
  <2>1. CASE Finish("failed")
    <3>1. /\ UNCHANGED <<manifests, container, restarts>> /\ pc = "restart"
          /\ delayed' = delayed \/ delayed' = delayed \cup {Target}
      BY <1>5, <2>1 DEF RestartContainer, Finish
    <3>2. delayed' \subseteq Containers
      BY <2>0, <3>1 DEF ActionInv, ActionTypes
    <3> QED
      BY <2>1, <3>1, <3>2, FinishInv
  <2>2. CASE Restart(Target) /\ pc' = "status" /\ UNCHANGED <<delayed, executions, history>>
    <3>1. ActionTypes' /\ Executing' /\ Ended' /\ Recorded'
      BY <1>5, <1>r, <2>0, <2>2 DEF RestartContainer, ActionInv, ActionTypes, Executing, Ended, Recorded, Current
    <3>2. Restarting'
      BY <1>5, <1>r, <1>a, <2>0, <2>2 DEF RestartContainer, ActionInv, ActionTypes, Restarting, Since, Current, Target, Action
    <3> QED
      BY <1>s, <2>0, <2>2, <3>1, <3>2 DEF ActionInv
  <2> QED
    BY <1>5, <2>1, <2>2 DEF RestartContainer
<1>6. CASE ReadStatus
  BY <1>6, FinishInv DEF ReadStatus, ActionInv, ActionTypes
<1>7. CASE ClearHistory
  BY <1>7 DEF ClearHistory, ActionInv, ActionTypes, Executing, Ended, Recorded, Since, Restarting, HonestResult, Current
<1>8. ASSUME NEW c \in Containers, Change(c) PROVE ActionInv'
  <2>1. container' \in [Containers -> Kinds] /\ UNCHANGED <<manifests, restarts, delayed, executions, history, pc>>
    BY <1>8 DEF Change, ActionInv, ActionTypes, Kinds
  <2> QED
    BY <2>1 DEF ActionInv, ActionTypes, Executing, Ended, Recorded, Since, Restarting, HonestResult, Current, Action, Target
<1>9. ASSUME NEW c \in Containers, DelayedRestart(c) PROVE ActionInv'
  <2>1. CASE Restart(c)
    <3>1. ActionTypes' /\ Executing' /\ Ended' /\ Recorded'
      BY <1>9, <1>r, <2>1 DEF DelayedRestart, ActionInv, ActionTypes, Executing, Ended, Recorded, Current
    <3>2. Restarting'
      <4> SUFFICES ASSUME pc' \in {"restart", "status"} PROVE Restarting'
        BY DEF Restarting
      <4>1. Current \in DOMAIN executions /\ Current' = Current /\ Action' = Action /\ Target' = Target /\ Target \in Containers
        BY <1>9, <1>a DEF DelayedRestart, ActionInv, ActionTypes, Executing, Current, Target, Action
      <4> QED
        BY <1>9, <1>r, <1>a, <2>1, <4>1 DEF DelayedRestart, ActionInv, ActionTypes, Restarting
    <3> QED
      BY <1>9, <1>s, <2>1, <3>1, <3>2 DEF DelayedRestart, ActionInv
  <2>2. CASE UNCHANGED <<container, restarts>>
    BY <1>9, <2>2 DEF DelayedRestart, ActionInv, ActionTypes, Executing, Ended, Recorded, Since, Restarting, HonestResult, Current, Action, Target
  <2> QED
    BY <1>9, <2>1, <2>2 DEF DelayedRestart
<1>10. CASE Events \/ (\E source \in Sources : Log(source)) \/ ClearLogs
         \/ (\E s \in Streams, f \in Sources \cup {All} : Connect(s, f)) \/ UNCHANGED vars
  <2>1. /\ UNCHANGED <<config, container, restarts, delayed, executions, history>>
        /\ pc' = pc \/ (pc \notin Running /\ pc' \in {"free", "stream"})
    <3>1. CASE Events
      BY <3>1 DEF Events, StreamEvent, Pause, Resume, Disconnect
    <3>2. CASE \E source \in Sources : Log(source)
      BY <3>2 DEF Log
    <3>3. CASE \E s \in Streams, f \in Sources \cup {All} : Connect(s, f)
      BY <3>3 DEF Connect
    <3>4. CASE ClearLogs
      BY <3>4 DEF ClearLogs
    <3>5. CASE UNCHANGED vars
      BY <3>5 DEF vars
    <3> QED
      BY <1>10, <3>1, <3>2, <3>3, <3>4, <3>5
  <2>2. CASE pc \notin Running /\ pc' \in {"free", "stream"}
    BY <2>1, <2>2 DEF ActionInv, ActionTypes, Executing, Ended, Recorded, Since, Restarting, HonestResult, Current, Running
  <2> QED
    BY <1>0, <2>1, <2>2
<1> QED
  BY <1>1, <1>2, <1>3, <1>4, <1>5, <1>6, <1>7, <1>8, <1>9, <1>10 DEF Next, Handler

LEMMA ActionStart == Init => ActionInv
<1> SUFFICES ASSUME Init PROVE ActionInv
  OBVIOUS
<1>1. DOMAIN manifests \subseteq Components /\ \A c \in DOMAIN manifests : manifests[c] \subseteq Actions
  BY DashboardAssumption DEF Init, Loaded, Merged, DashboardAssumption
<1> QED
  BY <1>1 DEF Init, ActionInv, ActionTypes, Kinds, Executing, Ended, Recorded, Since, Restarting, HonestResult, Current, Running

LEMMA ActionInductive == Spec => []ActionInv
  BY ActionStart, ActionStep, PTL DEF Spec

\* A restart that is reported as done has happened after it was asked for.
THEOREM ResultsHonest == Spec => []HonestResult
  BY ActionInductive, PTL DEF ActionInv

\* Between two requests the history holds every execution once, in order, none
\* is left as running and the statistics add up.
THEOREM AllSettled == Spec => []Settled
<1>1. ASSUME ActionInv PROVE Settled
  <2> SUFFICES ASSUME pc \notin Running PROVE Settled!2
    BY DEF Settled
  <2>1. history = [i \in 1..Current |-> i] /\ Current \in Nat /\ DOMAIN executions = 1..Current /\ DOMAIN history = 1..Current
        /\ Len(history) = Current
    BY <1>1 DEF ActionInv, ActionTypes, Recorded, Current
  <2> DEFINE C == {i \in DOMAIN history : executions[history[i]].state = "completed"}
             F == {i \in DOMAIN history : executions[history[i]].state = "failed"}
             R == {i \in DOMAIN executions : executions[i].state = "running"}
  <2>2. R = {} /\ Cardinality(R) = 0
    BY <1>1, FS_EmptySet DEF ActionInv, Ended
  <2>3. C \cup F = 1..Current /\ C \cap F = {}
    <3>1. \A i \in 1..Current : history[i] = i /\ executions[i] \in Record /\ executions[i].state # "running"
      BY <1>1, <2>1, ElementOfSeq DEF ActionInv, ActionTypes, Ended, Current
    <3> QED
      BY <2>1, <3>1 DEF Record, States
  <2> HIDE DEF C, F, R
  <2>4. IsFiniteSet(1..Current) /\ Cardinality(1..Current) = Current
    BY <2>1, FS_Interval
  <2>5. IsFiniteSet(C) /\ IsFiniteSet(F)
    BY <2>3, <2>4, FS_Subset
  <2>6. Cardinality(C \cup F) = Cardinality(C) + Cardinality(F) - Cardinality(C \cap F)
    BY <2>5, FS_Union
  <2>7. Cardinality(C) \in Nat /\ Cardinality(F) \in Nat /\ Cardinality({}) = 0
    BY <2>5, FS_CardinalityType, FS_EmptySet
  <2>8. Current = Cardinality(C) + Cardinality(F)
    <3>1. Current = Cardinality(C) + Cardinality(F) - 0
      BY <2>3, <2>4, <2>6, <2>7, Zenon
    <3> QED
      BY <2>7, <3>1
  <2>9. Statistics = [total |-> Current, completed |-> Cardinality(C), failed |-> Cardinality(F), running |-> 0]
    BY <2>1, <2>2 DEF Statistics, C, F, R
  <2> QED
    BY <2>1, <2>8, <2>9
<1> QED
  BY <1>1, ActionInductive, PTL

-----------------------------------------------------------------------------
(***************************************************************************)
(* Logs.                                                                   *)
(***************************************************************************)

\* What one more entry n adds to what a connection got.
LEMMA EntryQueued ==
  ASSUME NEW sent \in Seq(Nat), NEW queue \in Seq(Nat), NEW n \in Nat
  PROVE  /\ sent \o Append(queue, n) = Append(sent \o queue, n)
         /\ DOMAIN Append(sent \o queue, n) = 1..Len(sent \o queue) + 1
         /\ sent \o queue \in Seq(Nat)
  OBVIOUS

\* An event moves an entry from what waits to what was sent.
LEMMA EntrySent ==
  ASSUME NEW sent \in Seq(Nat), NEW queue \in Seq(Nat), queue # <<>>
  PROVE  /\ Append(sent, Head(queue)) \o Tail(queue) = sent \o queue
         /\ Append(sent, Head(queue)) \in Seq(Nat) /\ Tail(queue) \in Seq(Nat)
         /\ \A i \in DOMAIN Tail(queue) : i + 1 \in DOMAIN queue /\ Tail(queue)[i] = queue[i + 1]
  BY SMTT(30)
\* A connection of which nothing changed is as complete as it was.
LEMMA StaysComplete ==
  ASSUME LogInv, NEW s \in Streams, Connected(s)' => Connected(s),
         stream'[s].filter = stream[s].filter, stream'[s].from = stream[s].from,
         stream'[s].sent \o stream'[s].queue = stream[s].sent \o stream[s].queue,
         UNCHANGED logged
  PROVE  Connected(s)' => Complete(s)'
<1>1. Got(s)' = Got(s) /\ Due(s)' = Due(s)
  BY DEF Got, Due, Matches
<1> QED
  BY <1>1 DEF LogInv, Complete

\* An entry reaches every connection whose filter it matches.
LEMMA LogStays ==
  ASSUME LogInv, NEW source \in Sources, Log(source)
  PROVE  LogInv'
<1> DEFINE n == Len(logged) + 1
<1>0. /\ logged' = Append(logged, source) /\ logged \in Seq(Sources) /\ buffer' = Buffered(n)
      /\ UNCHANGED callbacks /\ stream \in [Streams -> Connection] /\ n \in Nat
  BY DEF Log, LogInv, LogTypes
<1>1. /\ logged' \in Seq(Sources) /\ Len(logged') = n /\ logged'[n] = source
      /\ \A m \in 1..Len(logged) : logged'[m] = logged[m]
  BY <1>0
<1>2. buffer' \in Seq(Nat) /\ Len(buffer') <= Capacity
  BY <1>0, DashboardAssumption DEF Buffered, LogInv, LogTypes, DashboardAssumption
<1> DEFINE hit(s) == Contains(callbacks, s) /\ Matches(s, source)
<1>3. ASSUME NEW s \in Streams
      PROVE  /\ stream[s] \in Connection /\ stream'[s] \in Connection
             /\ stream'[s].state = stream[s].state /\ stream'[s].filter = stream[s].filter
             /\ stream'[s].from = stream[s].from /\ stream'[s].sent = stream[s].sent
             /\ stream'[s].queue = IF hit(s) THEN Append(stream[s].queue, n) ELSE stream[s].queue
  <2>1. stream'[s] = IF hit(s) THEN [stream[s] EXCEPT !.queue = Append(stream[s].queue, n)] ELSE stream[s]
    BY DEF Log
  <2>2. stream[s] \in Connection
    BY <1>0
  <2> DEFINE old == stream[s]
  <2> HIDE DEF n, hit, old
  <2>3. ASSUME NEW q \in Seq(Nat)
        PROVE  /\ [old EXCEPT !.queue = q] \in Connection /\ [old EXCEPT !.queue = q].queue = q
               /\ [old EXCEPT !.queue = q].state = old.state /\ [old EXCEPT !.queue = q].filter = old.filter
               /\ [old EXCEPT !.queue = q].from = old.from /\ [old EXCEPT !.queue = q].sent = old.sent
    <3>1. old \in Connection
      BY <2>2 DEF old
    <3> QED
      BY <3>1 DEF Connection
  <2>4. Append(stream[s].queue, n) \in Seq(Nat)
    BY <1>0, <2>2 DEF Connection
  <2>5. CASE hit(s)
    BY <2>1, <2>2, <2>3, <2>4, <2>5 DEF old
  <2> QED
    BY <2>1, <2>2, <2>5
<1>4. LogTypes'
  <2>1. DOMAIN stream' = Streams /\ stream' = [s \in Streams |-> stream'[s]]
    BY DEF Log
  <2> QED
    BY <1>0, <1>1, <1>2, <1>3, <2>1 DEF LogInv, LogTypes
<1>5. Subscribed' /\ Begun'
  BY <1>0, <1>1, <1>3 DEF LogInv, Subscribed, Begun, Contains, Connection, Connected
<1>6. Queued'
  <2> SUFFICES ASSUME NEW s \in Streams, NEW i \in DOMAIN stream'[s].queue
               PROVE  stream'[s].queue[i] \in 1..n
    BY <1>1 DEF Queued
  <2>1. stream[s].queue \in Seq(Nat) /\ \A j \in DOMAIN stream[s].queue : stream[s].queue[j] \in 1..n
    BY <1>0, <1>3 DEF Connection, LogInv, Queued
  <2> HIDE DEF n, hit
  <2>2. n \in 1..n /\ n \in Nat
    BY <1>0 DEF n
  <2>3. CASE hit(s)
    <3>1. stream'[s].queue = Append(stream[s].queue, n)
      BY <1>3, <2>3
    <3> QED
      BY <2>1, <2>2, <3>1
  <2>4. CASE ~hit(s)
    BY <1>3, <2>1, <2>4
  <2> QED
    BY <2>3, <2>4
<1>7. ASSUME NEW s \in Streams, Connected(s)'
      PROVE  Complete(s)'
  <2>1. /\ Contains(callbacks, s) /\ Complete(s) /\ stream[s].from <= Len(logged)
        /\ stream[s].sent \in Seq(Nat) /\ stream[s].queue \in Seq(Nat) /\ stream[s].from \in Nat
    BY <1>3, <1>7 DEF LogInv, Subscribed, Begun, Connection, Connected
  <2>3. Due(s)' = Due(s) \cup (IF hit(s) THEN {n} ELSE {})
    BY <1>0, <1>1, <1>3, <2>1 DEF Due, Matches
  <2>4. \A m \in Due(s) : m < n
    BY <1>0 DEF Due
  <2>5. CASE hit(s)
    <3>1. Got(s)' = Append(Got(s), n) /\ Got(s) \in Seq(Nat)
      <4>1. Got(s)' = stream[s].sent \o Append(stream[s].queue, n)
        BY <1>3, <2>5 DEF Got
      <4>2. n \in Nat
        BY <1>0
      <4> HIDE DEF n
      <4> QED
        BY <2>1, <4>1, <4>2, EntryQueued DEF Got
    <3> HIDE DEF n
    <3>2. /\ DOMAIN Got(s)' = 1..Len(Got(s)) + 1 /\ DOMAIN Got(s) = 1..Len(Got(s)) /\ Len(Got(s)) \in Nat
          /\ Got(s)'[Len(Got(s)) + 1] = n /\ \A i \in 1..Len(Got(s)) : Got(s)'[i] = Got(s)[i]
      BY <1>0, <3>1, AppendProperties
    <3>3. \A i \in 1..Len(Got(s)) : Got(s)[i] \in Due(s)
      BY <2>1, <3>2 DEF Complete, Range
    <3>4. Range(Got(s)') = Range(Got(s)) \cup {n}
      BY <3>2 DEF Range
    <3>5. Range(Got(s)') = Due(s)'
      BY <2>1, <2>3, <2>5, <3>4 DEF Complete
    <3>6. \A i, j \in DOMAIN Got(s)' : i < j => Got(s)'[i] < Got(s)'[j]
      BY <2>1, <2>4, <3>2, <3>3 DEF Complete
    <3> QED
      BY <3>5, <3>6 DEF Complete, Range
  <2>6. CASE ~hit(s)
    BY <1>3, <2>1, <2>3, <2>6 DEF Complete, Got
  <2> QED
    BY <2>5, <2>6
<1> QED
  BY <1>4, <1>5, <1>6, <1>7 DEF LogInv

\* Every step preserves what is known of the logs.
LEMMA LogStep == LogInv /\ [Next]_vars => LogInv'
<1> SUFFICES ASSUME LogInv, [Next]_vars PROVE LogInv'
  OBVIOUS
<1> USE DEF actions, logs, world, config
<1>1. CASE UNCHANGED logs
  BY <1>1 DEF LogInv, LogTypes, Subscribed, Queued, Begun, Connected, Complete, Got, Due, Matches
<1>2. ASSUME NEW source \in Sources, Log(source) PROVE LogInv'
  BY <1>2, LogStays
<1>3. CASE ClearLogs
  <2>1. UNCHANGED <<logged, stream, callbacks>> /\ buffer' = <<>>
    BY <1>3 DEF ClearLogs
  <2>2. LogTypes'
    BY <2>1, DashboardAssumption DEF DashboardAssumption, LogInv, LogTypes
  <2> QED
    BY <2>1, <2>2 DEF LogInv, Subscribed, Queued, Begun, Complete, Got, Due, Matches, Connected
<1>0. stream \in [Streams -> Connection] /\ logged \in Seq(Sources) /\ callbacks \in Seq(Streams)
  BY DEF LogInv, LogTypes
<1>4. ASSUME NEW s \in Streams, NEW f \in Sources \cup {All}, Connect(s, f),
             stream' # [stream EXCEPT ![s].state = "closed"]
      PROVE  LogInv'
  <2> DEFINE new == [state |-> "sending", filter |-> f, from |-> Len(logged), queue |-> <<>>, sent |-> <<>>]
  <2>1. /\ UNCHANGED <<logged, buffer>> /\ new \in Connection
        /\ stream' = [stream EXCEPT ![s] = new] /\ callbacks' = Append(callbacks, s)
    BY <1>0, <1>4 DEF Connect, Connection
  <2>2. /\ new.state = "sending" /\ new.from = Len(logged) /\ new.queue = <<>> /\ new.sent = <<>>
    OBVIOUS
  <2> HIDE DEF new
  <2>3. /\ stream' \in [Streams -> Connection] /\ stream'[s] = new
        /\ \A t \in Streams \ {s} : stream'[t] = stream[t]
    BY <1>0, <2>1
  <2>4. LogTypes'
    BY <1>0, <2>1, <2>3 DEF LogInv, LogTypes
  <2>5. Subscribed'
    <3>1. callbacks'[Len(callbacks) + 1] = s /\ DOMAIN callbacks' = 1..Len(callbacks) + 1
          /\ DOMAIN callbacks = 1..Len(callbacks) /\ \A i \in DOMAIN callbacks : callbacks'[i] = callbacks[i]
      BY <1>0, <2>1
    <3> QED
      BY <1>0, <2>3, <2>2, <3>1, SMTT(30) DEF LogInv, Subscribed, Contains, Connected
  <2>6. Queued' /\ Begun'
    BY <1>0, <2>1, <2>2, <2>3 DEF LogInv, Queued, Begun
  <2>7. ASSUME NEW t \in Streams, Connected(t)' PROVE Complete(t)'
    <3>1. CASE t = s
      <4>1. Got(t)' = <<>>
        BY <2>2, <2>3, <3>1 DEF Got
      <4>2. Due(t)' = {}
        BY <1>0, <2>1, <2>2, <2>3, <3>1 DEF Due
      <4> QED
        BY <4>1, <4>2 DEF Complete, Range
    <3>2. CASE t # s
      BY <2>1, <2>3, <2>7, <3>2, StaysComplete DEF Connected
    <3> QED
      BY <3>1, <3>2
  <2> QED
    BY <2>4, <2>5, <2>6, <2>7 DEF LogInv
<1>5. ASSUME NEW s \in Streams, StreamEvent(s) PROVE LogInv'
  <2> DEFINE old == stream[s]
             new == [[old EXCEPT !.sent = Append(old.sent, Head(old.queue))] EXCEPT !.queue = Tail(old.queue)]
  <2>1. /\ UNCHANGED <<logged, buffer, callbacks>> /\ old.queue # <<>>
        /\ stream' = [stream EXCEPT ![s] = new]
    BY <1>0, <1>5 DEF StreamEvent
  <2>2. old \in Connection /\ old.queue \in Seq(Nat) /\ old.sent \in Seq(Nat)
    BY <1>0 DEF Connection
  <2>3. /\ Append(old.sent, Head(old.queue)) \o Tail(old.queue) = old.sent \o old.queue
        /\ Append(old.sent, Head(old.queue)) \in Seq(Nat) /\ Tail(old.queue) \in Seq(Nat)
        /\ \A i \in DOMAIN Tail(old.queue) : i + 1 \in DOMAIN old.queue /\ Tail(old.queue)[i] = old.queue[i + 1]
    BY <2>1, <2>2, EntrySent
  <2>4. /\ new \in Connection /\ new.state = old.state /\ new.filter = old.filter /\ new.from = old.from
        /\ new.sent = Append(old.sent, Head(old.queue)) /\ new.queue = Tail(old.queue)
    <3> HIDE DEF old
    <3> QED
      BY <2>2, <2>3 DEF Connection
  <2> HIDE DEF new
  <2>5. /\ stream' \in [Streams -> Connection] /\ stream'[s] = new
        /\ \A t \in Streams \ {s} : stream'[t] = stream[t]
    BY <1>0, <2>1, <2>4
  <2>6. LogTypes' /\ Subscribed' /\ Begun'
    BY <1>0, <2>1, <2>4, <2>5 DEF LogInv, LogTypes, Subscribed, Begun, Contains, Connected
  <2>7. Queued'
    <3> SUFFICES ASSUME NEW t \in Streams, NEW i \in DOMAIN stream'[t].queue
                 PROVE  stream'[t].queue[i] \in 1..Len(logged)
      BY <2>1 DEF Queued
    <3>1. CASE t = s
      BY <2>3, <2>4, <2>5, <3>1 DEF LogInv, Queued
    <3>2. CASE t # s
      BY <2>5, <3>2 DEF LogInv, Queued
    <3> QED
      BY <3>1, <3>2
  <2>8. ASSUME NEW t \in Streams, Connected(t)' PROVE Complete(t)'
    <3>1. CASE t = s
      BY <2>1, <2>3, <2>4, <2>5, <2>8, <3>1, StaysComplete DEF Connected
    <3>2. CASE t # s
      BY <2>1, <2>5, <2>8, <3>2, StaysComplete DEF Connected
    <3> QED
      BY <3>1, <3>2
  <2> QED
    BY <2>6, <2>7, <2>8 DEF LogInv
<1>6. ASSUME NEW s \in Streams, NEW state \in {"sending", "paused", "closed"},
             stream' = [stream EXCEPT ![s].state = state], UNCHANGED <<logged, buffer, callbacks>>,
             Connected(s) \/ state = "closed"
      PROVE  LogInv'
  <2> DEFINE old == stream[s]
             new == [old EXCEPT !.state = state]
  <2>1. stream' = [stream EXCEPT ![s] = new]
    BY <1>6
  <2>2. old \in Connection
    BY <1>0
  <2>4. /\ new \in Connection /\ new.state = state /\ new.filter = old.filter
        /\ new.from = old.from /\ new.queue = old.queue /\ new.sent = old.sent
    <3> HIDE DEF old
    <3> QED
      BY <2>2 DEF Connection
  <2> HIDE DEF new
  <2>5. /\ stream' \in [Streams -> Connection] /\ stream'[s] = new
        /\ \A t \in Streams \ {s} : stream'[t] = stream[t]
    BY <1>0, <2>1, <2>4
  <2>6. LogTypes' /\ Subscribed' /\ Begun' /\ Queued'
    BY <1>0, <1>6, <2>4, <2>5 DEF LogInv, LogTypes, Subscribed, Begun, Contains, Queued, Connected
  <2>8. ASSUME NEW t \in Streams, Connected(t)' PROVE Complete(t)'
    <3>1. Connected(t)
      BY <1>6, <2>4, <2>5, <2>8 DEF Connected
    <3> QED
      BY <1>6, <2>4, <2>5, <2>8, <3>1, StaysComplete
  <2> QED
    BY <2>6, <2>8 DEF LogInv
<1>8. ASSUME NEW s \in Streams, Pause(s) \/ Resume(s) \/ Disconnect(s) PROVE LogInv'
  BY <1>6, <1>8 DEF Pause, Resume, Disconnect, Connected
<1>9. ASSUME NEW s \in Streams, NEW f \in Sources \cup {All}, Connect(s, f) PROVE LogInv'
  <2>1. CASE stream' # [stream EXCEPT ![s].state = "closed"]
    BY <1>4, <1>9, <2>1
  <2>2. CASE stream' = [stream EXCEPT ![s].state = "closed"]
    <3>1. UNCHANGED <<logged, buffer>> /\ stream[s] \in Connection
      BY <1>0, <1>9 DEF Connect
    <3>2. stream'[s].state = "closed"
      BY <1>0, <2>2, <3>1 DEF Connection
    <3>3. UNCHANGED callbacks
      BY <1>0, <1>9, <3>2 DEF Connect
    <3> QED
      BY <1>6, <2>2, <3>1, <3>3
  <2> QED
    BY <2>1, <2>2
<1>7. CASE (\E c \in Components, a \in Actions : Execute(c, a)) \/ Handler \/ ClearHistory
         \/ (\E c \in Containers : Change(c) \/ DelayedRestart(c)) \/ UNCHANGED vars
  <2>1. UNCHANGED logs
    BY <1>7 DEF Execute, Handler, Unimplemented, Shell, FindContainer, RestartContainer, ReadStatus, ClearHistory,
       Change, DelayedRestart, vars
  <2> QED
    BY <1>1, <2>1
<1> QED
  BY <1>2, <1>3, <1>5, <1>7, <1>8, <1>9 DEF Next, Events

LEMMA LogStart == Init => LogInv
<1> SUFFICES ASSUME Init PROVE LogInv
  OBVIOUS
<1>1. NoStream \in Connection
  BY DEF NoStream, Connection
<1>2. logged = <<>> /\ buffer = <<>> /\ callbacks = <<>> /\ stream = [s \in Streams |-> NoStream]
  BY DEF Init
<1>3. \A s \in Streams : stream[s].state = "none" /\ stream[s].from = 0 /\ stream[s].queue = <<>>
  BY <1>2 DEF NoStream
<1> QED
  BY <1>1, <1>2, <1>3, DashboardAssumption DEF DashboardAssumption, LogInv, LogTypes, Subscribed, Queued, Begun, Connected, NoStream

LEMMA LogInductive == Spec => []LogInv
  BY LogStart, LogStep, PTL DEF Spec

\* What a connection was sent and what waits for it are the matching entries
\* logged since it was told that it is connected, each once and in order.
THEOREM NothingMissed == Spec => []NoGap
<1>1. LogInv => NoGap
  BY DEF LogInv, NoGap, Complete, Got, Due
<1> QED
  BY <1>1, LogInductive, PTL

\* One stream at most holds the loop, and no handler does beside it.
Holding == \A s \in Streams : stream[s].state = "sending" =>
             pc = "stream" /\ \A t \in Streams \ {s} : stream[t].state # "sending"

LEMMA HoldingStep == LogInv /\ Holding /\ [Next]_vars => Holding'
<1> SUFFICES ASSUME LogInv, Holding, [Next]_vars PROVE Holding'
  OBVIOUS
<1> USE DEF actions, logs, world, config
<1>0. stream \in [Streams -> Connection]
  BY DEF LogInv, LogTypes
<1>1. CASE UNCHANGED <<stream, pc>>
  BY <1>1 DEF Holding
<1>2. CASE Handler \/ \E c \in Components, a \in Actions : Execute(c, a)
  <2>1. UNCHANGED stream /\ pc # "stream"
    BY <1>2 DEF Handler, Unimplemented, Shell, FindContainer, RestartContainer, ReadStatus, Execute
  <2> QED
    BY <2>1 DEF Holding
<1>3. ASSUME NEW source \in Sources, Log(source) PROVE Holding'
  <2>1. pc = "free" /\ \A s \in Streams : stream'[s].state = stream[s].state
    BY <1>0, <1>3 DEF Log, Connection
  <2> QED
    BY <2>1 DEF Holding
<1>4. ASSUME NEW s \in Streams, StreamEvent(s) PROVE Holding'
  <2>1. UNCHANGED pc /\ \A t \in Streams : stream'[t].state = stream[t].state
    BY <1>0, <1>4 DEF StreamEvent, Connection
  <2> QED
    BY <2>1 DEF Holding
<1>5. ASSUME NEW s \in Streams, Pause(s) \/ Resume(s) \/ Disconnect(s) PROVE Holding'
  <2>1. \A t \in Streams \ {s} : stream'[t] = stream[t] /\ stream[t].state # "sending"
    BY <1>0, <1>5 DEF Pause, Resume, Disconnect, Holding
  <2>2. stream'[s].state = "sending" => pc' = "stream"
    BY <1>0, <1>5 DEF Pause, Resume, Disconnect, Connection
  <2> QED
    BY <2>1, <2>2 DEF Holding
<1>6. ASSUME NEW s \in Streams, NEW f \in Sources \cup {All}, Connect(s, f) PROVE Holding'
  <2>1. \A t \in Streams \ {s} : stream'[t] = stream[t] /\ stream[t].state # "sending"
    BY <1>0, <1>6 DEF Connect, Holding
  <2>2. stream'[s].state = "sending" => pc' = "stream"
    BY <1>0, <1>6 DEF Connect, Connection
  <2> QED
    BY <2>1, <2>2 DEF Holding
<1>7. CASE ClearHistory \/ ClearLogs \/ (\E c \in Containers : Change(c) \/ DelayedRestart(c)) \/ UNCHANGED vars
  <2>1. UNCHANGED <<stream, pc>>
    BY <1>7 DEF ClearHistory, ClearLogs, Change, DelayedRestart, vars
  <2> QED
    BY <1>1, <2>1
<1> QED
  BY <1>2, <1>3, <1>4, <1>5, <1>6, <1>7 DEF Next, Events

LEMMA HoldingInductive == Spec => []Holding
<1>1. Init => Holding
  BY DEF Init, NoStream, Holding
<1> QED
  BY <1>1, HoldingStep, LogInductive, PTL DEF Spec

\* Every variable stays in its domain, a handler works for an execution in
\* progress, and one stream at most holds the loop.
THEOREM DashboardTyped == Spec => []TypeOK
<1>1. ASSUME ActionInv, LogInv, Holding PROVE TypeOK
  <2>1. \A i \in DOMAIN executions : executions[i].state \in States
    <3>1. \A i \in DOMAIN executions : executions[i] \in Record
      BY <1>1, ElementOfSeq DEF ActionInv, ActionTypes
    <3> QED
      BY <3>1 DEF Record
  <2> QED
    BY <1>1, <2>1 DEF TypeOK, ActionInv, ActionTypes, Kinds, Executing, LogInv, LogTypes, Queued, Holding
<1> QED
  BY <1>1, ActionInductive, LogInductive, HoldingInductive, PTL

-----------------------------------------------------------------------------
(***************************************************************************)
(* The pages of GET /logs.                                                 *)
(***************************************************************************)

\* The buffer holds the newest entries.
Newest == LET n == Len(buffer) IN
  n <= Len(logged) /\ \A i \in 1..n : buffer[i] = Len(logged) - n + i

LEMMA NewestStep == LogInv /\ Newest /\ [Next]_vars => Newest'
<1> SUFFICES ASSUME LogInv, Newest, [Next]_vars PROVE Newest'
  OBVIOUS
<1> USE DEF actions, logs, world, config
<1>0. logged \in Seq(Sources) /\ buffer \in Seq(Nat) /\ Capacity \in Nat \ {0}
  BY DashboardAssumption DEF LogInv, LogTypes, DashboardAssumption
<1>1. CASE UNCHANGED <<logged, buffer>>
  BY <1>1 DEF Newest
<1>2. ASSUME NEW source \in Sources, Log(source) PROVE Newest'
  <2> DEFINE n == Len(buffer)
             kept == IF n = Capacity THEN Tail(buffer) ELSE buffer
  <2>1. /\ Len(logged') = Len(logged) + 1 /\ Len(logged) \in Nat /\ n \in Nat /\ n <= Len(logged)
        /\ buffer' = Append(kept, Len(logged) + 1)
    BY <1>0, <1>2 DEF Log, Buffered, Newest
  <2>2. /\ kept \in Seq(Nat) /\ Len(kept) <= n
        /\ \A i \in 1..Len(kept) : kept[i] = Len(logged) - Len(kept) + i
    <3>1. CASE n = Capacity
      <4>1. buffer # <<>>
        BY <1>0, <3>1
      <4>2. kept \in Seq(Nat) /\ Len(kept) = n - 1 /\ \A i \in 1..Len(kept) : kept[i] = buffer[i + 1]
        BY <1>0, <3>1, <4>1, HeadTailProperties
      <4> HIDE DEF kept
      <4> QED
        BY <2>1, <4>2 DEF Newest
    <3>2. CASE n # Capacity
      <4>1. kept = buffer
        BY <3>2
      <4> HIDE DEF kept
      <4> QED
        BY <1>0, <4>1 DEF Newest
    <3> QED
      BY <3>1, <3>2
  <2> HIDE DEF kept, n
  <2>3. /\ Len(buffer') = Len(kept) + 1 /\ buffer'[Len(kept) + 1] = Len(logged) + 1
        /\ \A i \in 1..Len(kept) : buffer'[i] = kept[i]
    BY <2>1, <2>2, AppendProperties
  <2> DEFINE k == Len(kept)
  <2>4. k \in Nat /\ k <= Len(logged) /\ Len(logged) \in Nat
    BY <2>1, <2>2
  <2>5. ASSUME NEW i \in 1..k + 1 PROVE buffer'[i] = Len(logged) + 1 - (k + 1) + i
    <3>1. CASE i = k + 1
      BY <2>1, <2>3, <2>4, <3>1
    <3>2. CASE i # k + 1
      <4>1. i \in 1..k /\ buffer'[i] = Len(logged) - k + i
        BY <2>2, <2>3, <2>4, <3>2
      <4>2. \A l, m \in Nat : (l + 1) - (m + 1) + i = l - m + i
        OBVIOUS
      <4> HIDE DEF k
      <4> QED
        BY <2>4, <4>1, <4>2
    <3> QED
      BY <3>1, <3>2
  <2>6. Len(logged') = Len(logged) + 1 /\ Len(buffer') = k + 1
    BY <2>1, <2>3
  <2> HIDE DEF k
  <2> QED
    BY <2>4, <2>5, <2>6 DEF Newest
<1>3. CASE ClearLogs
  BY <1>0, <1>3 DEF ClearLogs, Newest
<1>4. CASE \/ \E c \in Components, a \in Actions : Execute(c, a)
           \/ Handler \/ Events \/ ClearHistory \/ UNCHANGED vars
           \/ \E s \in Streams, f \in Sources \cup {All} : Connect(s, f)
           \/ \E c \in Containers : Change(c) \/ DelayedRestart(c)
  <2>1. UNCHANGED <<logged, buffer>>
    BY <1>4 DEF Execute, Handler, Unimplemented, Shell, FindContainer, RestartContainer, ReadStatus, ClearHistory,
       Change, DelayedRestart, vars, Events, StreamEvent, Pause, Resume, Connect, Disconnect
  <2> QED
    BY <1>1, <2>1
<1> QED
  BY <1>2, <1>3, <1>4 DEF Next

LEMMA NewestInductive == Spec => []Newest
<1>1. Init => Newest
  BY DEF Init, Newest
<1> QED
  BY <1>1, NewestStep, LogInductive, PTL DEF Spec

\* A list of lists is flattened from the left.
LEMMA FlattenUnfolds ==
  ASSUME NEW seqs, NEW n \in Nat \ {0}, Len(seqs) = n
  PROVE  \E f : /\ FlattenSeq(seqs) = f[n] /\ f[1] = seqs[1]
                /\ \A i \in 2..n : f[i] = f[i - 1] \o seqs[i]
<1> DEFINE next(f, i) == IF i = 1 THEN seqs[i] ELSE f[i - 1] \o seqs[i]
           S == {k \in Nat : \E f : \A i \in 1..n : i <= k => f[i] = next(f, i)}
<1>1. 0 \in S
  OBVIOUS
<1>2. ASSUME NEW k \in Nat, k \in S PROVE k + 1 \in S
  <2>1. PICK f : \A i \in 1..n : i <= k => f[i] = next(f, i)
    BY <1>2
  <2> DEFINE g == [i \in 1..n |-> IF i <= k THEN f[i] ELSE next(f, i)]
  <2>2. ASSUME NEW i \in 1..n, i <= k + 1 PROVE g[i] = next(g, i)
    <3>1. g[i] = next(f, i)
      BY <2>1
    <3>2. i # 1 => g[i - 1] = f[i - 1]
      BY <2>2
    <3> HIDE DEF g
    <3> QED
      BY <3>1, <3>2
  <2> HIDE DEF g, next
  <2> QED
    BY <2>2
<1>3. n \in S
  <2> HIDE DEF S
  <2>1. \A k \in Nat : k \in S
    BY <1>1, <1>2, SetInduction
  <2> QED
    BY <2>1
<1>4. PICK f : \A i \in 1..n : f[i] = next(f, i)
  <2> HIDE DEF next
  <2> QED
    BY <1>3
<1> DEFINE g == [i \in 1..n |-> f[i]]
           flatten[i \in 1..Len(seqs)] == IF i = 1 THEN seqs[i] ELSE flatten[i - 1] \o seqs[i]
<1>5. g = [i \in 1..n |-> IF i = 1 THEN seqs[i] ELSE g[i - 1] \o seqs[i]]
  <2>1. ASSUME NEW i \in 1..n PROVE g[i] = IF i = 1 THEN seqs[i] ELSE g[i - 1] \o seqs[i]
    <3>1. g[i] = next(f, i) /\ (i # 1 => g[i - 1] = f[i - 1])
      BY <1>4, SMTT(30)
    <3> HIDE DEF g
    <3> QED
      BY <3>1
  <2> HIDE DEF next
  <2> QED
    BY <2>1
<1>6. flatten = [i \in 1..n |-> IF i = 1 THEN seqs[i] ELSE flatten[i - 1] \o seqs[i]]
  <2> HIDE DEF g
  <2> QED
    BY <1>5
<1>7. FlattenSeq(seqs) = flatten[n]
  BY DEF FlattenSeq
<1> HIDE DEF flatten
<1>8. flatten[1] = seqs[1] /\ \A i \in 2..n : flatten[i] = flatten[i - 1] \o seqs[i]
  <2> DEFINE body(i) == IF i = 1 THEN seqs[i] ELSE flatten[i - 1] \o seqs[i]
  <2>1. \A i \in 1..n : flatten[i] = body(i)
    BY <1>6
  <2>2. 1 \in 1..n /\ (\A i \in 2..n : i \in 1..n /\ i # 1)
    OBVIOUS
  <2> QED
    BY <2>1, <2>2
<1> QED
  BY <1>7, <1>8

Ascends(s) == \A i, j \in DOMAIN s : i < j => s[i] < s[j]
Matching(source) == {n \in Len(logged) - Len(buffer) + 1 .. Len(logged) : source \in {All, logged[n]}}

LEMMA AscendsOn ==
  ASSUME NEW s \in Seq(Nat), Ascends(s), NEW x \in Nat, \A m \in Range(s) : m < x
  PROVE  /\ s \o <<x>> \in Seq(Nat) /\ Len(s \o <<x>>) = Len(s) + 1
         /\ Range(s \o <<x>>) = Range(s) \cup {x} /\ Ascends(s \o <<x>>)
<1> DEFINE t == s \o <<x>>
           n == Len(s)
<1>1. /\ n \in Nat /\ t \in Seq(Nat) /\ Len(t) = n + 1 /\ t[n + 1] = x
      /\ \A i \in 1..n : t[i] = s[i]
  BY ConcatProperties
<1>2. DOMAIN s = 1..n /\ DOMAIN t = 1..n + 1
  BY <1>1
<1> HIDE DEF t, n
<1>3. Range(t) = Range(s) \cup {x}
  BY <1>1, <1>2 DEF Range
<1>4. Ascends(t)
  <2> SUFFICES ASSUME NEW i \in DOMAIN t, NEW j \in DOMAIN t, i < j PROVE t[i] < t[j]
    BY DEF Ascends
  <2>1. i \in 1..n /\ s[i] \in Range(s)
    BY <1>1, <1>2 DEF Range
  <2>2. CASE j = n + 1
    BY <1>1, <2>1, <2>2
  <2>3. CASE j # n + 1
    BY <1>1, <1>2, <2>1, <2>3 DEF Ascends
  <2> QED
    BY <2>2, <2>3
<1> QED
  BY <1>1, <1>3, <1>4 DEF t, n

\* The filter keeps the matching entries and their order.
LEMMA SelectedMatches ==
  ASSUME LogInv, Newest, NEW source
  PROVE  /\ Selected(source) \in Seq(Nat) /\ Len(Selected(source)) <= Len(buffer)
         /\ Range(Selected(source)) = Matching(source) /\ Ascends(Selected(source))
<1> DEFINE n == Len(buffer)
           before == Len(logged) - n
           hit(m) == source \in {All, logged[m]}
           entries == [i \in 1..n |-> IF source \in {All, logged[buffer[i]]} THEN <<buffer[i]>> ELSE <<>>]
           upto(k) == {m \in before + 1 .. before + k : hit(m)}
           fits(s, k) == s \in Seq(Nat) /\ Len(s) <= k /\ Range(s) = upto(k) /\ Ascends(s)
<1>1. n \in Nat /\ before \in Nat /\ Len(logged) = before + n /\ \A i \in 1..n : buffer[i] = before + i
  BY DEF Newest, LogInv, LogTypes
<1>2. \A i \in 1..n : entries[i] = IF hit(before + i) THEN <<before + i>> ELSE <<>>
  BY <1>1
<1>3. Len(entries) = n /\ Selected(source) = FlattenSeq(entries)
  BY <1>1 DEF Selected
<1>4. fits(<<>>, 0)
  BY <1>1 DEF Range, Ascends
<1>5. CASE n = 0
  <2>1. Selected(source) = <<>>
    BY <1>3, <1>5 DEF FlattenSeq
  <2>2. Matching(source) = {}
    BY <1>1, <1>5 DEF Matching
  <2> QED
    BY <1>5, <2>1, <2>2 DEF Range, Ascends
<1>6. CASE n # 0
  <2>1. PICK f : /\ FlattenSeq(entries) = f[n] /\ f[1] = entries[1]
                 /\ \A i \in 2..n : f[i] = f[i - 1] \o entries[i]
    <3> HIDE DEF entries
    <3> QED
      BY <1>1, <1>3, <1>6, FlattenUnfolds
  <2> DEFINE part(k) == IF k = 0 THEN <<>> ELSE f[k]
             S == {k \in Nat : k <= n => fits(part(k), k)}
  <2>2. 0 \in S
    BY <1>4
  <2>3. ASSUME NEW k \in Nat, k \in S, k + 1 <= n PROVE fits(part(k + 1), k + 1)
    <3> DEFINE s == part(k)
               x == before + k + 1
    <3>1. fits(s, k)
      BY <1>1, <2>3
    <3>2. k + 1 \in 1..n /\ part(k + 1) = s \o entries[k + 1]
      <4>1. k + 1 \in 1..n
        BY <1>1, <2>3
      <4> HIDE DEF entries
      <4>2. CASE k = 0
        <5>1. entries[1] = <<>> \o entries[1]
          BY <1>1, <1>2, <4>1, <4>2 DEF entries
        <5> QED
          BY <2>1, <4>1, <4>2, <5>1
      <4>3. CASE k # 0
        <5>1. k + 1 \in 2..n /\ (k + 1) - 1 = k
          BY <4>1, <4>3
        <5>2. \A j : j = (k + 1) - 1 => f[k + 1] = f[j] \o entries[k + 1]
          BY <2>1, <5>1
        <5>3. f[k + 1] = f[k] \o entries[k + 1]
          BY <5>1, <5>2
        <5>4. k + 1 # 0
          OBVIOUS
        <5>5. part(k + 1) = f[k + 1] /\ s = f[k]
          BY <4>3, <5>4
        <5> HIDE DEF part, s
        <5> QED
          BY <4>1, <5>3, <5>5
      <4> QED
        BY <4>2, <4>3
    <3>3. entries[k + 1] = IF hit(x) THEN <<x>> ELSE <<>>
      BY <1>1, <1>2, <3>2
    <3>4. upto(k + 1) = upto(k) \cup (IF hit(x) THEN {x} ELSE {}) /\ \A m \in upto(k) : m < x
      BY <1>1
    <3> HIDE DEF s, entries, upto, hit, part, S
    <3>5. x \in Nat
      BY <1>1
    <3>6. CASE hit(x)
      <4>1. part(k + 1) = s \o <<x>> /\ upto(k + 1) = upto(k) \cup {x}
        BY <3>2, <3>3, <3>4, <3>6
      <4> HIDE DEF x
      <4>2. /\ s \o <<x>> \in Seq(Nat) /\ Len(s \o <<x>>) = Len(s) + 1
            /\ Range(s \o <<x>>) = Range(s) \cup {x} /\ Ascends(s \o <<x>>)
        BY <3>1, <3>4, <3>5, AscendsOn
      <4>3. Len(s) + 1 <= k + 1
        BY <3>1
      <4> QED
        BY <3>1, <4>1, <4>2, <4>3
    <3>7. CASE ~hit(x)
      <4>1. part(k + 1) = s \o <<>> /\ upto(k + 1) = upto(k)
        BY <3>2, <3>3, <3>4, <3>7
      <4>2. s \o <<>> = s
        BY <3>1, ConcatEmptySeq
      <4> QED
        BY <3>1, <4>1, <4>2
    <3> QED
      BY <3>6, <3>7
  <2>4. \A k \in Nat : k \in S => k + 1 \in S
    <3> HIDE DEF fits, part
    <3> QED
      BY <2>3
  <2>5. n \in S
    <3> HIDE DEF S
    <3>1. \A k \in Nat : k \in S
      BY <2>2, <2>4, SetInduction
    <3> QED
      BY <1>1, <3>1
  <2>6. fits(f[n], n)
    <3> HIDE DEF fits
    <3> QED
      BY <1>1, <1>6, <2>5
  <2>7. upto(n) = Matching(source)
    BY <1>1, SMTT(30) DEF Matching
  <2> HIDE DEF entries
  <2> QED
    BY <1>3, <2>1, <2>6, <2>7
<1> QED
  BY <1>5, <1>6

\* The pages follow each other without a gap.
LEMMA PagesJoin ==
  ASSUME NEW s \in Seq(Nat), NEW n \in Nat \ {0}, NEW limit \in Nat \ {0}, Len(s) <= n
  PROVE  FlattenSeq([i \in 1..n |-> Slice(s, (i - 1) * limit, limit)]) = s
<1> DEFINE len == Len(s)
           from(i) == (i - 1) * limit
           to(i) == IF from(i) + limit < len THEN from(i) + limit ELSE len
           pages == [i \in 1..n |-> Slice(s, from(i), limit)]
<1>1. len \in Nat /\ \A i \in 1..n : from(i) \in Nat /\ from(i) + limit \in Nat /\ to(i) \in 0..len
  OBVIOUS
<1>2. from(1) = 0 /\ \A i \in 2..n : from(i) = from(i - 1) + limit
  OBVIOUS
<1>3. from(n) + limit >= n
  <2>1. n * limit >= n
    OBVIOUS
  <2>2. from(n) + limit = n * limit
    OBVIOUS
  <2> QED
    BY <2>1, <2>2
<1>4. \A i \in 1..n : pages[i] = SubSeq(s, from(i) + 1, to(i))
  BY DEF Slice
<1> HIDE DEF from
<1>5. Len(pages) = n
  OBVIOUS
<1>6. PICK f : /\ FlattenSeq(pages) = f[n] /\ f[1] = pages[1]
               /\ \A i \in 2..n : f[i] = f[i - 1] \o pages[i]
  <2> HIDE DEF pages
  <2> QED
    BY <1>5, FlattenUnfolds
<1> HIDE DEF pages
<1> DEFINE S == {k \in Nat : k + 1 <= n => f[k + 1] = SubSeq(s, 1, to(k + 1))}
<1>7. 0 \in S
  <2> HIDE DEF to
  <2>0. 1 \in 1..n
    OBVIOUS
  <2>1. f[1] = SubSeq(s, from(1) + 1, to(1)) /\ from(1) + 1 = 1
    <3>1. f[1] = pages[1] /\ pages[1] = SubSeq(s, from(1) + 1, to(1))
      BY <1>4, <1>6, <2>0
    <3>2. from(1) + 1 = 1
      BY <1>2
    <3> QED
      BY <3>1, <3>2
  <2>2. f[1] = SubSeq(s, 1, to(1))
    BY <2>1
  <2>3. 0 + 1 = 1
    OBVIOUS
  <2> QED
    BY <2>2, <2>3
<1>8. ASSUME NEW k \in Nat, k \in S PROVE k + 1 \in S
  <2> SUFFICES ASSUME k + 2 <= n PROVE f[k + 2] = SubSeq(s, 1, to(k + 2))
    OBVIOUS
  <2> DEFINE a == to(k + 1)
             b == to(k + 2)
             p == from(k + 2)
  <2>1. k + 1 \in 1..n /\ k + 2 \in 2..n /\ k + 2 \in 1..n /\ (k + 2) - 1 = k + 1
    OBVIOUS
  <2>2. f[k + 1] = SubSeq(s, 1, a)
    BY <1>8
  <2>3. f[k + 2] = f[k + 1] \o pages[k + 2]
    <3>1. \A j : j = (k + 2) - 1 => f[k + 2] = f[j] \o pages[k + 2]
      BY <1>6, <2>1
    <3> QED
      BY <2>1, <3>1
  <2>4. pages[k + 2] = SubSeq(s, p + 1, b)
    BY <1>4, <2>1
  <2>5. p \in Nat /\ p = from(k + 1) + limit /\ a \in 0..len /\ b \in 0..len
    <3>1. \A j : j = (k + 2) - 1 => from(k + 2) = from(j) + limit
      BY <1>2, <2>1
    <3>2. from(k + 1) \in Nat /\ from(k + 2) \in Nat /\ to(k + 1) \in 0..len /\ to(k + 2) \in 0..len
      BY <1>1, <2>1
    <3> QED
      BY <2>1, <3>1, <3>2
  <2>6. a = (IF p < len THEN p ELSE len) /\ b = IF p + limit < len THEN p + limit ELSE len
    BY <2>5
  <2> HIDE DEF a, b, p
  <2>7. SubSeq(s, 1, a) \o SubSeq(s, p + 1, b) = SubSeq(s, 1, b)
    <3>1. CASE p < len
      <4>1. a = p /\ a <= b /\ b <= len
        <5>1. b \in {p + limit, len} /\ p \in Nat /\ limit \in Nat /\ len \in Nat
          BY <1>1, <2>5, <2>6
        <5> HIDE DEF len
        <5> QED
          BY <2>6, <3>1, <5>1
      <4>2. 1 \in 1..Len(s) + 1 /\ a \in 1 - 1 .. Len(s) /\ b \in a .. Len(s)
        BY <1>1, <2>5, <4>1
      <4>3. SubSeq(s, 1, a) \o SubSeq(s, a + 1, b) = SubSeq(s, 1, b)
        BY <4>2, ConcatAdjacentSubSeq
      <4> QED
        BY <4>1, <4>3
    <3>2. CASE ~(p < len)
      <4>0. len \in Nat /\ p \in Nat /\ limit \in Nat
        BY <1>1, <2>5
      <4> HIDE DEF len
      <4>1. a = len /\ b = len /\ b < p + 1
        BY <2>6, <3>2, <4>0
      <4>2. SubSeq(s, p + 1, b) = <<>>
        <5>1. p + 1 \in Int /\ b \in Int /\ p + 1 > b
          BY <4>0, <4>1
        <5> QED
          BY <5>1, SubSeqEmpty
      <4>3. SubSeq(s, 1, a) = s
        BY <4>1, SubSeqFull DEF len
      <4> QED
        BY <4>1, <4>2, <4>3, ConcatEmptySeq
    <3> QED
      BY <3>1, <3>2
  <2> QED
    BY <2>2, <2>3, <2>4, <2>7 DEF b
<1>9. f[n] = SubSeq(s, 1, to(n))
  <2>1. \A k \in Nat : k \in S
    <3> HIDE DEF S
    <3> QED
      BY <1>7, <1>8, SetInduction
  <2>2. n - 1 \in S /\ (n - 1) + 1 = n
    <3>1. n - 1 \in Nat /\ (n - 1) + 1 = n
      OBVIOUS
    <3> HIDE DEF S
    <3> QED
      BY <2>1, <3>1
  <2> QED
    BY <2>2
<1>10. to(n) = len
  BY <1>1, <1>3
<1>11. SubSeq(s, 1, len) = s
  BY SubSeqFull
<1> QED
  BY <1>6, <1>9, <1>10, <1>11 DEF pages, from

\* The pages of GET /logs hold the matching ones of the newest entries, each once
\* and oldest first, whatever their size is and however often the buffer, full
\* or cleared, has let entries go.
THEOREM PagesComplete == Spec => []Pages
<1>1. ASSUME LogInv, Newest, NEW source \in Sources \cup {All}, NEW limit \in 1..Capacity
      PROVE  FlattenSeq([i \in 1..Capacity |-> GetLogs(source, (i - 1) * limit, limit)]) = Selected(source)
  <2> DEFINE s == Selected(source)
  <2>1. s \in Seq(Nat) /\ Len(s) <= Len(buffer) /\ Len(buffer) <= Capacity /\ Len(buffer) \in Nat
    BY <1>1, SelectedMatches DEF LogInv, LogTypes
  <2> HIDE DEF s
  <2>2. Capacity \in Nat \ {0} /\ limit \in Nat \ {0} /\ Len(s) <= Capacity
    BY <2>1, DashboardAssumption DEF DashboardAssumption
  <2>3. FlattenSeq([i \in 1..Capacity |-> Slice(s, (i - 1) * limit, limit)]) = s
    BY <2>1, <2>2, PagesJoin
  <2> QED
    BY <2>3 DEF GetLogs, s
<1>2. LogInv /\ Newest => Pages
  <2> SUFFICES ASSUME LogInv, Newest, NEW source \in Sources \cup {All}, NEW limit \in 1..Capacity
               PROVE  LET got == FlattenSeq([i \in 1..Capacity |-> GetLogs(source, (i - 1) * limit, limit)])
                      IN Range(got) = Matching(source) /\ Ascends(got)
    BY DEF Pages, Matching, Ascends
  <2>1. Range(Selected(source)) = Matching(source) /\ Ascends(Selected(source))
    BY SelectedMatches
  <2> QED
    BY <1>1, <2>1
<1> QED
  BY <1>2, LogInductive, NewestInductive, PTL
================================================================================
