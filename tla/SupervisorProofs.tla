-------------------------- MODULE SupervisorProofs --------------------------
(***************************************************************************)
(* Proofs about Supervisor, for any set of registered and available        *)
(* services, any callers and any channel buffer: its safety properties,    *)
(* and the account of which caller waits for which command.                *)
(***************************************************************************)
EXTENDS Supervisor, TLAPS

\* The MQTT clients and the cloud gateway cannot be restarted: their start has
\* taken channel ends that their stop does not give back, so that a restart of a
\* running one always fails, and only for that reason.
ClientRunsOnce ==
    /\ answer.op = "Restart" /\ answer.service \in OneShot
    /\ answer.was = "Running"
    => answer.result = "consumed"

\* A service that was not registered never gets a status or a handle.
RegisteredInv == \A s \in ServiceId \ Registered : statuses[s] = "None" /\ ~held[s]

\* stop() of the broker waits for its process.
BrokerInv == live["Mosquitto"] # "closing"

\* While start() runs, the status is Starting.
SpawnInv == pc = "spawn" => statuses[command.service] = "Starting"

\* How far a restart of a running service has come.
RestartInv ==
    command.op = "Restart" =>
        /\ pc = "stop" => statuses[command.service] = "Running"
        /\ pc = "start" /\ was = "Running" =>
             statuses[command.service] = "Stopped" /\ ~held[command.service]
        /\ pc = "spawn" /\ was = "Running" => ~held[command.service]

\* A one-shot service that runs, or that a restart has just stopped, has given
\* up its channel ends.
ConsumedInv ==
    /\ \A s \in OneShot : statuses[s] = "Running" => ~channels[s]
    /\ command.op = "Restart" /\ was = "Running" /\ pc \in {"start", "spawn"} =>
           (command.service \in OneShot => ~channels[command.service])

\* What the shutdown has got through is stopped, and without a handle.
ShutdownInv ==
    /\ pc = "shutdown" => \A s \in Registered \ left : live[s] # "up" /\ ~held[s]
    /\ pc = "done" => \A s \in ServiceId : live[s] # "up" /\ ~held[s]

IInv ==
    /\ TypeOK
    /\ RegisteredInv
    /\ BrokerInv
    /\ LiveIsReported
    /\ RunningIsHeld
    /\ StartingIsTransient
    /\ SpawnInv
    /\ RestartInv
    /\ BrokerRestarts
    /\ ConsumedInv
    /\ ClientRunsOnce
    /\ ShutdownInv

\* The fields of a command.
LEMMA CommandFields ==
    ASSUME NEW c \in Command
    PROVE  c.op \in Operations /\ c.service \in ServiceId /\ c.caller \in Callers \cup {NoCaller}
BY DEF Command

\* The supervisor without a command, and between two answers.
LEMMA Idle ==
    /\ NoCommand \in Command /\ NoCommand.op = "Status" /\ NoCommand.caller = NoCaller
    /\ NoAnswer \in [op : Operations, service : ServiceId, was : Status, result : Results]
    /\ NoAnswer.op = "Status"
BY DEF NoCommand, NoAnswer, Command, Operations, ServiceId, Status, Results

\* Giving up a command only changes whose it is.
LEMMA AbandonedFacts ==
    ASSUME NEW cmd \in Command, NEW c \in Callers
    PROVE  /\ Abandoned(cmd, c) \in Command
           /\ Abandoned(cmd, c).op = cmd.op /\ Abandoned(cmd, c).service = cmd.service
           /\ Abandoned(cmd, c).caller = IF cmd.caller = c THEN NoCaller ELSE cmd.caller
BY DEF Abandoned, Command

\* Taking a command from a non-empty channel.
LEMMA QueueType ==
    ASSUME NEW S, NEW q \in Seq(S), q # <<>>
    PROVE  Head(q) \in S /\ Tail(q) \in Seq(S)
OBVIOUS

\* The fields of an answer, and its type.
LEMMA AnswerFields ==
    ASSUME NEW op \in Operations, NEW s \in ServiceId, NEW w \in Status,
           NEW result \in Results
    PROVE  LET a == [op |-> op, service |-> s, was |-> w, result |-> result]
           IN  /\ a \in [op : Operations, service : ServiceId, was : Status,
                         result : Results]
               /\ a.op = op /\ a.service = s /\ a.was = w /\ a.result = result
OBVIOUS

\* What a reply does to the supervisor's variables and the caller's.
ReplyEffect(result) ==
    /\ answer' \in [op : Operations, service : ServiceId, was : Status, result : Results]
    /\ answer'.op = command.op /\ answer'.service = command.service
    /\ answer'.was = was /\ answer'.result = result
    /\ pc' = "idle" /\ command' = NoCommand /\ was' = "None"
    /\ command' \in Command /\ command'.op = "Status"
    /\ waiting' \subseteq Callers

\* Sending a result has that effect.
LEMMA ReplyType ==
    ASSUME TypeOK, NEW result \in Results, Reply(result)
    PROVE  ReplyEffect(result)
<1>1. command.op \in Operations /\ command.service \in ServiceId
  BY CommandFields DEF TypeOK
<1> QED
  BY <1>1, AnswerFields, Idle DEF TypeOK, Reply, ReplyEffect

\* The supervisor starts in the invariant.
LEMMA InitIInv == Init => IInv
<1> SUFFICES ASSUME Init PROVE IInv
  OBVIOUS
<1> USE SupervisorAssumption DEF Init
<1>1. TypeOK
  <2>1. queue \in Seq(Command)
    OBVIOUS
  <2>2. /\ answer \in [op : Operations, service : ServiceId, was : Status, result : Results]
        /\ command \in Command
    BY Idle
  <2>3. statuses \in [ServiceId -> Status]
    BY DEF Status
  <2>4. channels \in [ServiceId -> BOOLEAN] /\ held \in [ServiceId -> BOOLEAN]
    OBVIOUS
  <2> QED
    BY <2>1, <2>2, <2>3, <2>4 DEF TypeOK, Status
<1>2. /\ RegisteredInv /\ BrokerInv /\ LiveIsReported /\ RunningIsHeld
      /\ StartingIsTransient
  BY Zenon DEF RegisteredInv, BrokerInv, ServiceId, LiveIsReported,
               RunningIsHeld, StartingIsTransient
<1>3. SpawnInv /\ RestartInv /\ BrokerRestarts /\ ShutdownInv
  BY DEF SpawnInv, RestartInv, BrokerRestarts, ShutdownInv, NoCommand, NoAnswer
<1>4. ConsumedInv /\ ClientRunsOnce
  BY DEF ConsumedInv, ClientRunsOnce, NoCommand, NoAnswer, OneShot, ServiceId
<1> QED
  BY <1>1, <1>2, <1>3, <1>4 DEF IInv

\* Every command, every task's end and the broker's death keep it.
LEMMA NextIInv == IInv /\ [Next]_vars => IInv'
<1> SUFFICES ASSUME IInv, [Next]_vars PROVE IInv'
  OBVIOUS
<1> USE SupervisorAssumption
<1>0. /\ TypeOK /\ RegisteredInv /\ BrokerInv /\ LiveIsReported /\ RunningIsHeld
      /\ StartingIsTransient /\ SpawnInv /\ RestartInv /\ BrokerRestarts /\ ShutdownInv
      /\ ConsumedInv /\ ClientRunsOnce
      /\ OneShot \subseteq ServiceId /\ "Mosquitto" \in ServiceId
      /\ command.op \in Operations /\ command.service \in ServiceId
      /\ NoAnswer \in [op : Operations, service : ServiceId, was : Status, result : Results]
      /\ NoAnswer.op = "Status"
  BY CommandFields, Idle DEF IInv, TypeOK, OneShot, ServiceId
<1> USE <1>0 DEF IInv, TypeOK, RegisteredInv, BrokerInv, LiveIsReported, RunningIsHeld,
            StartingIsTransient, SpawnInv, RestartInv, BrokerRestarts, ShutdownInv,
            ConsumedInv, ClientRunsOnce, serviceVars, callerVars
<1>1. ASSUME NEW c \in Callers, NEW op \in Operations, NEW s \in Requested, Send(c, op, s)
      PROVE  IInv'
  <2>1. [op |-> op, service |-> s, caller |-> c] \in Command
    BY DEF Command
  <2>2. TypeOK'
    BY SMTT(40), <1>1, <2>1 DEF Send
  <2>3. UNCHANGED <<serviceVars, pc, command, was, left>> /\ answer' = NoAnswer
    BY <1>1 DEF Send
  <2> QED
    BY <2>2, <2>3
<1>1a. ASSUME NEW c \in Callers, GiveUp(c)
       PROVE  IInv'
  <2>1. /\ command' = Abandoned(command, c) /\ waiting' = waiting \ {c}
        /\ queue' = [i \in DOMAIN queue |-> Abandoned(queue[i], c)]
        /\ UNCHANGED <<serviceVars, open, pc, was, left>> /\ answer' = NoAnswer
    BY <1>1a DEF GiveUp
  <2>2. /\ command' \in Command /\ command'.op = command.op
        /\ command'.service = command.service
    BY <2>1, AbandonedFacts
  <2>3. queue' \in Seq(Command)
    <3>1. DOMAIN queue = 1 .. Len(queue) /\ Len(queue) \in Nat
          /\ \A i \in 1 .. Len(queue) : queue[i] \in Command
      OBVIOUS
    <3>2. \A i \in 1 .. Len(queue) : Abandoned(queue[i], c) \in Command
      BY Zenon, <3>1, AbandonedFacts
    <3> QED
      BY <2>1, <3>1, <3>2
  <2>4. TypeOK'
    BY <2>1, <2>2, <2>3
  <2> QED
    BY <2>1, <2>2, <2>4
<1>2. CASE DropHandles
  <2>1. TypeOK'
    BY Zenon, <1>2 DEF DropHandles
  <2>2. UNCHANGED <<serviceVars, pc, command, was, left>> /\ answer' = NoAnswer
    BY <1>2 DEF DropHandles
  <2> QED
    BY <2>1, <2>2
<1>3. ASSUME NEW s \in ServiceId, TaskEnds(s)
      PROVE  IInv'
  BY <1>3 DEF TaskEnds
<1>4. CASE BrokerDies
  BY SMTT(40), <1>4 DEF BrokerDies, ServiceId
<1>5. CASE Receive
  <2>1. Head(queue) \in Command /\ Tail(queue) \in Seq(Command)
    BY <1>5, QueueType DEF Receive
  <2>2. Head(queue).op \in Operations /\ Head(queue).service \in ServiceId
    BY <2>1, CommandFields
  <2> QED
    BY <1>5, <2>1, <2>2 DEF Receive
<1>6. CASE GetStatus
  <2>1. "ok" \in Results
    BY Zenon DEF Results
  <2>2. ReplyEffect("ok")
    BY <1>6, <2>1, ReplyType DEF GetStatus
  <2> QED
    BY <1>6, <2>2 DEF GetStatus, ReplyEffect, Status
<1>7. CASE HandleStartRefused
  <2>1. "refused" \in Results
    BY Zenon DEF Results
  <2>2. ReplyEffect("refused")
    BY <1>7, <2>1, ReplyType DEF HandleStartRefused
  <2> QED
    BY <1>7, <2>2 DEF HandleStartRefused, RefusesStart, ReplyEffect, Status
<1>8. CASE HandleStart
  BY <1>8 DEF HandleStart, RefusesStart, Status
<1>9. ASSUME NEW result \in Results, ServiceStart(result)
      PROVE  IInv'
  <2>1. ReplyEffect(result)
    BY <1>9, ReplyType DEF ServiceStart
  <2>2. /\ result = "ok" => HoldsAfter(result)
        /\ command.service = "Mosquitto" /\ ~held[command.service] =>
             result \in {"ok", "failed"}
    BY Zenon, <1>9 DEF ServiceStart, StartResults, HoldsAfter, OneShot
  <2>3. TypeOK'
    BY Zenon, <1>9, <2>1 DEF ServiceStart, StatusAfterStart, HoldsAfter, Status, ReplyEffect
  <2>4. LiveIsReported' /\ RunningIsHeld'
    BY ZenonT(40), <1>9, <2>1, <2>2 DEF ServiceStart, StatusAfterStart, ReplyEffect
  <2>5. StartingIsTransient' /\ RegisteredInv' /\ BrokerInv'
    BY <1>9, <2>1 DEF ServiceStart, StatusAfterStart, ReplyEffect
  <2>6. SpawnInv' /\ RestartInv' /\ ShutdownInv'
    BY <1>9, <2>1 DEF ServiceStart, StatusAfterStart, ReplyEffect
  <2>7. BrokerRestarts'
    BY <1>9, <2>1, <2>2 DEF ServiceStart, StatusAfterStart, ReplyEffect
  <2>8. ConsumedInv'
    BY Zenon, <1>9, <2>1 DEF ServiceStart, StatusAfterStart, ReplyEffect
  <2>9. ClientRunsOnce'
    <3>1. command.op = "Restart" /\ command.service \in OneShot /\ was = "Running"
            => result = "consumed"
      BY Zenon, <1>9 DEF ServiceStart, StartResults, OneShot
    <3> QED
      BY <2>1, <3>1 DEF ReplyEffect
  <2> QED
    BY <2>3, <2>4, <2>5, <2>6, <2>7, <2>8, <2>9
<1>10. CASE HandleStopRefused
  <2>1. command.op # "Restart"
    BY Zenon, <1>10 DEF HandleStopRefused
  <2>2. PICK result \in {"refused", "not running"} : Reply(result)
    BY Zenon, <1>10, <2>1 DEF HandleStopRefused, AfterStop
  <2>3. result \in Results
    BY Zenon DEF Results
  <2>4. ReplyEffect(result)
    BY Zenon, <2>2, <2>3, ReplyType
  <2> QED
    BY Zenon, <1>10, <2>1, <2>4 DEF HandleStopRefused, ReplyEffect, Status
<1>11. CASE HandleStop
  <2>1. /\ LiveAfterStop(command.service) \in {"none", "closing"}
        /\ command.service = "Mosquitto" => LiveAfterStop(command.service) = "none"
    BY DEF LiveAfterStop
  <2>2. /\ live' = [live EXCEPT ![command.service] = LiveAfterStop(command.service)]
        /\ held' = [held EXCEPT ![command.service] = FALSE]
        /\ statuses' = [statuses EXCEPT ![command.service] = "Stopped"]
        /\ pc = "stop" /\ statuses[command.service] # "None"
        /\ UNCHANGED <<channels, queue, open, left>>
        /\ AfterStop("ok")
    BY <1>11 DEF HandleStop, ServiceStop
  <2>3. CASE command.op = "Restart"
    BY <2>1, <2>2, <2>3 DEF AfterStop, Status
  <2>4. CASE command.op # "Restart"
    <3>1. Reply("ok") /\ "ok" \in Results
      BY Zenon, <2>2, <2>4 DEF AfterStop, Results
    <3>2. ReplyEffect("ok")
      BY <3>1, ReplyType
    <3> QED
      BY <2>1, <2>2, <2>4, <3>2 DEF ReplyEffect, Status
  <2> QED
    BY <2>3, <2>4
<1>12. CASE Shutdown
  BY <1>12 DEF Shutdown
<1>13. ASSUME NEW s \in ServiceId, ShutdownStop(s)
       PROVE  IInv'
  <2>1. /\ LiveAfterStop(s) \in {"none", "closing"}
        /\ s = "Mosquitto" => LiveAfterStop(s) = "none"
    BY DEF LiveAfterStop
  <2> QED
    BY <1>13, <2>1 DEF ShutdownStop, ServiceStop
<1>14. CASE ShutdownDone
  BY <1>14 DEF ShutdownDone
<1>15. CASE UNCHANGED vars
  BY <1>15 DEF vars
<1> QED
  BY Zenon, <1>1, <1>1a, <1>2, <1>3, <1>4, <1>5, <1>6, <1>7, <1>8, <1>9, <1>10, <1>11, <1>12,
     <1>13, <1>14, <1>15
     DEF Next, Carry, Environment

\* The invariant holds always.
LEMMA Invariance == Spec => []IInv
BY InitIInv, NextIInv, PTL DEF Spec

\* Statuses, handles and the command channel keep their types.
THEOREM TypeCorrect == Spec => []TypeOK
BY Invariance, PTL DEF IInv

\* handle_start and handle_stop leave no task running without a handle to stop
\* it or under a status other than Running.
THEOREM NoStrayTask == Spec => []LiveIsReported
BY Invariance, PTL DEF IInv

\* A service reported Running can be stopped.
THEOREM RunningStoppable == Spec => []RunningIsHeld
BY Invariance, PTL DEF IInv

\* No answer is given while a status is Starting.
THEOREM StartingUnseen == Spec => []StartingIsTransient
BY Invariance, PTL DEF IInv

\* handle_restart brings a running broker back unless the spawn itself fails.
THEOREM BrokerRestartable == Spec => []BrokerRestarts
BY Invariance, PTL DEF IInv

\* start() of the MQTT clients and of the cloud gateway moves their channel ends
\* into the task, so handle_restart stops a running one and cannot start it.
THEOREM ClientNotRestartable == Spec => []ClientRunsOnce
BY Invariance, PTL DEF IInv

\* The loop that ends the supervisor's task stops every service, whatever
\* commands were queued when the last handle went and whichever stops fail.
THEOREM ShutdownComplete == Spec => []ShutdownStopsAll
<1>1. IInv => ShutdownStopsAll
  BY DEF IInv, TypeOK, ShutdownInv, BrokerInv, ShutdownStopsAll, ServiceId
<1> QED
  BY <1>1, Invariance, PTL
-----------------------------------------------------------------------------
(***************************************************************************)
(* The callers.  That every command is answered is a liveness property;    *)
(* the safety half of it is that no command is lost, doubled or kept past  *)
(* its answer, and that the loop never ends with a caller still waiting.   *)
(***************************************************************************)
Carrying == pc \in {"start", "spawn", "stop"}

Queued(c) == \E i \in DOMAIN queue : queue[i].caller = c

\* A caller waits exactly while its one command is in the channel or is being
\* carried out; what it gave up is no longer its own.
OneCommandPerCaller ==
    /\ \A c \in Callers : c \in waiting <=> Queued(c) \/ command.caller = c
    /\ \A i, j \in DOMAIN queue :
          queue[i].caller = queue[j].caller /\ queue[i].caller # NoCaller => i = j
    /\ \A i \in DOMAIN queue :
          queue[i].caller # NoCaller => queue[i].caller # command.caller

\* Once the command loop has ended no caller is left waiting, and none can come.
NobodyAbandoned == pc \in {"shutdown", "done"} => ~open /\ waiting = {} /\ queue = <<>>

CallersInv ==
    /\ OneCommandPerCaller
    /\ NobodyAbandoned
    /\ ~Carrying => command.caller = NoCaller
    /\ ~open => waiting = {}

\* Reply leaves the channel alone, and only the caller of the command goes on.
LEMMA RepliedCaller ==
    ASSUME TypeOK, CallersInv, Carrying, NEW result, Reply(result), UNCHANGED <<queue, open>>
    PROVE  CallersInv'
<1>1. /\ command'.caller = NoCaller /\ pc' = "idle"
      /\ waiting' = waiting \ {command.caller} /\ queue' = queue /\ open' = open
  BY Idle DEF Reply
<1>2. \A c \in Callers : c # NoCaller
  BY SupervisorAssumption
<1>3. \A c \in Callers : c \in waiting' <=> Queued(c)
  BY <1>1, <1>2 DEF CallersInv, OneCommandPerCaller, Queued
<1>4. OneCommandPerCaller'
  BY <1>1, <1>2, <1>3 DEF CallersInv, OneCommandPerCaller, Queued
<1> QED
  BY <1>1, <1>4 DEF CallersInv, NobodyAbandoned, Carrying

\* A step that leaves the callers and the command alone.
LEMMA CallersKept ==
    ASSUME CallersInv, UNCHANGED <<queue, waiting, open, command>>,
           Carrying' <=> Carrying, pc' \in {"shutdown", "done"} => pc = pc' \/ pc = "shutdown"
    PROVE  CallersInv'
BY DEF CallersInv, OneCommandPerCaller, NobodyAbandoned, Queued, Carrying

\* Every action keeps the account of who waits for what.
LEMMA CallersStep == IInv /\ CallersInv /\ [Next]_vars => CallersInv'
<1> SUFFICES ASSUME IInv, CallersInv, [Next]_vars PROVE CallersInv'
  OBVIOUS
<1>0. TypeOK
  BY DEF IInv
<1>1. ASSUME NEW c \in Callers, NEW op \in Operations, NEW s \in Requested, Send(c, op, s)
      PROVE  CallersInv'
  <2> DEFINE m == [op |-> op, service |-> s, caller |-> c]
  <2>1. /\ queue' = Append(queue, m) /\ waiting' = waiting \cup {c} /\ c \notin waiting
        /\ open /\ UNCHANGED <<open, pc, command>>
    BY <1>1 DEF Send
  <2>2. m \in Command /\ m.caller = c
    BY SupervisorAssumption DEF Command
  <2> HIDE DEF m
  <2>3. /\ Len(queue) \in Nat /\ Len(queue') = Len(queue) + 1
        /\ DOMAIN queue = 1 .. Len(queue) /\ DOMAIN queue' = 1 .. Len(queue) + 1
        /\ \A i \in 1 .. Len(queue) : queue'[i] = queue[i]
        /\ queue'[Len(queue) + 1].caller = c
    BY <1>0, <2>1, <2>2 DEF TypeOK
  <2>4. \A i \in 1 .. Len(queue) + 1 : i \in 1 .. Len(queue) \/ i = Len(queue) + 1
    BY <2>3
  <2>5. Len(queue) + 1 \in 1 .. Len(queue) + 1 /\ \A i \in 1 .. Len(queue) : i \in 1 .. Len(queue) + 1
    BY <2>3
  <2>6. \A i \in 1 .. Len(queue) : queue[i].caller # c
    BY <2>1, <2>3 DEF CallersInv, OneCommandPerCaller, Queued
  <2>7. c # command.caller
    BY <2>1 DEF CallersInv, OneCommandPerCaller
  <2>8. \A d \in Callers : Queued(d)' <=> Queued(d) \/ d = c
    BY <2>3, <2>4, <2>5 DEF Queued
  <2>9. OneCommandPerCaller'
    <3>1. \A d \in Callers : d \in waiting' <=> Queued(d)' \/ command'.caller = d
      BY <2>1, <2>8 DEF CallersInv, OneCommandPerCaller
    <3>2. \A i, j \in DOMAIN queue' :
             queue'[i].caller = queue'[j].caller /\ queue'[i].caller # NoCaller => i = j
      BY <2>3, <2>4, <2>6 DEF CallersInv, OneCommandPerCaller
    <3>3. \A i \in DOMAIN queue' :
             queue'[i].caller # NoCaller => queue'[i].caller # command'.caller
      BY <2>1, <2>3, <2>4, <2>7 DEF CallersInv, OneCommandPerCaller
    <3> QED
      BY <3>1, <3>2, <3>3 DEF OneCommandPerCaller, Queued
  <2> QED
    BY <2>1, <2>9 DEF CallersInv, NobodyAbandoned, Carrying
<1>1a. ASSUME NEW c \in Callers, GiveUp(c)
       PROVE  CallersInv'
  <2>1. /\ waiting' = waiting \ {c} /\ command' = Abandoned(command, c)
        /\ queue' = [i \in DOMAIN queue |-> Abandoned(queue[i], c)]
        /\ c \in waiting /\ UNCHANGED <<open, pc>>
    BY <1>1a DEF GiveUp
  <2>2. /\ command \in Command /\ \A i \in DOMAIN queue : queue[i] \in Command
        /\ DOMAIN queue' = DOMAIN queue
    BY <1>0, <2>1 DEF TypeOK
  <2>3. /\ command'.caller = IF command.caller = c THEN NoCaller ELSE command.caller
        /\ \A i \in DOMAIN queue :
              queue'[i].caller = IF queue[i].caller = c THEN NoCaller ELSE queue[i].caller
    BY <2>1, <2>2, AbandonedFacts
  <2>4. \A d \in Callers : d # NoCaller
    BY SupervisorAssumption
  <2>5. \A d \in Callers : Queued(d)' <=> Queued(d) /\ d # c
    BY <2>2, <2>3, <2>4 DEF Queued
  <2>6. OneCommandPerCaller'
    <3>1. \A d \in Callers : d \in waiting' <=> Queued(d)' \/ command'.caller = d
      BY <2>1, <2>3, <2>4, <2>5 DEF CallersInv, OneCommandPerCaller
    <3>2. \A i, j \in DOMAIN queue' :
             queue'[i].caller = queue'[j].caller /\ queue'[i].caller # NoCaller => i = j
      BY <2>2, <2>3 DEF CallersInv, OneCommandPerCaller
    <3>3. \A i \in DOMAIN queue' :
             queue'[i].caller # NoCaller => queue'[i].caller # command'.caller
      BY <2>2, <2>3 DEF CallersInv, OneCommandPerCaller
    <3> QED
      BY <3>1, <3>2, <3>3 DEF OneCommandPerCaller, Queued
  <2>7. ~open' => waiting' = {}
    BY <2>1 DEF CallersInv
  <2>8. pc \notin {"shutdown", "done"}
    BY <2>1 DEF CallersInv, NobodyAbandoned
  <2> QED
    BY <2>1, <2>3, <2>6, <2>7, <2>8 DEF CallersInv, NobodyAbandoned, Carrying
<1>2. CASE DropHandles
  BY <1>2 DEF DropHandles, CallersInv, OneCommandPerCaller, NobodyAbandoned, Queued, Carrying
<1>3. ASSUME NEW s \in ServiceId, TaskEnds(s)
      PROVE  CallersInv'
  BY <1>3, CallersKept DEF TaskEnds, callerVars, Carrying
<1>4. CASE BrokerDies
  BY <1>4, CallersKept DEF BrokerDies, callerVars, Carrying
<1>5. CASE Receive
  <2>1. /\ queue # <<>> /\ queue' = Tail(queue) /\ command' = queue[1]
        /\ UNCHANGED <<waiting, open>> /\ pc = "idle" /\ pc' \in {"start", "stop"}
    BY <1>0, <1>5 DEF Receive, TypeOK
  <2>2. /\ Len(queue) \in Nat /\ DOMAIN queue = 1 .. Len(queue) /\ 1 \in 1 .. Len(queue)
        /\ DOMAIN queue' = 1 .. Len(queue) - 1
        /\ \A i \in 1 .. Len(queue) - 1 : i + 1 \in 1 .. Len(queue) /\ queue'[i] = queue[i + 1]
        /\ queue[1] \in Command
    BY <1>0, <2>1 DEF TypeOK
  <2>4. command.caller = NoCaller
    BY <2>1 DEF CallersInv, Carrying
  <2>5. \A i \in 1 .. Len(queue) : i = 1 \/ (i - 1 \in 1 .. Len(queue) - 1 /\ (i - 1) + 1 = i)
    BY <2>2
  <2>6. \A c \in Callers : Queued(c) <=> Queued(c)' \/ queue[1].caller = c
    <3> TAKE c \in Callers
    <3>1. ASSUME NEW i \in DOMAIN queue, queue[i].caller = c
          PROVE  Queued(c)' \/ queue[1].caller = c
      <4>1. CASE i = 1
        BY <3>1, <4>1
      <4>2. CASE i # 1
        <5>1. i - 1 \in DOMAIN queue' /\ queue'[i - 1] = queue[i]
          BY <2>2, <2>5, <4>2
        <5> QED
          BY <3>1, <5>1 DEF Queued
      <4> QED
        BY <4>1, <4>2
    <3>2. Queued(c)' => Queued(c)
      BY <2>2 DEF Queued
    <3>3. queue[1].caller = c => Queued(c)
      BY <2>2 DEF Queued
    <3> QED
      BY <3>1, <3>2, <3>3 DEF Queued
  <2>7. OneCommandPerCaller'
    <3>1. \A c \in Callers : c \in waiting' <=> Queued(c)' \/ command'.caller = c
      BY <2>1, <2>4, <2>6, SupervisorAssumption DEF CallersInv, OneCommandPerCaller
    <3>2. \A i, j \in 1 .. Len(queue) - 1 : i + 1 = j + 1 => i = j
      BY <2>2
    <3>3. \A i, j \in DOMAIN queue' :
             queue'[i].caller = queue'[j].caller /\ queue'[i].caller # NoCaller => i = j
      <4> SUFFICES ASSUME NEW i \in 1 .. Len(queue) - 1, NEW j \in 1 .. Len(queue) - 1,
                          queue'[i].caller = queue'[j].caller, queue'[i].caller # NoCaller
                   PROVE  i = j
        BY <2>2
      <4>1. /\ i + 1 \in DOMAIN queue /\ j + 1 \in DOMAIN queue
            /\ queue'[i] = queue[i + 1] /\ queue'[j] = queue[j + 1]
        BY <2>2
      <4>2. i + 1 = j + 1
        BY Zenon, <4>1 DEF CallersInv, OneCommandPerCaller
      <4> QED
        BY <3>2, <4>2
    <3>4. \A i \in 1 .. Len(queue) - 1 : i + 1 # 1
      BY <2>2
    <3>5. \A i \in DOMAIN queue' :
             queue'[i].caller # NoCaller => queue'[i].caller # command'.caller
      BY <2>1, <2>2, <3>4 DEF CallersInv, OneCommandPerCaller
    <3> QED
      BY <3>1, <3>3, <3>5 DEF OneCommandPerCaller, Queued
  <2> QED
    BY <2>1, <2>7 DEF CallersInv, NobodyAbandoned, Carrying
<1>6. CASE GetStatus
  BY <1>0, <1>6, RepliedCaller DEF GetStatus, Carrying
<1>7. CASE HandleStartRefused
  BY <1>0, <1>7, RepliedCaller DEF HandleStartRefused, Carrying
<1>8. CASE HandleStart
  BY <1>8, CallersKept DEF HandleStart, callerVars, Carrying
<1>9. ASSUME NEW result \in Results, ServiceStart(result)
      PROVE  CallersInv'
  BY <1>0, <1>9, RepliedCaller DEF ServiceStart, Carrying
<1>10. ASSUME NEW result, AfterStop(result), pc = "stop", UNCHANGED <<queue, open>>
       PROVE  CallersInv'
  <2>1. CASE command.op = "Restart"
    BY <1>10, <2>1, CallersKept DEF AfterStop, Carrying
  <2>2. CASE command.op # "Restart"
    BY <1>0, <1>10, <2>2, RepliedCaller DEF AfterStop, Carrying
  <2> QED
    BY <2>1, <2>2
<1>11. CASE HandleStopRefused
  BY Zenon, <1>10, <1>11 DEF HandleStopRefused
<1>12. CASE HandleStop
  BY <1>10, <1>12 DEF HandleStop
<1>13. CASE Shutdown
  BY <1>13 DEF Shutdown, callerVars, CallersInv, OneCommandPerCaller, NobodyAbandoned,
               Queued, Carrying
<1>14. ASSUME NEW s \in ServiceId, ShutdownStop(s)
       PROVE  CallersInv'
  BY <1>14, CallersKept DEF ShutdownStop, callerVars, Carrying
<1>15. CASE ShutdownDone
  BY <1>15, CallersKept DEF ShutdownDone, callerVars, Carrying
<1>16. CASE UNCHANGED vars
  BY <1>16, CallersKept DEF vars, callerVars, Carrying
<1> QED
  BY <1>1, <1>1a, <1>2, <1>3, <1>4, <1>5, <1>6, <1>7, <1>8, <1>9, <1>11, <1>12, <1>13, <1>14,
     <1>15, <1>16
     DEF Next, Carry, Environment

\* The account of the callers holds always.
LEMMA CallersInvariance == Spec => []CallersInv
<1>1. Init => CallersInv
  BY SupervisorAssumption
     DEF Init, CallersInv, OneCommandPerCaller, NobodyAbandoned, Queued, Carrying, NoCommand
<1> QED
  BY <1>1, Invariance, CallersStep, PTL DEF Spec

\* A SupervisorHandle's caller awaits its reply exactly while the supervisor has
\* one command of its own to answer, in the channel or in hand.
THEOREM NoCommandLost == Spec => []OneCommandPerCaller
BY CallersInvariance, PTL DEF CallersInv

\* The loop of spawn's task ends, and the services are stopped, only when no caller
\* waits for a reply and the channel is empty.
THEOREM ShutdownAbandonsNobody == Spec => []NobodyAbandoned
BY CallersInvariance, PTL DEF CallersInv
=============================================================================
