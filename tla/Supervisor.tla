----------------------------- MODULE Supervisor -----------------------------
(***************************************************************************)
(* The supervisor (supervisor.rs) and the start and stop of the services   *)
(* it manages.  One task takes commands from a bounded channel and carries *)
(* each out before the next; callers wait for its reply, or give up and    *)
(* leave their command behind.  Meanwhile the services' own tasks and      *)
(* processes live on: a task told to stop ends some time later, and the    *)
(* broker's process may die.                                               *)
(***************************************************************************)
EXTENDS Naturals, Sequences

CONSTANTS
    Registered,     \* the services given to Supervisor::register
    Available,      \* those registered as available
    Requested,      \* the services that callers name
    Callers,        \* tasks that use a SupervisorHandle
    NoCaller,
    ChannelBuffer   \* capacity of the command channel (32 in the code)

ServiceId == {"Gateway", "Mosquitto", "MqttClient", "GatewayMqttClient", "CloudGateway"}

ASSUME SupervisorAssumption ==
    /\ Registered \subseteq ServiceId
    /\ Available \subseteq Registered
    /\ Requested \subseteq ServiceId
    /\ NoCaller \notin Callers
    /\ ChannelBuffer \in Nat \ {0}

\* Services whose task owns channel ends that exist only once.
OneShot == {"MqttClient", "GatewayMqttClient", "CloudGateway"}

\* Services whose stop is an error when there is nothing to stop.
StopNeedsHandle == {"Gateway", "Mosquitto", "MqttClient"}

Operations == {"Start", "Stop", "Restart", "Status"}
Results == {"ok", "refused", "already running", "consumed", "in use", "failed",
            "tls failed", "not running"}

\* A command whose caller has given up is NoCaller's.
Command == [op : Operations, service : ServiceId, caller : Callers \cup {NoCaller}]

VARIABLES
    statuses,
    held,      \* the service has its shutdown_tx, or its child
    channels,  \* a one-shot service still has its channel ends
    live,      \* its task or process: "up", told to stop and "closing", "none"
    queue,     \* the command channel
    waiting,   \* callers whose command has not been answered
    open,      \* some SupervisorHandle exists
    pc,        \* where the supervisor is
    command,   \* the command it carries out
    was,       \* the service's status when it took that command
    answer,    \* the result sent in the last step, with its command and that status
    left       \* services the shutdown still has to stop

serviceVars == <<statuses, held, channels, live>>
callerVars == <<queue, waiting, open>>
vars == <<serviceVars, callerVars, pc, command, was, answer, left>>

Status == {"None", "Unavailable", "Stopped", "Starting", "Running", "Failed"}
NoCommand == [op |-> "Status", service |-> "Gateway", caller |-> NoCaller]
NoAnswer == [op |-> "Status", service |-> "Gateway", was |-> "None", result |-> "ok"]

TypeOK ==
    /\ statuses \in [ServiceId -> Status]
    /\ held \in [ServiceId -> BOOLEAN]
    /\ channels \in [ServiceId -> BOOLEAN]
    /\ live \in [ServiceId -> {"none", "up", "closing"}]
    /\ queue \in Seq(Command)
    /\ waiting \subseteq Callers
    /\ open \in BOOLEAN
    /\ pc \in {"idle", "start", "spawn", "stop", "shutdown", "done"}
    /\ command \in Command
    /\ was \in Status
    /\ answer \in [op : Operations, service : ServiceId, was : Status, result : Results]
    /\ left \subseteq ServiceId

\* Supervisor::register for every service, then spawn.
Init ==
    /\ statuses = [s \in ServiceId |-> IF s \in Available THEN "Stopped"
                                       ELSE IF s \in Registered THEN "Unavailable"
                                       ELSE "None"]
    /\ held = [s \in ServiceId |-> FALSE]
    /\ channels = [s \in ServiceId |-> s \in OneShot]
    /\ live = [s \in ServiceId |-> "none"]
    /\ queue = <<>> /\ waiting = {} /\ open = TRUE
    /\ pc = "idle" /\ command = NoCommand /\ was = "None" /\ answer = NoAnswer
    /\ left = {}
-----------------------------------------------------------------------------
(***************************************************************************)
(* The callers and the services' tasks.                                    *)
(***************************************************************************)
\* A Status command names no service.
Send(c, op, s) ==
    /\ open /\ c \notin waiting
    /\ Len(queue) < ChannelBuffer
    /\ op = "Status" => s = NoCommand.service
    /\ queue' = Append(queue, [op |-> op, service |-> s, caller |-> c])
    /\ waiting' = waiting \cup {c}
    /\ answer' = NoAnswer
    /\ UNCHANGED <<serviceVars, open, pc, command, was, left>>

Abandoned(cmd, c) == IF cmd.caller = c THEN [cmd EXCEPT !.caller = NoCaller] ELSE cmd

\* A caller's future is dropped while it waits for the reply: its command stays
\* where it is and is carried out all the same, but its result reaches nobody.
GiveUp(c) ==
    /\ c \in waiting
    /\ waiting' = waiting \ {c}
    /\ queue' = [i \in DOMAIN queue |-> Abandoned(queue[i], c)]
    /\ command' = Abandoned(command, c)
    /\ answer' = NoAnswer
    /\ UNCHANGED <<serviceVars, open, pc, was, left>>

\* The last handle is dropped; a caller keeps one while it waits.
DropHandles ==
    /\ open /\ waiting = {}
    /\ open' = FALSE
    /\ answer' = NoAnswer
    /\ UNCHANGED <<serviceVars, queue, waiting, pc, command, was, left>>

\* A task that was told to stop ends, and its listener is closed.
TaskEnds(s) ==
    /\ live[s] = "closing"
    /\ live' = [live EXCEPT ![s] = "none"]
    /\ answer' = NoAnswer
    /\ UNCHANGED <<statuses, held, channels, callerVars, pc, command, was, left>>

\* The broker's process dies by itself.
BrokerDies ==
    /\ live["Mosquitto"] = "up"
    /\ live' = [live EXCEPT !["Mosquitto"] = "none"]
    /\ answer' = NoAnswer
    /\ UNCHANGED <<statuses, held, channels, callerVars, pc, command, was, left>>
-----------------------------------------------------------------------------
(***************************************************************************)
(* The command loop.                                                       *)
(***************************************************************************)
Reply(result) ==
    /\ answer' = [op |-> command.op, service |-> command.service, was |-> was,
                  result |-> result]
    /\ pc' = "idle" /\ command' = NoCommand /\ was' = "None"
    /\ waiting' = waiting \ {command.caller}

\* recv, and the test at the head of handle_restart.
Receive ==
    /\ pc = "idle" /\ queue # <<>>
    /\ command' = Head(queue)
    /\ queue' = Tail(queue)
    /\ was' = statuses[Head(queue).service]
    /\ pc' = IF \/ Head(queue).op = "Stop"
                \/ Head(queue).op = "Restart" /\ statuses[Head(queue).service] = "Running"
             THEN "stop" ELSE "start"
    /\ answer' = NoAnswer
    /\ UNCHANGED <<serviceVars, waiting, open, left>>

GetStatus ==
    /\ pc = "start" /\ command.op = "Status"
    /\ Reply("ok")
    /\ UNCHANGED <<serviceVars, queue, open, left>>

\* Faulty: a running service is started again.
RefusedAgain == {"Unavailable", "Starting", "None"}

\* handle_start's early returns.
RefusesStart == {"Unavailable", "Running", "Starting", "None"}

HandleStartRefused ==
    /\ pc = "start" /\ command.op # "Status"
    /\ statuses[command.service] \in RefusesStart
    /\ Reply("refused")
    /\ UNCHANGED <<serviceVars, queue, open, left>>

\* Faulty: the start waits until the task told to stop has ended.
HandleStartWaits ==
    /\ pc = "start" /\ command.op # "Status"
    /\ statuses[command.service] \notin RefusesStart
    /\ live[command.service] # "closing"
    /\ statuses' = [statuses EXCEPT ![command.service] = "Starting"]
    /\ pc' = "spawn"
    /\ UNCHANGED <<held, channels, live, callerVars, command, was, answer, left>>

HandleStart ==
    /\ pc = "start" /\ command.op # "Status"
    /\ statuses[command.service] \notin RefusesStart
    /\ statuses' = [statuses EXCEPT ![command.service] = "Starting"]
    /\ pc' = "spawn"
    /\ UNCHANGED <<held, channels, live, callerVars, command, was, answer, left>>

\* What ManagedService::start may return.  Binding the gateway's port fails
\* while the previous accept loop still listens on it.
StartResults(s) ==
    IF held[s] /\ s \in StopNeedsHandle THEN {"already running"}
    ELSE IF s \in OneShot /\ ~channels[s] THEN {"consumed"}
    ELSE IF s = "Gateway" /\ live[s] = "closing" THEN {"in use"}
    ELSE {"ok"} \cup (IF s \in StopNeedsHandle THEN {"failed"} ELSE {})
                \cup (IF s = "Gateway" THEN {"tls failed"} ELSE {})

\* Faulty: the shutdown sender is not stored.
HoldsNever(result) == FALSE

\* The gateway stores its shutdown sender before it builds the TLS config.
HoldsAfter(result) == result \in {"ok", "tls failed"}

StatusAfterStart(result) == IF result = "ok" THEN "Running" ELSE "Failed"

\* start() runs and handle_start records and reports what it returned.  A
\* one-shot service has given up its channels even if it fails after that.
ServiceStart(result) ==
    LET s == command.service IN
    /\ pc = "spawn"
    /\ result \in StartResults(s)
    /\ held' = [held EXCEPT ![s] = @ \/ HoldsAfter(result)]
    /\ live' = [live EXCEPT ![s] = IF result = "ok" THEN "up" ELSE @]
    /\ channels' = [channels EXCEPT ![s] = @ /\ result \notin {"ok", "failed"}]
    /\ statuses' = [statuses EXCEPT ![s] = StatusAfterStart(result)]
    /\ Reply(result)
    /\ UNCHANGED <<queue, open, left>>

\* stop() waits for the broker's process; a task is only sent the signal.
LiveAfterStop(s) ==
    IF held[s] /\ live[s] = "up"
    THEN IF s = "Mosquitto" THEN "none" ELSE "closing"
    ELSE live[s]

\* Faulty: the child or the shutdown sender stays in place.
ServiceStopKeeps(s) ==
    /\ live' = [live EXCEPT ![s] = LiveAfterStop(s)]
    /\ UNCHANGED held

\* ManagedService::stop takes the child or the shutdown sender.
ServiceStop(s) ==
    /\ live' = [live EXCEPT ![s] = LiveAfterStop(s)]
    /\ held' = [held EXCEPT ![s] = FALSE]

\* handle_stop; handle_restart goes on to start whatever came of it.
AfterStop(result) ==
    IF command.op = "Restart"
    THEN pc' = "start" /\ UNCHANGED <<command, was, answer, waiting>>
    ELSE Reply(result)

HandleStopRefused ==
    /\ pc = "stop"
    /\ \/ statuses[command.service] \in {"Stopped", "Unavailable", "None"}
       \/ command.service \in StopNeedsHandle /\ ~held[command.service]
    /\ AfterStop(IF statuses[command.service] \in {"Stopped", "Unavailable", "None"}
                 THEN "refused" ELSE "not running")
    /\ UNCHANGED <<serviceVars, queue, open, left>>

HandleStop ==
    /\ pc = "stop"
    /\ statuses[command.service] \notin {"Stopped", "Unavailable", "None"}
    /\ command.service \in StopNeedsHandle => held[command.service]
    /\ ServiceStop(command.service)
    /\ statuses' = [statuses EXCEPT ![command.service] = "Stopped"]
    /\ AfterStop("ok")
    /\ UNCHANGED <<channels, queue, open, left>>

\* The channel is closed and empty: stop every service, in any order.
Shutdown ==
    /\ pc = "idle" /\ queue = <<>> /\ ~open
    /\ pc' = "shutdown"
    /\ left' = Registered
    /\ answer' = NoAnswer
    /\ UNCHANGED <<serviceVars, callerVars, command, was>>

\* Faulty: the first error ends the loop.
ShutdownStopOrGiveUp(s) ==
    /\ pc = "shutdown" /\ s \in left
    /\ ServiceStop(s)
    /\ left' = IF s \in StopNeedsHandle /\ ~held[s] THEN {} ELSE left \ {s}
    /\ UNCHANGED <<statuses, channels, callerVars, pc, command, was, answer>>

\* An error of stop is logged, and the loop goes on.
ShutdownStop(s) ==
    /\ pc = "shutdown" /\ s \in left
    /\ ServiceStop(s)
    /\ left' = left \ {s}
    /\ UNCHANGED <<statuses, channels, callerVars, pc, command, was, answer>>

ShutdownDone ==
    /\ pc = "shutdown" /\ left = {}
    /\ pc' = "done"
    /\ UNCHANGED <<serviceVars, callerVars, command, was, answer, left>>
-----------------------------------------------------------------------------
Carry ==
    \/ Receive
    \/ GetStatus
    \/ HandleStartRefused
    \/ HandleStart
    \/ \E result \in Results : ServiceStart(result)
    \/ HandleStopRefused
    \/ HandleStop
    \/ Shutdown
    \/ \E s \in ServiceId : ShutdownStop(s)
    \/ ShutdownDone

Environment ==
    \/ \E c \in Callers, op \in Operations, s \in Requested : Send(c, op, s)
    \/ \E c \in Callers : GiveUp(c)
    \/ DropHandles
    \/ \E s \in ServiceId : TaskEnds(s)
    \/ BrokerDies

Next == Carry \/ Environment

Spec == Init /\ [][Next]_vars

\* The supervisor's task runs whenever it can.  A task told to stop need not
\* ever end: it may wait for room in a channel that it should empty itself.
Fairness == WF_vars(Carry)

FairSpec == Spec /\ Fairness
-----------------------------------------------------------------------------
\* Whatever runs is reported and within reach: a service whose task or process
\* is up has its handle and the status Running, whichever starts failed half
\* way and whichever restarts were interrupted by an error.
LiveIsReported ==
    \A s \in ServiceId : live[s] = "up" => held[s] /\ statuses[s] = "Running"

\* A status of Running means there is something to stop: the stop that follows
\* cannot fail, crashed broker or not.
RunningIsHeld ==
    pc \in {"idle", "start", "spawn", "stop"} =>
        \A s \in ServiceId : statuses[s] = "Running" => held[s]

\* Starting is never seen from outside: the supervisor answers Status only
\* between two commands.
StartingIsTransient ==
    \A s \in ServiceId :
        statuses[s] = "Starting" => pc = "spawn" /\ command.service = s

\* The broker can be restarted whenever it was running: its restart fails only
\* if the new process cannot be spawned.
BrokerRestarts ==
    /\ answer.op = "Restart" /\ answer.service = "Mosquitto"
    /\ answer.was = "Running"
    => answer.result \in {"ok", "failed"}

\* restart_running_service_succeeds (tests/supervisor.rs): handle_restart brings
\* a running service back, unless what its start needs (a process, a free port, a
\* TLS configuration) cannot be had.
RunningServiceRestarts ==
    answer.op = "Restart" /\ answer.was = "Running"
    => answer.result \in {"ok", "failed", "tls failed"}

\* When the supervisor's task is over it has stopped every service, those that
\* a command of a caller long gone has started included and whichever stops
\* returned an error: no handle is left, the broker's process has ended, and
\* any task that still runs has been sent its signal.
ShutdownStopsAll ==
    pc = "done" => /\ live["Mosquitto"] = "none"
                   /\ \A s \in ServiceId : ~held[s] /\ live[s] # "up"

\* Every caller that waits is answered, behind whichever commands it is queued
\* and although a task that was told to stop may never end.
CommandIsAnswered == \A c \in Callers : c \in waiting ~> c \notin waiting
=============================================================================
