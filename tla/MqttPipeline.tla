---------------------------- MODULE MqttPipeline ----------------------------
(***************************************************************************)
(* The two tasks of the local MQTT client (services/mqtt_client/tasks.rs)  *)
(* between the two loops of the application that use it.                   *)
(*                                                                         *)
(*   message loop ---+                           +--> event loop --> broker*)
(*                   +-> commands -> command task -> requests              *)
(*   broadcast loop -+                           inbound <-- event loop    *)
(*                                                                         *)
(* A caller of MqttClientHandle puts a command in a bounded channel and    *)
(* awaits its reply; the command task puts a request in rumqttc's bounded  *)
(* channel, waiting while it is full, and replies; only polling the event  *)
(* loop empties that channel; the event loop does not poll while it waits  *)
(* for room in the bounded inbound channel, which only the message loop    *)
(* empties.  The broadcast loop publishes while it holds the read lock     *)
(* that register_channel needs.                                            *)
(*                                                                         *)
(* A command is its caller; requests and inbound messages are counted.     *)
(***************************************************************************)
EXTENDS Naturals, Sequences

CONSTANTS
    CMD_CAPACITY,     \* 64 in the code
    MSG_CAPACITY,     \* 64
    RequestCapacity,  \* AsyncClient::new(opts, 10)
    MaxBeacons        \* bound: topics of a broadcast cycle, beacons of a sweep

ASSUME PipelineAssumption ==
    /\ CMD_CAPACITY \in Nat \ {0}
    /\ MSG_CAPACITY \in Nat \ {0}
    /\ RequestCapacity \in Nat \ {0}
    /\ MaxBeacons \in Nat \ {0}

VARIABLES
    commands,   \* cmd_rx: the callers whose commands are queued
    executing,  \* the caller whose command the command task has taken
    command,    \* where the command task is
    requests,   \* requests in the client's channel
    inbound,    \* messages in the inbound channel
    eventloop,  \* where the event loop task is
    connected,  \* the broker has acknowledged the connection
    shutdown,   \* both shutdown senders were used
    loop,       \* where the message loop is
    stale,      \* beacons the sweep in progress still has to deregister
    cycle,      \* where the broadcast loop is
    topics      \* topics the cycle in progress still has to publish to

clientVars == <<requests, inbound, eventloop, connected>>
commandVars == <<commands, executing, command>>
loopVars == <<loop, stale>>
cycleVars == <<cycle, topics>>
vars == <<clientVars, commandVars, shutdown, loopVars, cycleVars>>

Callers == {"message", "broadcast"}
\* The caller of a command was dropped, or no command is executed.
Nobody == "nobody"
Owners == Callers \cup {Nobody}

TypeOK ==
    /\ commands \in Seq(Owners)
    /\ Len(commands) <= CMD_CAPACITY
    /\ executing \in Owners
    /\ command \in {"recv", "request", "stopped"}
    /\ requests \in 0 .. RequestCapacity
    /\ inbound \in 0 .. MSG_CAPACITY
    /\ eventloop \in {"poll", "forward", "sleep", "disconnect", "stopped"}
    /\ connected \in BOOLEAN /\ shutdown \in BOOLEAN
    /\ loop \in {"select", "subscribe", "subscribe_reply", "push",
                 "unsubscribe", "unsubscribe_reply", "sweep_lock"}
    /\ stale \in 0 .. MaxBeacons
    /\ cycle \in {"tick", "publish", "publish_reply", "sleep"}
    /\ topics \in 0 .. MaxBeacons

\* The client is started; initialize has not waited for the broker yet.
Init ==
    /\ commands = <<>> /\ executing = Nobody /\ command = "recv"
    /\ requests = 0 /\ inbound = 0 /\ eventloop = "poll"
    /\ connected = FALSE /\ shutdown = FALSE
    /\ loop = "select" /\ stale = 0
    /\ cycle = "tick" /\ topics = 0
-----------------------------------------------------------------------------
(***************************************************************************)
(* A call of the handle: send the command, then await the reply.           *)
(***************************************************************************)
Sending(c) ==
    IF c = "message" THEN loop \in {"subscribe", "unsubscribe"}
    ELSE cycle = "publish"

Awaiting(c) ==
    IF c = "message" THEN loop \in {"subscribe_reply", "unsubscribe_reply"}
    ELSE cycle = "publish_reply"

\* The command is queued: from here on the caller waits for its reply.
AwaitReply(c) ==
    IF c = "message"
    THEN /\ loop' = IF loop = "subscribe" THEN "subscribe_reply"
                    ELSE "unsubscribe_reply"
         /\ UNCHANGED <<stale, cycleVars>>
    ELSE cycle' = "publish_reply" /\ UNCHANGED <<topics, loopVars>>

\* A deregistered beacon: the next one of the sweep, or back to the select!.
\* A record has either topic or not.
NextStale ==
    /\ stale' = stale - 1
    /\ loop' \in IF stale > 1 THEN {"unsubscribe", "sweep_lock"} ELSE {"select"}

\* The call returns, with success or an error: both are only logged.
Return(c) ==
    IF c = "message"
    THEN /\ \/ loop \in {"subscribe", "subscribe_reply"}
               /\ loop' = "select" /\ UNCHANGED stale
            \/ loop \in {"unsubscribe", "unsubscribe_reply"}
               /\ loop' = "sweep_lock" /\ UNCHANGED stale
            \/ loop \in {"unsubscribe", "unsubscribe_reply"} /\ NextStale
         /\ UNCHANGED cycleVars
    ELSE /\ topics' = topics - 1
         /\ IF topics = 1 THEN cycle' \in {"tick", "sleep"}
            ELSE cycle' = "publish"
         /\ UNCHANGED loopVars

Send(c) ==
    /\ Sending(c)
    /\ command # "stopped"
    /\ Len(commands) < CMD_CAPACITY
    /\ commands' = Append(commands, c)
    /\ AwaitReply(c)
    /\ UNCHANGED <<clientVars, executing, command, shutdown>>

\* The receiver is gone: "mqtt client channel closed".
SendFails(c) ==
    /\ Sending(c)
    /\ command = "stopped"
    /\ Return(c)
    /\ UNCHANGED <<clientVars, commandVars, shutdown>>

\* The command was dropped with its reply sender: "mqtt client dropped reply".
ReplyDropped(c) ==
    /\ Awaiting(c)
    /\ command = "stopped"
    /\ Return(c)
    /\ UNCHANGED <<clientVars, commandVars, shutdown>>
-----------------------------------------------------------------------------
(***************************************************************************)
(* spawn_command_task.  Inside a branch it does not watch for shutdown.    *)
(***************************************************************************)
TakeCommand ==
    /\ command = "recv"
    /\ commands # <<>>
    /\ command' = "request"
    /\ executing' = Head(commands)
    /\ commands' = Tail(commands)
    /\ UNCHANGED <<clientVars, shutdown, loopVars, cycleVars>>

HasRoom == requests < RequestCapacity

\* The request is in the channel, or the channel's other end is gone.
RequestReturns == HasRoom \/ eventloop = "stopped"

\* Faulty: the reply is sent only when the request succeeds.
ReplyOnSuccess ==
    IF executing = Nobody \/ eventloop = "stopped"
    THEN UNCHANGED <<loopVars, cycleVars>> ELSE Return(executing)

\* The reply reaches a caller that still waits for it.
Reply ==
    IF executing = Nobody THEN UNCHANGED <<loopVars, cycleVars>>
    ELSE Return(executing)

ExecuteCommand ==
    /\ command = "request"
    /\ RequestReturns
    /\ requests' = IF eventloop = "stopped" THEN requests ELSE requests + 1
    /\ command' = "recv"
    /\ executing' = Nobody
    /\ Reply
    /\ UNCHANGED <<inbound, eventloop, connected, commands, shutdown>>

\* Faulty: the command task does not watch for the signal.
CommandShutdownMissed == FALSE /\ UNCHANGED vars

CommandShutdown ==
    /\ command = "recv"
    /\ shutdown
    /\ command' = "stopped"
    /\ commands' = <<>>
    /\ UNCHANGED <<clientVars, executing, shutdown, loopVars, cycleVars>>
-----------------------------------------------------------------------------
(***************************************************************************)
(* spawn_eventloop_task.  Nobody holds the sender of out_rx once           *)
(* initialize has returned, so that branch never runs.                     *)
(***************************************************************************)
PollConnAck ==
    /\ eventloop = "poll"
    /\ ~connected
    /\ connected' = TRUE
    /\ UNCHANGED <<requests, inbound, eventloop, commandVars, shutdown,
                   loopVars, cycleVars>>

PollRequest ==
    /\ eventloop = "poll"
    /\ connected
    /\ requests > 0
    /\ requests' = requests - 1
    /\ UNCHANGED <<inbound, eventloop, connected, commandVars, shutdown,
                   loopVars, cycleVars>>

PollPublish ==
    /\ eventloop = "poll"
    /\ connected
    /\ eventloop' = "forward"
    /\ UNCHANGED <<requests, inbound, connected, commandVars, shutdown,
                   loopVars, cycleVars>>

\* msg_tx.send(msg).await: waits while the inbound channel is full.
Forward ==
    /\ eventloop = "forward"
    /\ inbound < MSG_CAPACITY
    /\ inbound' = inbound + 1
    /\ eventloop' = "poll"
    /\ UNCHANGED <<requests, connected, commandVars, shutdown, loopVars, cycleVars>>

\* An error of an established connection may make the library take what the
\* channel holds, to send it again later.
PollError ==
    /\ eventloop = "poll"
    /\ eventloop' = "sleep"
    /\ connected' = FALSE
    /\ \/ UNCHANGED requests
       \/ connected /\ requests' = 0
    /\ UNCHANGED <<inbound, commandVars, shutdown, loopVars, cycleVars>>

\* Five seconds that nothing interrupts.
SleepEnds ==
    /\ eventloop = "sleep"
    /\ eventloop' = "poll"
    /\ UNCHANGED <<requests, inbound, connected, commandVars, shutdown,
                   loopVars, cycleVars>>

EventLoopShutdown ==
    /\ eventloop = "poll"
    /\ shutdown
    /\ eventloop' = "disconnect"
    /\ UNCHANGED <<requests, inbound, connected, commandVars, shutdown,
                   loopVars, cycleVars>>

\* disconnect is a request too, and nobody polls any more.  Then the task ends
\* and its end of the channel goes.
Disconnect ==
    /\ eventloop = "disconnect"
    /\ HasRoom
    /\ eventloop' = "stopped"
    /\ requests' = 0
    /\ connected' = FALSE
    /\ UNCHANGED <<inbound, commandVars, shutdown, loopVars, cycleVars>>

\* MqttClientService::stop
Stop ==
    /\ ~shutdown
    /\ shutdown' = TRUE
    /\ UNCHANGED <<clientVars, commandVars, loopVars, cycleVars>>
-----------------------------------------------------------------------------
(***************************************************************************)
(* run_broadcast_loop: the read guard is dropped when the cycle ends, with *)
(* jitter after a sleep for the rest of the interval.  tokio's RwLock      *)
(* is fair: no reader enters while a writer waits.                         *)
(***************************************************************************)
\* Faulty: the guard lives until the next cycle.
ReadingUntilNextCycle == cycle \in {"tick", "publish", "publish_reply", "sleep"}

Reading == cycle \in {"publish", "publish_reply", "sleep"}

\* Faulty: readers overtake a waiting writer.
WriterOvertaken == FALSE

WriterWaits == loop \in {"push", "sweep_lock"}

CycleStart(n) ==
    /\ cycle = "tick"
    /\ ~WriterWaits
    /\ cycle' = IF n = 0 THEN "sleep" ELSE "publish"
    /\ topics' = n
    /\ UNCHANGED <<clientVars, commandVars, shutdown, loopVars>>

CycleSleepEnds ==
    /\ cycle = "sleep"
    /\ cycle' = "tick"
    /\ UNCHANGED <<clientVars, commandVars, shutdown, loopVars, topics>>
-----------------------------------------------------------------------------
(***************************************************************************)
(* run_beacon_message_loop.  The sweep is a branch of its select!, so a    *)
(* channel or a message that is ready drops it wherever it waits; its      *)
(* command, if it was queued, is executed for nobody.                      *)
(***************************************************************************)
Selectable == loop \in {"select", "unsubscribe", "unsubscribe_reply", "sweep_lock"}

Abandoned(owner) == IF owner = "message" THEN Nobody ELSE owner

Cancel ==
    /\ stale' = 0
    /\ commands' = [i \in 1 .. Len(commands) |-> Abandoned(commands[i])]
    /\ executing' = Abandoned(executing)

RegisterListen ==
    /\ Selectable
    /\ Cancel
    /\ loop' = "subscribe"
    /\ UNCHANGED <<clientVars, command, shutdown, cycleVars>>

RegisterBroadcast ==
    /\ Selectable
    /\ Cancel
    /\ loop' = "push"
    /\ UNCHANGED <<clientVars, command, shutdown, cycleVars>>

PushBroadcastTopic ==
    /\ loop = "push"
    /\ ~Reading
    /\ loop' = "select"
    /\ UNCHANGED <<clientVars, commandVars, shutdown, stale, cycleVars>>

HandleMessage ==
    /\ Selectable
    /\ inbound > 0
    /\ Cancel
    /\ inbound' = inbound - 1
    /\ loop' = "select"
    /\ UNCHANGED <<requests, eventloop, connected, command, shutdown, cycleVars>>

\* A tick finds n stale beacons.
CheckTimeouts(n) ==
    /\ loop = "select"
    /\ stale' = n
    /\ loop' \in {"unsubscribe", "sweep_lock"}
    /\ UNCHANGED <<clientVars, commandVars, shutdown, cycleVars>>

SweepRetain ==
    /\ loop = "sweep_lock"
    /\ ~Reading
    /\ NextStale
    /\ UNCHANGED <<clientVars, commandVars, shutdown, cycleVars>>
-----------------------------------------------------------------------------
CommandTask == TakeCommand \/ ExecuteCommand \/ CommandShutdown

EventLoop ==
    \/ PollConnAck
    \/ PollRequest
    \/ PollPublish
    \/ Forward
    \/ PollError
    \/ SleepEnds
    \/ EventLoopShutdown
    \/ Disconnect

MessageLoop ==
    \/ RegisterListen
    \/ RegisterBroadcast
    \/ PushBroadcastTopic
    \/ HandleMessage
    \/ \E n \in 1 .. MaxBeacons : CheckTimeouts(n)
    \/ SweepRetain

BroadcastLoop == (\E n \in 0 .. MaxBeacons : CycleStart(n)) \/ CycleSleepEnds

Call == \E c \in Callers : Send(c) \/ SendFails(c) \/ ReplyDropped(c)

Next ==
    \/ Stop
    \/ CommandTask
    \/ EventLoop
    \/ MessageLoop
    \/ Call
    \/ BroadcastLoop

Spec == Init /\ [][Next]_vars

(***************************************************************************)
(* Awaits that can complete do.  Waiters of tokio's and rumqttc's channels *)
(* are served in turn, and select! polls in a random order: strong         *)
(* fairness.  Nothing is assumed of the broker, of beacons and of timers.  *)
(***************************************************************************)
Fairness ==
    /\ WF_vars(TakeCommand)
    /\ SF_vars(ExecuteCommand)
    /\ SF_vars(CommandShutdown)
    /\ WF_vars(Forward)
    /\ WF_vars(SleepEnds)
    /\ SF_vars(EventLoopShutdown)
    /\ WF_vars(Disconnect)
    /\ WF_vars(PushBroadcastTopic)
    /\ WF_vars(SweepRetain)
    /\ WF_vars(CycleSleepEnds)
    /\ SF_vars(HandleMessage)
    /\ \A c \in Callers : SF_vars(Send(c))
                        /\ WF_vars(SendFails(c)) /\ WF_vars(ReplyDropped(c))

FairSpec == Spec /\ Fairness
-----------------------------------------------------------------------------
\* A caller that awaits a reply gets one: while the command task lives, its
\* command is queued or executed, once; and no command is held for a caller
\* that has gone on, although a sweep can be dropped at any await.
Queued(c) == {i \in 1 .. Len(commands) : commands[i] = c}

AwaitedReplyComes ==
    \A c \in Callers :
        /\ \A i, j \in Queued(c) : i = j
        /\ Queued(c) # {} => executing # c
        /\ Awaiting(c) /\ command # "stopped" => executing = c \/ Queued(c) # {}
        /\ ~Awaiting(c) => executing # c /\ Queued(c) = {}

\* Where each task can go on by itself, without a new handshake.
CommandTaskMoves ==
    \/ command = "recv" /\ (commands # <<>> \/ shutdown)
    \/ command = "request" /\ RequestReturns

EventLoopMoves ==
    \/ eventloop \in {"poll", "sleep"}
    \/ eventloop = "forward" /\ inbound < MSG_CAPACITY
    \/ eventloop = "disconnect" /\ HasRoom

CallMoves(c) ==
    \/ Sending(c) /\ (command = "stopped" \/ Len(commands) < CMD_CAPACITY)
    \/ Awaiting(c) /\ command = "stopped"

MessageLoopMoves ==
    \/ Selectable /\ (loop = "select" \/ inbound > 0)
    \/ WriterWaits /\ ~Reading
    \/ CallMoves("message")

BroadcastLoopMoves ==
    \/ cycle = "tick" /\ ~WriterWaits
    \/ cycle = "sleep"
    \/ CallMoves("broadcast")

Stuck ==
    /\ ~CommandTaskMoves /\ ~EventLoopMoves
    /\ ~MessageLoopMoves /\ ~BroadcastLoopMoves

\* The tasks wait for each other in one way only: the request channel is full
\* and the event loop, which alone empties it, waits for room in the inbound
\* channel or for its own disconnect.  The list lock, the command channel and
\* cancelled sweeps add no other circular wait.
StuckOnlyWhenFull ==
    Stuck => /\ requests = RequestCapacity
             /\ command = "request"
             /\ \/ eventloop = "forward" /\ inbound = MSG_CAPACITY
                \/ eventloop = "disconnect"

RoomAgainAndAgain == []<>HasRoom

\* As long as the request channel has room again and again, the message loop
\* comes back to its select!, every broadcast cycle ends, and every message
\* the event loop has received is handed over.
RoomMeansProgress ==
    RoomAgainAndAgain =>
        /\ []<>(loop = "select")
        /\ []<>(cycle = "tick")
        /\ []<>(eventloop # "forward")

\* "Shutdown: stops the client and exits cleanly when shutdown_rx fires", as
\* long as the request channel has room again and again.
RoomMeansShutdown ==
    RoomAgainAndAgain =>
        (shutdown ~> eventloop = "stopped" /\ command = "stopped")
=============================================================================
