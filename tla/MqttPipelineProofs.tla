------------------------- MODULE MqttPipelineProofs -------------------------
(***************************************************************************)
(* Proofs about MqttPipeline, for every capacity of its channels: no reply *)
(* is lost, and the tasks wait for each other in one way only.             *)
(***************************************************************************)
EXTENDS MqttPipeline, TLAPS

\* How far the tasks are: a sweep in progress has a beacon and a cycle a topic
\* at hand, and the command task holds a command only while it executes it.
TasksOK ==
    /\ loop \in {"unsubscribe", "unsubscribe_reply", "sweep_lock"} => stale > 0
    /\ cycle \in {"publish", "publish_reply"} => topics > 0
    /\ command # "request" => executing = Nobody
    /\ command = "stopped" => Len(commands) = 0

IInv == TypeOK /\ TasksOK /\ AwaitedReplyComes

\* What the message loop does to a queue of commands when it drops a sweep:
\* the same queue, with nobody in its place.
LEMMA CancelledQueue ==
    ASSUME TypeOK, Cancel
    PROVE  /\ commands' \in Seq(Owners)
           /\ Len(commands') = Len(commands)
           /\ \A i \in 1 .. Len(commands) : commands'[i] = Abandoned(commands[i])
           /\ executing' \in Owners
           /\ \A c \in Callers : executing' = c => c = "broadcast" /\ executing = c
<1>1. \A x \in Owners : Abandoned(x) \in Owners
  BY DEF Abandoned, Owners, Callers, Nobody
<1>2. \A i \in 1 .. Len(commands) : commands[i] \in Owners
  BY DEF TypeOK
<1>3. commands' \in [1 .. Len(commands) -> Owners]
  BY <1>1, <1>2 DEF Cancel
<1>4. Len(commands) \in Nat
  BY DEF TypeOK
<1>5. commands' \in Seq(Owners) /\ Len(commands') = Len(commands)
  BY <1>3, <1>4
<1>6. executing' \in Owners
  BY <1>1 DEF Cancel, TypeOK
<1>7. \A c \in Callers : executing' = c => c = "broadcast" /\ executing = c
  BY DEF Cancel, Abandoned, Callers, Nobody
<1> QED
  BY <1>5, <1>6, <1>7 DEF Cancel

\* A call that returns leaves its caller where it waits for nothing.
LEMMA ReturnGoesOn ==
    ASSUME TypeOK, TasksOK, NEW c \in Callers, Sending(c) \/ Awaiting(c), Return(c)
    PROVE  /\ loop' \in {"select", "subscribe", "subscribe_reply", "push",
                         "unsubscribe", "unsubscribe_reply", "sweep_lock"}
           /\ stale' \in 0 .. MaxBeacons
           /\ cycle' \in {"tick", "publish", "publish_reply", "sleep"}
           /\ topics' \in 0 .. MaxBeacons
           /\ loop' \in {"unsubscribe", "unsubscribe_reply", "sweep_lock"} => stale' > 0
           /\ cycle' \in {"publish", "publish_reply"} => topics' > 0
           /\ c = "message" => /\ loop' \notin {"subscribe_reply", "unsubscribe_reply"}
                               /\ UNCHANGED cycle
           /\ c = "broadcast" => cycle' # "publish_reply" /\ UNCHANGED loop
<1> USE PipelineAssumption
<1>1. CASE c = "message"
  BY <1>1 DEF Return, NextStale, TypeOK, TasksOK, Sending, Awaiting, loopVars,
              cycleVars, Reading
<1>2. CASE c = "broadcast"
  BY <1>2 DEF Return, TypeOK, TasksOK, Sending, Awaiting, loopVars, cycleVars,
              Reading
<1> QED
  BY <1>1, <1>2 DEF Callers

\* The empty pipeline.
LEMMA InitIInv == Init => IInv
<1> SUFFICES ASSUME Init PROVE IInv
  OBVIOUS
<1> USE PipelineAssumption DEF Init
<1>1. commands \in Seq(Owners) /\ Len(commands) = 0
  OBVIOUS
<1>2. TypeOK
  <2>1. connected \in BOOLEAN /\ shutdown \in BOOLEAN
    BY Zenon
  <2>2. executing \in Owners
    BY DEF Owners
  <2>3. Len(commands) <= CMD_CAPACITY /\ requests \in 0 .. RequestCapacity
        /\ inbound \in 0 .. MSG_CAPACITY /\ stale \in 0 .. MaxBeacons
        /\ topics \in 0 .. MaxBeacons
    BY <1>1
  <2> QED
    BY <1>1, <2>1, <2>2, <2>3 DEF TypeOK
<1>3. TasksOK
  BY DEF TasksOK, Reading
<1>4. AwaitedReplyComes
  BY <1>1 DEF AwaitedReplyComes, Queued, Awaiting, Callers, Nobody
<1> QED
  BY <1>2, <1>3, <1>4 DEF IInv

\* The calls of the handle.
LEMMA CallStep ==
    ASSUME IInv, NEW c \in Callers, Send(c) \/ SendFails(c) \/ ReplyDropped(c)
    PROVE  IInv'
<1> USE PipelineAssumption DEF IInv
<1>1. CASE Send(c)
  <2> USE <1>1 DEF Send
  <2>1. commands' \in Seq(Owners) /\ Len(commands') = Len(commands) + 1
        /\ (\A i \in 1 .. Len(commands) : commands'[i] = commands[i])
        /\ commands'[Len(commands) + 1] = c
    BY DEF TypeOK, Owners
  <2>2. Len(commands) \in Nat
    BY DEF TypeOK
  <2>3. Len(commands') <= CMD_CAPACITY
    BY <2>1, <2>2
  <2>4. TypeOK'
    BY <2>1, <2>3 DEF TypeOK, AwaitReply, clientVars, loopVars, cycleVars
  <2>5. TasksOK'
    BY DEF TasksOK, AwaitReply, Sending, Reading, loopVars, cycleVars
  <2>6. Awaiting(c)' /\ ~Awaiting(c)
        /\ \A d \in Callers : d # c => (Awaiting(d)' <=> Awaiting(d))
    BY DEF Awaiting, Sending, AwaitReply, loopVars, cycleVars, Callers
  <2>7. AwaitedReplyComes'
    BY SMTT(40), <2>1, <2>2, <2>6 DEF AwaitedReplyComes, Queued
  <2> QED
    BY <2>4, <2>5, <2>7
<1>2. CASE SendFails(c) \/ ReplyDropped(c)
  <2> USE <1>2 DEF SendFails, ReplyDropped, clientVars, commandVars
  <2>1. command = "stopped" /\ Len(commands) = 0 /\ executing = Nobody
        /\ UNCHANGED <<clientVars, commandVars, shutdown>>
    BY DEF TasksOK
  <2>2. loop' \in {"select", "subscribe", "subscribe_reply", "push",
                   "unsubscribe", "unsubscribe_reply", "sweep_lock"}
        /\ stale' \in 0 .. MaxBeacons
        /\ cycle' \in {"tick", "publish", "publish_reply", "sleep"}
        /\ topics' \in 0 .. MaxBeacons
        /\ (loop' \in {"unsubscribe", "unsubscribe_reply", "sweep_lock"} => stale' > 0)
        /\ (cycle' \in {"publish", "publish_reply"} => topics' > 0)
    BY ReturnGoesOn
  <2>3. TypeOK'
    BY <2>1, <2>2 DEF TypeOK
  <2>4. TasksOK'
    BY <2>1, <2>2 DEF TasksOK, Reading
  <2>5. AwaitedReplyComes'
    BY <2>1 DEF AwaitedReplyComes, Queued, Callers, Nobody
  <2> QED
    BY <2>3, <2>4, <2>5
<1> QED
  BY <1>1, <1>2

\* The command task.
LEMMA CommandTaskStep ==
    ASSUME IInv, CommandTask
    PROVE  IInv'
<1> USE PipelineAssumption DEF IInv
<1>1. CASE TakeCommand
  <2> USE <1>1 DEF TakeCommand
  <2>1. commands' \in Seq(Owners) /\ Len(commands') = Len(commands) - 1
        /\ (\A i \in 1 .. Len(commands') : commands'[i] = commands[i + 1])
        /\ executing' = commands[1] /\ executing' \in Owners
        /\ Len(commands) \in Nat \ {0}
    BY DEF TypeOK
  <2>2. TypeOK'
    BY <2>1 DEF TypeOK, clientVars, loopVars, cycleVars
  <2>3. TasksOK'
    BY DEF TasksOK, Reading, loopVars, cycleVars
  <2>4. \A c \in Callers : Awaiting(c)' <=> Awaiting(c)
    BY DEF Awaiting, loopVars, cycleVars
  <2>5. executing = Nobody
    BY DEF TasksOK
  <2>6. AwaitedReplyComes'
    <3> SUFFICES ASSUME NEW c \in Callers
                 PROVE  /\ \A i, j \in Queued(c)' : i = j
                        /\ Queued(c)' # {} => executing' # c
                        /\ Awaiting(c) => executing' = c \/ Queued(c)' # {}
                        /\ ~Awaiting(c) => executing' # c /\ Queued(c)' = {}
      BY <2>4 DEF AwaitedReplyComes
    <3>1. Queued(c)' = {i \in 1 .. Len(commands) - 1 : commands[i + 1] = c}
      BY <2>1 DEF Queued
    <3>2. \A i \in Queued(c)' : i + 1 \in Queued(c) /\ i \in Nat \ {0}
      BY <3>1, <2>1 DEF Queued
    <3>3. \A i \in Queued(c) : (i = 1 /\ executing' = c) \/ i - 1 \in Queued(c)'
      BY <3>1, <2>1 DEF Queued
    <3>4. executing' = c => 1 \in Queued(c)
      BY <2>1 DEF Queued
    <3>5. c # Nobody
      BY DEF Callers, Nobody
    <3> QED
      BY <3>2, <3>3, <3>4, <3>5, <2>5 DEF AwaitedReplyComes
  <2> QED
    BY <2>2, <2>3, <2>6
<1>2. CASE ExecuteCommand
  <2> USE <1>2 DEF ExecuteCommand
  <2>1. requests' \in 0 .. RequestCapacity
    BY DEF TypeOK, RequestReturns, HasRoom
  <2>2. executing' \in Owners
    BY DEF Owners
  <2>3. CASE executing = Nobody
    <3>1. UNCHANGED <<loopVars, cycleVars>>
      BY <2>3 DEF Reply
    <3>2. TypeOK'
      BY <2>1, <2>2, <3>1 DEF TypeOK, loopVars, cycleVars
    <3>3. TasksOK'
      BY <3>1 DEF TasksOK, Reading, loopVars, cycleVars
    <3>4. AwaitedReplyComes'
      BY <2>3, <3>1 DEF AwaitedReplyComes, Queued, Awaiting, loopVars, cycleVars,
                        Callers, Nobody
    <3> QED
      BY <3>2, <3>3, <3>4
  <2>4. ASSUME NEW c \in Callers, executing = c
        PROVE  IInv'
    <3>1. Return(c) /\ Awaiting(c)
      BY <2>4 DEF Reply, AwaitedReplyComes, Callers, Nobody
    <3>2. loop' \in {"select", "subscribe", "subscribe_reply", "push",
                     "unsubscribe", "unsubscribe_reply", "sweep_lock"}
          /\ stale' \in 0 .. MaxBeacons
          /\ cycle' \in {"tick", "publish", "publish_reply", "sleep"}
          /\ topics' \in 0 .. MaxBeacons
          /\ (loop' \in {"unsubscribe", "unsubscribe_reply", "sweep_lock"} => stale' > 0)
          /\ (cycle' \in {"publish", "publish_reply"} => topics' > 0)
          /\ (c = "message" =>
                loop' \notin {"subscribe_reply", "unsubscribe_reply"} /\ UNCHANGED cycle)
          /\ (c = "broadcast" => cycle' # "publish_reply" /\ UNCHANGED loop)
      BY <3>1, <2>4, ReturnGoesOn
    <3>3. TypeOK'
      BY <2>1, <2>2, <3>2 DEF TypeOK
    <3>4. TasksOK'
      BY <3>2 DEF TasksOK, Reading
    <3>5. ~Awaiting(c)'
          /\ \A d \in Callers : d # c => (Awaiting(d)' <=> Awaiting(d))
      BY <3>2, <2>4 DEF Awaiting, Callers
    <3>6. AwaitedReplyComes'
      BY <3>5, <2>4 DEF AwaitedReplyComes, Queued, Callers, Nobody
    <3> QED
      BY <3>3, <3>4, <3>6
  <2> QED
    BY <2>3, <2>4 DEF TypeOK, Owners
<1>3. CASE CommandShutdown
  <2> USE <1>3 DEF CommandShutdown
  <2>1. commands' \in Seq(Owners) /\ Len(commands') = 0
    OBVIOUS
  <2>2. TypeOK'
    BY <2>1 DEF TypeOK, clientVars, loopVars, cycleVars
  <2>3. TasksOK'
    BY DEF TasksOK, Reading, loopVars, cycleVars
  <2>4. AwaitedReplyComes'
    BY <2>1 DEF AwaitedReplyComes, Queued, TasksOK, Callers, Nobody
  <2> QED
    BY <2>2, <2>3, <2>4
<1> QED
  BY <1>1, <1>2, <1>3 DEF CommandTask

\* The event loop and stop, which touch neither the commands nor the callers'
\* waits.
LEMMA EventLoopStep ==
    ASSUME IInv, EventLoop \/ Stop
    PROVE  IInv'
<1> USE PipelineAssumption DEF IInv
<1>1. UNCHANGED <<commandVars, loopVars, cycleVars>>
  BY DEF EventLoop, Stop, PollConnAck, PollRequest, PollPublish, Forward,
         PollError, SleepEnds, EventLoopShutdown, Disconnect
<1>2. /\ requests' \in 0 .. RequestCapacity
      /\ inbound' \in 0 .. MSG_CAPACITY
      /\ eventloop' \in {"poll", "forward", "sleep", "disconnect", "stopped"}
  BY DEF EventLoop, Stop, PollConnAck, PollRequest, PollPublish, Forward,
         PollError, SleepEnds, EventLoopShutdown, Disconnect, TypeOK, clientVars
<1>3. connected' \in BOOLEAN /\ shutdown' \in BOOLEAN
  BY Zenon DEF EventLoop, Stop, PollConnAck, PollRequest, PollPublish, Forward,
         PollError, SleepEnds, EventLoopShutdown, Disconnect, TypeOK, clientVars
<1>4. TypeOK'
  BY <1>1, <1>2, <1>3 DEF TypeOK, commandVars, loopVars, cycleVars
<1>5. TasksOK'
  BY <1>1 DEF TasksOK, Reading, commandVars, loopVars, cycleVars
<1>6. AwaitedReplyComes'
  BY <1>1 DEF AwaitedReplyComes, Queued, Awaiting, commandVars, loopVars, cycleVars
<1> QED
  BY <1>4, <1>5, <1>6

\* The beginning and the end of a cycle of the broadcast loop.
LEMMA CycleStep ==
    ASSUME IInv, BroadcastLoop
    PROVE  IInv'
<1> USE PipelineAssumption DEF IInv, BroadcastLoop, CycleStart, CycleSleepEnds
<1>1. TypeOK'
  BY DEF TypeOK, clientVars, commandVars, loopVars
<1>2. TasksOK'
  BY DEF TasksOK, Reading, commandVars, loopVars
<1>3. AwaitedReplyComes'
  BY DEF AwaitedReplyComes, Queued, Awaiting, commandVars, loopVars
<1> QED
  BY <1>1, <1>2, <1>3

\* The message loop.  Dropping a sweep abandons its command.
LEMMA MessageLoopStep ==
    ASSUME IInv, MessageLoop
    PROVE  IInv'
<1> USE PipelineAssumption DEF IInv
<1>1. CASE RegisterListen \/ RegisterBroadcast \/ HandleMessage
  <2> USE <1>1 DEF RegisterListen, RegisterBroadcast, HandleMessage
  <2>1. Cancel /\ loop' \in {"subscribe", "push", "select"}
        /\ UNCHANGED <<requests, eventloop, connected, command, shutdown, cycleVars>>
    BY DEF clientVars
  <2>2. inbound' \in 0 .. MSG_CAPACITY
    BY DEF TypeOK, clientVars
  <2>3. /\ commands' \in Seq(Owners)
        /\ Len(commands') = Len(commands)
        /\ \A i \in 1 .. Len(commands) : commands'[i] = Abandoned(commands[i])
        /\ executing' \in Owners
        /\ \A c \in Callers : executing' = c => c = "broadcast" /\ executing = c
    BY <2>1, CancelledQueue
  <2>4. stale' = 0 /\ 0 \in 0 .. MaxBeacons
    BY <2>1 DEF Cancel
  <2>5. TypeOK'
    BY <2>1, <2>2, <2>3, <2>4 DEF TypeOK, cycleVars
  <2>6. command # "request" => executing' = Nobody
    BY <2>1 DEF TasksOK, Cancel, Abandoned, Nobody
  <2>7. command = "stopped" => Len(commands') = 0
    BY <2>3 DEF TasksOK
  <2>8. TasksOK'
    BY <2>1, <2>6, <2>7 DEF TasksOK, Reading, cycleVars
  <2>9. AwaitedReplyComes'
    <3>1. ~Awaiting("message")' /\ (Awaiting("broadcast")' <=> Awaiting("broadcast"))
      BY <2>1 DEF Awaiting, cycleVars
    <3>2. Queued("message")' = {} /\ executing' # "message"
      BY <2>3 DEF Queued, Abandoned, Nobody, Callers
    <3>3. Queued("broadcast")' = Queued("broadcast")
      BY <2>3 DEF Queued, Abandoned, Nobody
    <3>4. executing' = "broadcast" <=> executing = "broadcast"
      BY <2>1 DEF Cancel, Abandoned, Nobody
    <3>5. command' = command
      BY <2>1
    <3> QED
      BY <3>1, <3>2, <3>3, <3>4, <3>5 DEF AwaitedReplyComes, Callers
  <2> QED
    BY <2>5, <2>8, <2>9
<1>2. CASE PushBroadcastTopic \/ SweepRetain
           \/ \E n \in 1 .. MaxBeacons : CheckTimeouts(n)
  <2> USE <1>2 DEF PushBroadcastTopic, CheckTimeouts, SweepRetain, NextStale
  <2>1. /\ loop \notin {"subscribe_reply", "unsubscribe_reply"}
        /\ loop' \in {"select", "unsubscribe", "sweep_lock"}
        /\ stale' \in 0 .. MaxBeacons
        /\ loop' # "select" => stale' > 0
        /\ UNCHANGED <<clientVars, commandVars, shutdown, cycleVars>>
    BY DEF TypeOK, TasksOK
  <2>2. TypeOK'
    BY <2>1 DEF TypeOK, clientVars, commandVars, cycleVars
  <2>3. TasksOK'
    BY <2>1 DEF TasksOK, Reading, commandVars, cycleVars
  <2>4. AwaitedReplyComes'
    BY <2>1 DEF AwaitedReplyComes, Queued, Awaiting, commandVars, cycleVars
  <2> QED
    BY <2>2, <2>3, <2>4
<1> QED
  BY <1>1, <1>2 DEF MessageLoop

\* Every step of every task preserves the invariant.
LEMMA NextIInv == IInv /\ [Next]_vars => IInv'
<1> SUFFICES ASSUME IInv, [Next]_vars PROVE IInv'
  OBVIOUS
<1>1. CASE UNCHANGED vars
  BY <1>1 DEF IInv, TypeOK, TasksOK, AwaitedReplyComes, Queued, Awaiting, Reading,
              vars, clientVars, commandVars, loopVars, cycleVars
<1>2. CASE Next
  BY <1>2, CallStep, CommandTaskStep, EventLoopStep, CycleStep, MessageLoopStep
     DEF Next, Call
<1> QED
  BY <1>1, <1>2

\* The invariant the three theorems rest on.
LEMMA Invariance == Spec => []IInv
<1> QED
  BY InitIInv, NextIInv, PTL DEF Spec

\* The channels never hold more than their capacity, and every task is where
\* tasks.rs and app.rs can be.
THEOREM TypeCorrect == Spec => []TypeOK
<1>1. IInv => TypeOK
  BY DEF IInv
<1> QED
  BY <1>1, Invariance, PTL

\* MqttClientHandle: a caller that awaits a reply has exactly one command in the
\* pipeline, whatever sweeps are dropped, until the command task stops.
THEOREM RepliesCome == Spec => []AwaitedReplyComes
<1>1. IInv => AwaitedReplyComes
  BY DEF IInv
<1> QED
  BY <1>1, Invariance, PTL

\* The four tasks wait for each other only when the request channel is full and
\* the event loop waits for the inbound channel or in disconnect.
THEOREM OneCircularWait == Spec => []StuckOnlyWhenFull
<1>1. IInv => StuckOnlyWhenFull
  <2> SUFFICES ASSUME IInv, Stuck
               PROVE  /\ requests = RequestCapacity /\ command = "request"
                      /\ \/ eventloop = "forward" /\ inbound = MSG_CAPACITY
                         \/ eventloop = "disconnect"
    BY DEF StuckOnlyWhenFull
  <2> USE PipelineAssumption DEF IInv
  <2>1. cycle \in {"publish", "publish_reply"}
    BY DEF Stuck, BroadcastLoopMoves, MessageLoopMoves, WriterWaits, Reading, TypeOK
  <2>2. command # "stopped"
    BY <2>1 DEF Stuck, BroadcastLoopMoves, CallMoves, Sending, Awaiting
  <2>3. commands # <<>> \/ executing = "broadcast"
    <3>1. CASE cycle = "publish"
      BY <3>1, <2>2 DEF Stuck, BroadcastLoopMoves, CallMoves, Sending, TypeOK
    <3>2. CASE cycle = "publish_reply"
      BY <3>2, <2>2 DEF AwaitedReplyComes, Awaiting, Queued, Callers, TypeOK
    <3> QED
      BY <2>1, <3>1, <3>2
  <2>4. command = "request"
    BY <2>2, <2>3 DEF Stuck, CommandTaskMoves, TypeOK, TasksOK, Nobody
  <2>5. requests = RequestCapacity /\ eventloop # "stopped"
    BY <2>4 DEF Stuck, CommandTaskMoves, RequestReturns, HasRoom, TypeOK
  <2>6. \/ eventloop = "forward" /\ inbound = MSG_CAPACITY
        \/ eventloop = "disconnect"
    BY <2>5 DEF Stuck, EventLoopMoves, TypeOK
  <2> QED
    BY <2>4, <2>5, <2>6
<1> QED
  BY <1>1, Invariance, PTL

\* The command task waits for room in a full request channel, and the event
\* loop for what cannot come: for its own disconnect request, or for a message
\* loop that waits for the command task.
CircularWait ==
    /\ requests = RequestCapacity
    /\ command = "request"
    /\ \/ eventloop = "disconnect"
       \/ /\ eventloop = "forward" /\ inbound = MSG_CAPACITY
          /\ loop \in {"subscribe", "subscribe_reply"}

\* No step of any task, and no stop of the service, ends such a wait.
CircularWaitIsFinal == [][CircularWait => CircularWait']_vars

\* A circular wait is for good: the shutdown signal is looked at between two
\* commands and between two polls, and neither task gets there.
THEOREM CircularWaitStays == Spec => CircularWaitIsFinal
<1>1. [Next]_vars => [CircularWait => CircularWait']_vars
  <2> SUFFICES ASSUME Next, CircularWait PROVE CircularWait'
    BY DEF vars
  <2>0. /\ requests = RequestCapacity /\ RequestCapacity \in Nat /\ MSG_CAPACITY \in Nat
        /\ command = "request" /\ eventloop \in {"disconnect", "forward"}
        /\ eventloop = "forward" =>
             inbound = MSG_CAPACITY /\ loop \in {"subscribe", "subscribe_reply"}
    BY PipelineAssumption DEF CircularWait
  <2>1. ~HasRoom /\ ~RequestReturns
    BY <2>0 DEF HasRoom, RequestReturns
  <2>2. ~CommandTask
    BY <2>0, <2>1 DEF CommandTask, TakeCommand, ExecuteCommand, CommandShutdown
  <2>3. ~EventLoop
    BY <2>0, <2>1 DEF EventLoop, PollConnAck, PollRequest, PollPublish, Forward, PollError,
                      SleepEnds, EventLoopShutdown, Disconnect
  <2>4. CASE Stop \/ BroadcastLoop
    BY <2>4 DEF Stop, BroadcastLoop, CycleStart, CycleSleepEnds, CircularWait, clientVars,
                commandVars, loopVars
  <2>5. CASE MessageLoop
    <3>1. requests' = requests /\ eventloop' = eventloop /\ command' = command
      BY <2>5 DEF MessageLoop, RegisterListen, RegisterBroadcast, PushBroadcastTopic,
                  HandleMessage, CheckTimeouts, SweepRetain, clientVars, commandVars
    <3>2. eventloop = "disconnect"
      BY <2>0, <2>5 DEF MessageLoop, RegisterListen, RegisterBroadcast, PushBroadcastTopic,
                  HandleMessage, CheckTimeouts, SweepRetain, Selectable
    <3> QED
      BY <2>0, <3>1, <3>2 DEF CircularWait
  <2>6. ASSUME NEW c \in Callers, Send(c) \/ SendFails(c) \/ ReplyDropped(c)
        PROVE  CircularWait'
    <3>1. Send(c)
      BY <2>0, <2>6 DEF SendFails, ReplyDropped
    <3>2. UNCHANGED <<clientVars, command>> /\ AwaitReply(c) /\ Sending(c)
      BY <3>1 DEF Send
    <3>3. loop \in {"subscribe", "subscribe_reply"} => loop' \in {"subscribe", "subscribe_reply"}
      BY <3>2 DEF AwaitReply, Sending, loopVars
    <3> QED
      BY <2>0, <3>2, <3>3 DEF CircularWait, clientVars
  <2> QED
    BY <2>2, <2>3, <2>4, <2>5, <2>6 DEF Next, Call
<1> QED
  BY <1>1, PTL DEF Spec, CircularWaitIsFinal
=============================================================================
