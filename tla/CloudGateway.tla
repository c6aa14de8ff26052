---------------------------- MODULE CloudGateway ----------------------------
(***************************************************************************)
(* The WebSocket connection to a cloud gateway                             *)
(* (services/cloud_gateway/cloud_gateway_service.rs).  One task connects,  *)
(* sends a Register frame, then serves a select! over the shutdown signal, *)
(* the queue of outbound messages and the inbound frames; when the         *)
(* connection breaks it sleeps and starts over.                            *)
(*                                                                         *)
(* Messages are the numbers of the calls that queued them.  Serialising    *)
(* one cannot fail.  Inbound text is only logged, and a failed Pong is     *)
(* ignored, so neither changes anything here.                              *)
(***************************************************************************)
EXTENDS Naturals, Sequences

CONSTANTS
    MaxMessages,             \* bound: messages queued in a behaviour
    OUTBOUND_CAPACITY,       \* 64 in the code
    INITIAL_RECONNECT_DELAY,
    MAX_RECONNECT_DELAY

ASSUME CloudGatewayAssumption ==
    /\ MaxMessages \in Nat
    /\ OUTBOUND_CAPACITY \in Nat \ {0}
    /\ INITIAL_RECONNECT_DELAY \in Nat \ {0}
    /\ MAX_RECONNECT_DELAY \in Nat
    /\ INITIAL_RECONNECT_DELAY <= MAX_RECONNECT_DELAY

VARIABLES
    accepted,   \* messages queued so far
    outbound,   \* outbound_rx
    delivered,  \* messages written to a connection
    shutdown,   \* shutdown_tx was used or dropped
    pc,         \* where the connection task is
    sending,    \* the message it has taken from the queue
    delay,
    registered  \* the Register frame was written to this connection

vars == <<accepted, outbound, delivered, shutdown, pc, sending, delay, registered>>

NoMessage == 0

TypeOK ==
    /\ accepted \in 0 .. MaxMessages
    /\ outbound \in Seq(Nat \ {0})
    /\ delivered \in Seq(Nat \ {0})
    /\ shutdown \in BOOLEAN
    /\ pc \in {"connect", "register", "serve", "send", "sleep", "stopped"}
    /\ sending \in Nat
    /\ delay \in INITIAL_RECONNECT_DELAY .. MAX_RECONNECT_DELAY
    /\ registered \in BOOLEAN

Init ==
    /\ accepted = 0 /\ outbound = <<>> /\ delivered = <<>>
    /\ shutdown = FALSE
    /\ pc = "connect"
    /\ sending = NoMessage
    /\ delay = INITIAL_RECONNECT_DELAY
    /\ registered = FALSE
-----------------------------------------------------------------------------
\* CloudGatewayHandle::send, which waits while the queue is full and fails once
\* the task is gone.
Enqueue ==
    /\ accepted < MaxMessages
    /\ pc # "stopped"
    /\ Len(outbound) < OUTBOUND_CAPACITY
    /\ accepted' = accepted + 1
    /\ outbound' = Append(outbound, accepted')
    /\ UNCHANGED <<delivered, shutdown, pc, sending, delay, registered>>

\* stop(), or the sender connect_to_gateway returned is dropped.
SignalShutdown ==
    /\ ~shutdown
    /\ shutdown' = TRUE
    /\ UNCHANGED <<accepted, outbound, delivered, pc, sending, delay, registered>>
-----------------------------------------------------------------------------
\* Faulty: the attempt to connect is not raced with the shutdown signal.
ShutdownUnseen == FALSE /\ UNCHANGED vars

ShutdownBeforeConnect ==
    /\ pc = "connect" /\ shutdown
    /\ pc' = "stopped"
    /\ UNCHANGED <<accepted, outbound, delivered, shutdown, sending, delay, registered>>

ConnectFails ==
    /\ pc = "connect"
    /\ pc' = "sleep"
    /\ UNCHANGED <<accepted, outbound, delivered, shutdown, sending, delay, registered>>

ConnectSucceeds ==
    /\ pc = "connect"
    /\ pc' = "register"
    /\ delay' = INITIAL_RECONNECT_DELAY
    /\ registered' = FALSE
    /\ UNCHANGED <<accepted, outbound, delivered, shutdown, sending>>

RegisterSent ==
    /\ pc = "register"
    /\ pc' = "serve"
    /\ registered' = TRUE
    /\ UNCHANGED <<accepted, outbound, delivered, shutdown, sending, delay>>

\* Faulty: the error is logged and the connection served.
AfterRegisterFails == "serve"

\* continue 'reconnect: without a sleep.
AfterRegisterFailed == "connect"

RegisterFails ==
    /\ pc = "register"
    /\ pc' = AfterRegisterFailed
    /\ UNCHANGED <<accepted, outbound, delivered, shutdown, sending, delay, registered>>
-----------------------------------------------------------------------------
ServeShutdown ==
    /\ pc = "serve" /\ shutdown
    /\ pc' = "stopped"
    /\ UNCHANGED <<accepted, outbound, delivered, shutdown, sending, delay, registered>>

TakeMessage ==
    /\ pc = "serve" /\ outbound # <<>>
    /\ pc' = "send"
    /\ sending' = Head(outbound)
    /\ outbound' = Tail(outbound)
    /\ UNCHANGED <<accepted, delivered, shutdown, delay, registered>>

\* Faulty: the message is not let go.
SendRepeats ==
    /\ pc = "send"
    /\ Len(delivered) < MaxMessages
    /\ delivered' = Append(delivered, sending)
    /\ UNCHANGED <<accepted, outbound, shutdown, pc, sending, delay, registered>>

SendSucceeds ==
    /\ pc = "send"
    /\ pc' = "serve"
    /\ delivered' = Append(delivered, sending)
    /\ sending' = NoMessage
    /\ UNCHANGED <<accepted, outbound, shutdown, delay, registered>>

\* Faulty: the message goes to the back of the queue.
SendRequeues ==
    /\ pc = "send"
    /\ pc' = "sleep"
    /\ outbound' = Append(outbound, sending)
    /\ sending' = NoMessage
    /\ UNCHANGED <<accepted, delivered, shutdown, delay, registered>>

\* The message is gone.
SendFails ==
    /\ pc = "send"
    /\ pc' = "sleep"
    /\ sending' = NoMessage
    /\ UNCHANGED <<accepted, outbound, delivered, shutdown, delay, registered>>

\* A Close frame, the end of the stream or an error.
ConnectionEnds ==
    /\ pc = "serve"
    /\ pc' = "sleep"
    /\ UNCHANGED <<accepted, outbound, delivered, shutdown, sending, delay, registered>>

Doubled ==
    IF 2 * delay < MAX_RECONNECT_DELAY THEN 2 * delay ELSE MAX_RECONNECT_DELAY

\* The sleep does not listen for the shutdown signal.
SleepEnds ==
    /\ pc = "sleep"
    /\ pc' = "connect"
    /\ delay' = Doubled
    /\ UNCHANGED <<accepted, outbound, delivered, shutdown, sending, registered>>
-----------------------------------------------------------------------------
Next ==
    \/ Enqueue
    \/ SignalShutdown
    \/ ShutdownBeforeConnect
    \/ ConnectFails
    \/ ConnectSucceeds
    \/ RegisterSent
    \/ RegisterFails
    \/ ServeShutdown
    \/ TakeMessage
    \/ SendSucceeds
    \/ SendFails
    \/ ConnectionEnds
    \/ SleepEnds

Spec == Init /\ [][Next]_vars

(***************************************************************************)
(* Attempts to connect and sends come to an end, sleeps are over some day, *)
(* and a signal that is there whenever a select! is entered is chosen.     *)
(***************************************************************************)
TaskFairness ==
    /\ WF_vars(ConnectFails \/ ConnectSucceeds)
    /\ WF_vars(RegisterSent \/ RegisterFails)
    /\ WF_vars(SendSucceeds \/ SendFails)
    /\ WF_vars(SleepEnds)
    /\ SF_vars(ShutdownBeforeConnect)
    /\ SF_vars(ServeShutdown)

\* A gateway that is not down for good: each kind of attempt succeeds in the
\* end if it is made over and over.
GatewayFairness ==
    /\ SF_vars(ConnectSucceeds)
    /\ SF_vars(RegisterSent)
    /\ SF_vars(TakeMessage)
    /\ SF_vars(SendSucceeds)

FairSpec == Spec /\ TaskFairness

ReachableSpec == FairSpec /\ GatewayFairness
-----------------------------------------------------------------------------
\* A message is never the first frame on a connection: the gateway has the
\* Register frame, although a failed one is retried on another connection.
RegisterComesFirst == pc \in {"serve", "send"} => registered

\* The link, for those who queue messages: the one in flight is still queued.
LinkQueue ==
    IF pc = "stopped" THEN <<>>
    ELSE IF pc = "send" THEN <<sending>> \o outbound ELSE outbound

Link == INSTANCE LossyQueue WITH queue <- LinkQueue, closed <- (pc = "stopped")

\* The connection task implements the link.
LinkSpec == Link!Spec

\* Messages leave in the order they were queued, each at most once, over any
\* number of connections.
DeliveredInOrder == Link!DeliveredInOrder

\* The back-off only shrinks because a connection was established.
BackoffShrinksOnConnect == [][delay' < delay => pc' = "register"]_vars

\* The task ends after a shutdown signal, wherever it was when that came.
ShutdownStops == shutdown ~> pc = "stopped"
-----------------------------------------------------------------------------
(***************************************************************************)
(* A statement of the source that does not hold.                           *)
(***************************************************************************)

\* run_beacon_message_loop on the message it queues: "the connection task will
\* deliver it after the Register frame is sent".
QueuedIsDelivered ==
    \A m \in 1 .. MaxMessages :
        accepted >= m ~> shutdown \/ \E i \in DOMAIN delivered : delivered[i] = m
=============================================================================
