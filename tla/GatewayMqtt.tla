----------------------------- MODULE GatewayMqtt -----------------------------
(***************************************************************************)
(* The MQTT connection to the cloud gateway (services/gateway_mqtt).  One  *)
(* task logs in, connects with the credentials it was given, then serves a *)
(* select! over the shutdown signal, the queue of outbound messages and    *)
(* the MQTT event loop.  Publishing, announcing and disconnecting put      *)
(* requests in a bounded channel that only polling the event loop drains,  *)
(* and the task polls only in that select!.                                *)
(*                                                                         *)
(* Messages are the numbers of the calls that queued them, as in           *)
(* CloudGateway.  Inbound frames are only logged.                          *)
(***************************************************************************)
EXTENDS Naturals, Sequences

CONSTANTS
    MaxMessages,             \* bound: messages queued in a behaviour
    OUTBOUND_CAPACITY,       \* 64 in the code
    RequestCapacity,         \* AsyncClient::new(opts, 10)
    INITIAL_RECONNECT_DELAY,
    MAX_RECONNECT_DELAY

\* The requests on_connected makes fit in the channel, with one to spare.
ASSUME GatewayMqttAssumption ==
    /\ MaxMessages \in Nat
    /\ OUTBOUND_CAPACITY \in Nat \ {0}
    /\ RequestCapacity \in Nat /\ RequestCapacity > 3
    /\ INITIAL_RECONNECT_DELAY \in Nat \ {0}
    /\ MAX_RECONNECT_DELAY \in Nat
    /\ INITIAL_RECONNECT_DELAY <= MAX_RECONNECT_DELAY

VARIABLES
    accepted,   \* messages queued so far
    outbound,   \* outbound_rx
    requests,   \* the client's request channel: messages and Control requests
    delivered,  \* messages the event loop has sent
    shutdown,   \* shutdown_tx was used or dropped
    pc,         \* where the connection task is
    sending,    \* the message it has taken from the queue
    announcing, \* requests on_connected still has to make
    cached,     \* cached is Some
    refused,    \* the broker refused the credentials that were last used
    connected,  \* this event loop has seen its ConnAck
    delay

loginVars == <<cached, refused>>
queueVars == <<accepted, outbound, delivered>>
vars == <<queueVars, requests, shutdown, pc, sending, announcing, loginVars,
          connected, delay>>

\* A subscribe, the alive notification; no message is numbered 0.
Control == 0
NoMessage == 0

TypeOK ==
    /\ accepted \in 0 .. MaxMessages
    /\ outbound \in Seq(Nat \ {0})
    /\ requests \in Seq(Nat)
    /\ Len(requests) <= RequestCapacity
    /\ delivered \in Seq(Nat \ {0})
    /\ shutdown \in BOOLEAN
    /\ pc \in {"login", "options", "serve", "publish", "announce",
               "disconnect", "backoff", "stopped"}
    /\ sending \in Nat
    /\ announcing \in 0 .. 3
    /\ cached \in BOOLEAN /\ refused \in BOOLEAN /\ connected \in BOOLEAN
    /\ delay \in INITIAL_RECONNECT_DELAY .. MAX_RECONNECT_DELAY

Init ==
    /\ accepted = 0 /\ outbound = <<>> /\ delivered = <<>>
    /\ requests = <<>>
    /\ shutdown = FALSE
    /\ pc = "login"
    /\ sending = NoMessage
    /\ announcing = 0
    /\ cached = FALSE /\ refused = FALSE /\ connected = FALSE
    /\ delay = INITIAL_RECONNECT_DELAY
-----------------------------------------------------------------------------
\* GatewayMqttHandle::publish, which waits while the queue is full and fails
\* once the task is gone.
Enqueue ==
    /\ accepted < MaxMessages
    /\ pc # "stopped"
    /\ Len(outbound) < OUTBOUND_CAPACITY
    /\ accepted' = accepted + 1
    /\ outbound' = Append(outbound, accepted')
    /\ UNCHANGED <<delivered, requests, shutdown, pc, sending, announcing,
                   loginVars, connected, delay>>

SignalShutdown ==
    /\ ~shutdown
    /\ shutdown' = TRUE
    /\ UNCHANGED <<queueVars, requests, pc, sending, announcing, loginVars,
                   connected, delay>>
-----------------------------------------------------------------------------
(***************************************************************************)
(* The credentials and the options of the connection.                      *)
(***************************************************************************)
UseCached ==
    /\ pc = "login" /\ cached
    /\ pc' = "options"
    /\ UNCHANGED <<queueVars, requests, shutdown, sending, announcing,
                   loginVars, connected, delay>>

LoginSucceeds ==
    /\ pc = "login" /\ ~cached
    /\ cached' = TRUE
    /\ refused' = FALSE
    /\ pc' = "options"
    /\ UNCHANGED <<queueVars, requests, shutdown, sending, announcing,
                   connected, delay>>

\* Unauthorized or Transient: both back off and log in again.
LoginFails ==
    /\ pc = "login" /\ ~cached
    /\ pc' = "backoff"
    /\ UNCHANGED <<queueVars, requests, shutdown, sending, announcing,
                   loginVars, connected, delay>>

ShutdownAtLogin ==
    /\ pc = "login" /\ ~cached /\ shutdown
    /\ pc' = "stopped"
    /\ UNCHANGED <<queueVars, requests, shutdown, sending, announcing,
                   loginVars, connected, delay>>

\* build_mqtt_opts and AsyncClient::new: a new request channel.
BuildClient ==
    /\ pc = "options"
    /\ pc' = "serve"
    /\ requests' = <<>>
    /\ connected' = FALSE
    /\ UNCHANGED <<queueVars, shutdown, sending, announcing, loginVars, delay>>

\* The CA file cannot be read.
BuildFails ==
    /\ pc = "options"
    /\ pc' = "backoff"
    /\ UNCHANGED <<queueVars, requests, shutdown, sending, announcing,
                   loginVars, connected, delay>>
-----------------------------------------------------------------------------
(***************************************************************************)
(* The select! and what its branches await.                                *)
(***************************************************************************)
TakeMessage ==
    /\ pc = "serve" /\ outbound # <<>>
    /\ pc' = "publish"
    /\ sending' = Head(outbound)
    /\ outbound' = Tail(outbound)
    /\ UNCHANGED <<accepted, delivered, requests, shutdown, announcing,
                   loginVars, connected, delay>>

\* The client finds the topic invalid and returns the error at once; the task
\* logs it, and the message is gone.
PublishRejected ==
    /\ pc = "serve" /\ outbound # <<>>
    /\ outbound' = Tail(outbound)
    /\ UNCHANGED <<accepted, delivered, requests, shutdown, pc, sending,
                   announcing, loginVars, connected, delay>>

HasRoom == Len(requests) < RequestCapacity

Publish ==
    /\ pc = "publish" /\ HasRoom
    /\ pc' = "serve"
    /\ requests' = Append(requests, sending)
    /\ sending' = NoMessage
    /\ UNCHANGED <<queueVars, shutdown, announcing, loginVars, connected, delay>>

\* The ConnAck arrives: on_connected has two subscribes and a publish to make,
\* n of them with topics that the client does not reject.
ConnAck(n) ==
    /\ pc = "serve" /\ ~connected
    /\ connected' = TRUE
    /\ delay' = INITIAL_RECONNECT_DELAY
    /\ pc' = IF n = 0 THEN "serve" ELSE "announce"
    /\ announcing' = n
    /\ UNCHANGED <<queueVars, requests, shutdown, sending, loginVars>>

Announce ==
    /\ pc = "announce" /\ HasRoom
    /\ requests' = Append(requests, Control)
    /\ announcing' = announcing - 1
    /\ pc' = IF announcing = 1 THEN "serve" ELSE "announce"
    /\ UNCHANGED <<queueVars, shutdown, sending, loginVars, connected, delay>>

\* Faulty: the request is sent and stays in the channel.
RequestsKept == requests

RequestsAfterPoll == Tail(requests)

\* The event loop takes the next request and sends it.
PollRequest ==
    /\ pc = "serve" /\ connected /\ requests # <<>>
    /\ requests' = RequestsAfterPoll
    /\ delivered' = IF Head(requests) = Control THEN delivered
                    ELSE Append(delivered, Head(requests))
    /\ UNCHANGED <<accepted, outbound, shutdown, pc, sending, announcing,
                   loginVars, connected, delay>>

\* Faulty: a refused connection is treated like a lost one.
CachedAfterRefusalKept == cached

CachedAfterRefusal == FALSE

\* ConnectionRefused, whatever its code says: bad credentials or, say, a
\* server that is unavailable.
ConnectionRefused(bad) ==
    /\ pc = "serve" /\ ~connected
    /\ cached' = CachedAfterRefusal
    /\ refused' = bad
    /\ pc' = "backoff"
    /\ UNCHANGED <<queueVars, requests, shutdown, sending, announcing,
                   connected, delay>>

\* Any other error.
ConnectionLost ==
    /\ pc = "serve"
    /\ pc' = "backoff"
    /\ UNCHANGED <<queueVars, requests, shutdown, sending, announcing,
                   loginVars, connected, delay>>

ShutdownAtServe ==
    /\ pc = "serve" /\ shutdown
    /\ pc' = "disconnect"
    /\ UNCHANGED <<queueVars, requests, shutdown, sending, announcing,
                   loginVars, connected, delay>>

\* disconnect is a request like the others, and nobody polls it any more.
Disconnect ==
    /\ pc = "disconnect" /\ HasRoom
    /\ requests' = Append(requests, Control)
    /\ pc' = "stopped"
    /\ UNCHANGED <<queueVars, shutdown, sending, announcing, loginVars,
                   connected, delay>>
-----------------------------------------------------------------------------
(***************************************************************************)
(* backoff: a sleep that shutdown interrupts, then twice the delay.        *)
(***************************************************************************)
Doubled ==
    IF 2 * delay < MAX_RECONNECT_DELAY THEN 2 * delay ELSE MAX_RECONNECT_DELAY

BackoffEnds ==
    /\ pc = "backoff"
    /\ pc' = "login"
    /\ delay' = Doubled
    /\ UNCHANGED <<queueVars, requests, shutdown, sending, announcing,
                   loginVars, connected>>

\* Faulty: the sleep does not watch for the signal.
BackoffUninterrupted == FALSE /\ UNCHANGED vars

ShutdownAtBackoff ==
    /\ pc = "backoff" /\ shutdown
    /\ pc' = "stopped"
    /\ delay' = Doubled
    /\ UNCHANGED <<queueVars, requests, shutdown, sending, announcing,
                   loginVars, connected>>
-----------------------------------------------------------------------------
Next ==
    \/ Enqueue
    \/ SignalShutdown
    \/ UseCached
    \/ LoginSucceeds
    \/ LoginFails
    \/ ShutdownAtLogin
    \/ BuildClient
    \/ BuildFails
    \/ TakeMessage
    \/ PublishRejected
    \/ Publish
    \/ \E n \in 0 .. 3 : ConnAck(n)
    \/ Announce
    \/ PollRequest
    \/ \E bad \in BOOLEAN : ConnectionRefused(bad)
    \/ ConnectionLost
    \/ ShutdownAtServe
    \/ Disconnect
    \/ BackoffEnds
    \/ ShutdownAtBackoff

Spec == Init /\ [][Next]_vars

(***************************************************************************)
(* Awaits that can complete do, and select! polls in a random order, so a  *)
(* signal that is there every time it is entered is noticed.               *)
(***************************************************************************)
Fairness ==
    /\ WF_vars(UseCached)
    /\ WF_vars(LoginSucceeds \/ LoginFails)
    /\ WF_vars(BuildClient \/ BuildFails)
    /\ WF_vars(Publish)
    /\ WF_vars(Announce)
    /\ WF_vars(Disconnect)
    /\ WF_vars(BackoffEnds)
    /\ SF_vars(ShutdownAtLogin)
    /\ SF_vars(ShutdownAtServe)
    /\ SF_vars(ShutdownAtBackoff)

FairSpec == Spec /\ Fairness
-----------------------------------------------------------------------------
\* Credentials that the broker has refused are not used for another connection:
\* a login comes first, whatever fails in between.
RefusedCredentialsAreDropped ==
    pc \notin {"login", "backoff", "stopped"} => cached /\ ~refused

\* The back-off only shrinks when the broker has accepted a connection; logging
\* in, or reaching the broker, is not enough.
BackoffShrinksOnConnAck == [][delay' < delay => ~connected /\ connected']_vars

\* The link, for those who publish: requests in the channel of a connection
\* that ended are lost, and so are those left when the task stops; a message
\* the client rejects is lost while older ones are still in the channel.
IsMessage(r) == r # Control

\* The messages among the requests rs, in their order.
MessagesIn(rs) ==
    LET among[i \in 0 .. Len(rs)] ==
          IF i = 0 THEN <<>>
          ELSE IF IsMessage(rs[i]) THEN Append(among[i - 1], rs[i])
          ELSE among[i - 1]
    IN among[Len(rs)]

InChannel ==
    IF pc \in {"serve", "publish", "announce", "disconnect"}
    THEN MessagesIn(requests) ELSE <<>>

LinkQueue ==
    IF pc = "stopped" THEN <<>>
    ELSE InChannel \o (IF pc = "publish" THEN <<sending>> ELSE <<>>) \o outbound

Link == INSTANCE LossyQueue WITH queue <- LinkQueue, closed <- (pc = "stopped")

\* The connection task implements the link: messages leave in order and at most
\* once although they pass through two channels, one of them new for each
\* connection, and some are rejected on their way from one to the other.
LinkSpec == Link!Spec

\* A branch of the select! waits for room in a channel that only the next poll
\* would empty: the task never goes on.
WaitsForRoom == pc \in {"publish", "announce", "disconnect"} /\ ~HasRoom

\* "Stop the service safely" (ManagedService::stop): the task ends after the
\* shutdown signal, unless it waits for room in its own request channel.
ShutdownStops == shutdown ~> pc = "stopped" \/ WaitsForRoom
=============================================================================
