--------------------------- MODULE BeaconRegistry ---------------------------
(***************************************************************************)
(* The beacon registry and the loop that owns it                           *)
(* (services/beacon_management/registry.rs, App::run_beacon_message_loop). *)
(*                                                                         *)
(* One task runs a select! over three branches: a topic channel queued by  *)
(* a device handshake, the periodic sweep of stale beacons, and an inbound *)
(* MQTT message.  The sweep is itself a branch, so whenever it waits (for  *)
(* room in the MQTT client's command channel, for the reply to its         *)
(* unsubscribe, or for the write lock on the broadcast list) another ready *)
(* branch drops it where it stands.                                        *)
(*                                                                         *)
(* A beacon stands for its beacon_id, a fresh uuid per handshake; its      *)
(* listen and broadcast topics ("{id}/rec", "{id}/cast") are named by it.  *)
(***************************************************************************)
EXTENDS Naturals, Sequences

CONSTANTS
    Beacons,         \* the ids handed out by handshakes
    NoBeacon,
    Gateways,        \* gateway URLs a payload may advertise
    NoGateway,       \* no URL: the payload has none, or the field is None
    OwnGateway,      \* own_gateway_url, NoGateway if not configured
    Registration,    \* the subscribed topics that do not end in "/rec"
    TopicCapacity,   \* capacity of the topic channel (64 in the code)
    InboundCapacity, \* capacity of the inbound message channel (64)
    BEACON_TIMEOUT,
    BEACON_TIMEOUT_CHECK_INTERVAL

ASSUME RegistryAssumption ==
    /\ NoBeacon \notin Beacons
    /\ NoGateway \notin Gateways
    /\ OwnGateway \in Gateways \cup {NoGateway}
    /\ Registration \notin Beacons
    /\ TopicCapacity \in Nat \ {0}
    /\ InboundCapacity \in Nat \ {0}
    /\ BEACON_TIMEOUT \in Nat
    /\ BEACON_TIMEOUT_CHECK_INTERVAL \in Nat \ {0}

VARIABLES
    handshake,        \* progress of the handshake handler that created the id
    topicQueue,       \* beacon_topic_rx
    inbound,          \* beacon_inbound_rx
    registered,       \* the keys of BeaconRegistry.records
    records,          \* their values; the removed record while it is swept
    known_gateways,
    broadcast_topics, \* the shared list, as the set of its beacons
    reading,          \* the broadcast loop holds the read lock on that list
    subscribed,       \* topics the MQTT session is subscribed to
    unsubscribing,    \* unsubscribe commands sent and not yet executed
    timeout_tick,     \* time left to the next tick of the sweep interval
    pc,               \* where the message loop is
    current,          \* the beacon it is working on there
    stale             \* ids the sweep in progress still has to take

loopVars == <<pc, current, stale>>
mqttVars == <<subscribed, unsubscribing>>
vars == <<handshake, topicQueue, inbound, registered, records, known_gateways,
          broadcast_topics, reading, mqttVars, timeout_tick, loopVars>>

Topics == Beacons \cup {Registration}
Channel == [beacon : Beacons, type : {"Listen", "Broadcast"}]
Message == [topic : Topics, gateway : Gateways \cup {NoGateway}]

\* last_seen is kept as an age, counted up to the first value past the timeout.
BeaconRecord ==
    [listen : BOOLEAN, cast : BOOLEAN, age : 0 .. BEACON_TIMEOUT + 1,
     gateway : Gateways \cup {NoGateway}]

\* The record or_insert_with creates: no topics, no gateway, seen now.
NewRecord ==
    [listen |-> FALSE, cast |-> FALSE, age |-> 0, gateway |-> NoGateway]

TypeOK ==
    /\ handshake \in [Beacons -> {"none", "listen_sent", "done"}]
    /\ topicQueue \in Seq(Channel)
    /\ inbound \in Seq(Message)
    /\ registered \subseteq Beacons
    /\ records \in [Beacons -> BeaconRecord]
    /\ known_gateways \subseteq Gateways
    /\ broadcast_topics \subseteq Beacons
    /\ reading \in BOOLEAN
    /\ subscribed \subseteq Topics
    /\ unsubscribing \subseteq Beacons
    /\ timeout_tick \in 0 .. BEACON_TIMEOUT_CHECK_INTERVAL
    /\ pc \in {"select", "subscribe", "push", "sweep_take", "sweep_send",
               "sweep_unsub", "sweep_retain", "sweep_lock", "sweep_evict"}
    /\ current \in Beacons \cup {NoBeacon}
    /\ stale \subseteq Beacons

\* BeaconRegistry::new, once startup has subscribed the required topics. The
\* first tick of a tokio interval completes at once.
Init ==
    /\ handshake = [b \in Beacons |-> "none"]
    /\ topicQueue = <<>>
    /\ inbound = <<>>
    /\ registered = {}
    /\ records = [b \in Beacons |-> NewRecord]
    /\ known_gateways = {OwnGateway} \ {NoGateway}
    /\ broadcast_topics = {}
    /\ reading = FALSE
    /\ subscribed = {Registration}
    /\ unsubscribing = {}
    /\ timeout_tick = 0
    /\ pc = "select"
    /\ current = NoBeacon
    /\ stale = {}
-----------------------------------------------------------------------------
(***************************************************************************)
(* The handshake handler runs on the HTTP gateway's tasks: two try_sends   *)
(* that the loop may interleave with.  A full queue drops the channel and  *)
(* the device is answered all the same.                                    *)
(***************************************************************************)
try_send(channel) ==
    topicQueue' = IF Len(topicQueue) < TopicCapacity
                  THEN Append(topicQueue, channel) ELSE topicQueue

\* Faulty: a device that comes back is given the id it had.
HandshakeListenAgain(b) ==
    /\ handshake[b] \in {"none", "done"}
    /\ handshake' = [handshake EXCEPT ![b] = "listen_sent"]
    /\ try_send([beacon |-> b, type |-> "Listen"])
    /\ UNCHANGED <<inbound, registered, records, known_gateways,
                   broadcast_topics, reading, mqttVars, timeout_tick, loopVars>>

HandshakeListen(b) ==
    /\ handshake[b] = "none"
    /\ handshake' = [handshake EXCEPT ![b] = "listen_sent"]
    /\ try_send([beacon |-> b, type |-> "Listen"])
    /\ UNCHANGED <<inbound, registered, records, known_gateways,
                   broadcast_topics, reading, mqttVars, timeout_tick, loopVars>>

HandshakeBroadcast(b) ==
    /\ handshake[b] = "listen_sent"
    /\ handshake' = [handshake EXCEPT ![b] = "done"]
    /\ try_send([beacon |-> b, type |-> "Broadcast"])
    /\ UNCHANGED <<inbound, registered, records, known_gateways,
                   broadcast_topics, reading, mqttVars, timeout_tick, loopVars>>
-----------------------------------------------------------------------------
(***************************************************************************)
(* The MQTT client, as the loop sees it.  Its event loop forwards what the *)
(* broker sends on a subscribed topic and waits while the queue is full.   *)
(* Its command task executes an unsubscribe even if nobody waits for the   *)
(* reply any more; the client may refuse it, and a client that is stopped  *)
(* drops it.  A reconnect starts a clean session and nothing subscribes    *)
(* again.                                                                  *)
(***************************************************************************)
DeliverMessage(t, g) ==
    /\ t \in subscribed
    /\ Len(inbound) < InboundCapacity
    /\ inbound' = Append(inbound, [topic |-> t, gateway |-> g])
    /\ UNCHANGED <<handshake, topicQueue, registered, records, known_gateways,
                   broadcast_topics, reading, mqttVars, timeout_tick, loopVars>>

ExecuteUnsubscribe(b, ok) ==
    /\ b \in unsubscribing
    /\ unsubscribing' = unsubscribing \ {b}
    /\ subscribed' = IF ok THEN subscribed \ {b} ELSE subscribed
    /\ UNCHANGED <<handshake, topicQueue, inbound, registered, records,
                   known_gateways, broadcast_topics, reading, timeout_tick,
                   loopVars>>

SessionLost ==
    /\ subscribed # {}
    /\ subscribed' = {}
    /\ UNCHANGED <<handshake, topicQueue, inbound, registered, records,
                   known_gateways, broadcast_topics, reading, unsubscribing,
                   timeout_tick, loopVars>>
-----------------------------------------------------------------------------
(***************************************************************************)
(* The broadcast loop holds the read lock for a whole cycle.  tokio's lock *)
(* is fair: no reader enters while the message loop waits to write.        *)
(***************************************************************************)
\* Faulty: readers overtake a waiting writer.
BroadcastCycleStartUnfair ==
    /\ ~reading
    /\ reading' = TRUE
    /\ UNCHANGED <<handshake, topicQueue, inbound, registered, records,
                   known_gateways, broadcast_topics, mqttVars, timeout_tick,
                   loopVars>>

BroadcastCycleStart ==
    /\ ~reading
    /\ pc \notin {"push", "sweep_lock"}
    /\ reading' = TRUE
    /\ UNCHANGED <<handshake, topicQueue, inbound, registered, records,
                   known_gateways, broadcast_topics, mqttVars, timeout_tick,
                   loopVars>>

BroadcastCycleEnd ==
    /\ reading
    /\ reading' = FALSE
    /\ UNCHANGED <<handshake, topicQueue, inbound, registered, records,
                   known_gateways, broadcast_topics, mqttVars, timeout_tick,
                   loopVars>>

Older(r) == [r EXCEPT !.age = IF @ > BEACON_TIMEOUT THEN @ ELSE @ + 1]

\* One unit of time passes.
Tick ==
    /\ timeout_tick' = IF timeout_tick = 0 THEN 0 ELSE timeout_tick - 1
    /\ records' = [b \in Beacons |-> IF b \in registered THEN Older(records[b])
                                     ELSE records[b]]
    /\ UNCHANGED <<handshake, topicQueue, inbound, registered, known_gateways,
                   broadcast_topics, reading, mqttVars, loopVars>>
-----------------------------------------------------------------------------
(***************************************************************************)
(* The select! of the message loop.  It polls its branches while it is     *)
(* idle and while the sweep waits; taking another branch drops the sweep's *)
(* future, and with it the record the sweep had removed from the map: its  *)
(* gateway_shutdown_tx goes, the cleanup that was still to come does not   *)
(* happen.                                                                 *)
(***************************************************************************)
Sweeping ==
    pc \in {"sweep_send", "sweep_unsub", "sweep_retain", "sweep_lock", "sweep_evict"}

Selectable == pc \in {"select", "sweep_send", "sweep_unsub", "sweep_lock"}

RecordsAfterCancel ==
    IF Sweeping THEN [records EXCEPT ![current] = NewRecord] ELSE records

\* Faulty: a sweep in progress survives the other branches.
ContinueWithSweep ==
    IF Sweeping THEN UNCHANGED loopVars
    ELSE pc' = "select" /\ current' = NoBeacon /\ stale' = {}

\* Back to the top of the loop: what was left of a sweep is dropped.
ContinueLoop ==
    /\ pc' = "select"
    /\ current' = NoBeacon
    /\ stale' = {}

\* register_channel up to its await: make sure the record exists.
RegisterChannel ==
    /\ Selectable
    /\ topicQueue # <<>>
    /\ LET channel == Head(topicQueue)
           b == channel.beacon
       IN /\ registered' = registered \cup {b}
          /\ records' = RecordsAfterCancel
          /\ current' = b
          /\ pc' = IF channel.type = "Listen" THEN "subscribe" ELSE "push"
    /\ topicQueue' = Tail(topicQueue)
    /\ stale' = {}
    /\ UNCHANGED <<handshake, inbound, known_gateways, broadcast_topics,
                   reading, mqttVars, timeout_tick>>

Listening(r) == [r EXCEPT !.listen = TRUE]
Casting(r) == [r EXCEPT !.cast = TRUE]

\* The subscribe's reply arrives; an error leaves listen_topic empty.
SubscribeReply(ok) ==
    /\ pc = "subscribe"
    /\ subscribed' = IF ok THEN subscribed \cup {current} ELSE subscribed
    /\ records' = IF ok THEN [records EXCEPT ![current] = Listening(@)] ELSE records
    /\ pc' = "select"
    /\ current' = NoBeacon
    /\ UNCHANGED <<handshake, topicQueue, inbound, registered, known_gateways,
                   broadcast_topics, reading, unsubscribing, timeout_tick, stale>>

\* The write lock is granted: push the broadcast topic.
PushBroadcastTopic ==
    /\ pc = "push"
    /\ ~reading
    /\ broadcast_topics' = broadcast_topics \cup {current}
    /\ records' = [records EXCEPT ![current] = Casting(@)]
    /\ pc' = "select"
    /\ current' = NoBeacon
    /\ UNCHANGED <<handshake, topicQueue, inbound, registered, known_gateways,
                   reading, mqttVars, timeout_tick, stale>>

update_last_seen(r) == [r EXCEPT !.age = 0]

associate_gateway(r, g) == [r EXCEPT !.gateway = g]

\* Faulty: only the own gateway counts as known, or only the others do.
is_gateway_known_own(g) == g = OwnGateway
is_gateway_known_others(g) == g \in known_gateways \ {OwnGateway}

is_gateway_known(g) == g \in known_gateways

\* Faulty: the URL is not remembered.
insert_gateway_missing(g) == known_gateways

insert_gateway(g) == known_gateways \cup {g}

\* An inbound message: refresh last_seen, then connect to the gateway it
\* advertises unless that is known.  connect_to_gateway's shutdown sender is
\* stored with the record of the beacon whose "/rec" topic this is, replacing
\* the one there; for any other topic or beacon it is dropped at once.
HandleMessage ==
    /\ Selectable
    /\ inbound # <<>>
    /\ LET msg == Head(inbound)
           fresh == msg.gateway # NoGateway /\ ~is_gateway_known(msg.gateway)
           Seen(r) == IF fresh THEN associate_gateway(update_last_seen(r), msg.gateway)
                      ELSE update_last_seen(r)
       IN /\ known_gateways' = IF fresh THEN insert_gateway(msg.gateway)
                               ELSE known_gateways
          /\ records' =
               [b \in Beacons |->
                  IF b = msg.topic /\ b \in registered
                  THEN Seen(records[b]) ELSE RecordsAfterCancel[b]]
    /\ inbound' = Tail(inbound)
    /\ ContinueLoop
    /\ UNCHANGED <<handshake, topicQueue, registered, broadcast_topics,
                   reading, mqttVars, timeout_tick>>
-----------------------------------------------------------------------------
(***************************************************************************)
(* check_timeouts.  Only sweep_send, sweep_unsub and sweep_lock are        *)
(* awaits; the other labels are passed without giving the select! a chance *)
(* to cancel.                                                              *)
(***************************************************************************)
\* Faulty: a beacon that was never listened to is not swept.
StaleListeners ==
    {b \in registered : records[b].listen /\ records[b].age > BEACON_TIMEOUT}

StaleBeacons == {b \in registered : records[b].age > BEACON_TIMEOUT}

CheckTimeouts ==
    /\ pc = "select"
    /\ timeout_tick = 0
    /\ timeout_tick' = BEACON_TIMEOUT_CHECK_INTERVAL
    /\ stale' = StaleBeacons
    /\ pc' = "sweep_take"
    /\ UNCHANGED <<handshake, topicQueue, inbound, registered, records,
                   known_gateways, broadcast_topics, reading, mqttVars, current>>

HasListenTopic(b) == records[b].listen

SweepTake(b) ==
    /\ pc = "sweep_take"
    /\ b \in stale
    /\ stale' = stale \ {b}
    /\ registered' = registered \ {b}
    /\ current' = b
    /\ pc' = IF HasListenTopic(b) THEN "sweep_send" ELSE "sweep_retain"
    /\ UNCHANGED <<handshake, topicQueue, inbound, records, known_gateways,
                   broadcast_topics, reading, mqttVars, timeout_tick>>

\* MqttClientHandle::unsubscribe puts its command into the bounded channel; if
\* the client is gone that fails, and the sweep goes on after the error.
SweepSend(sent) ==
    /\ pc = "sweep_send"
    /\ unsubscribing' = IF sent THEN unsubscribing \cup {current} ELSE unsubscribing
    /\ pc' = IF sent THEN "sweep_unsub" ELSE "sweep_retain"
    /\ UNCHANGED <<handshake, topicQueue, inbound, registered, records,
                   known_gateways, broadcast_topics, reading, subscribed,
                   timeout_tick, current, stale>>

SweepDone ==
    /\ pc = "sweep_take"
    /\ stale = {}
    /\ pc' = "select"
    /\ current' = NoBeacon
    /\ UNCHANGED <<handshake, topicQueue, inbound, registered, records,
                   known_gateways, broadcast_topics, reading, mqttVars,
                   timeout_tick, stale>>

\* The reply is there, be it an error.
SweepUnsubscribed ==
    /\ pc = "sweep_unsub"
    /\ current \notin unsubscribing
    /\ pc' = "sweep_retain"
    /\ UNCHANGED <<handshake, topicQueue, inbound, registered, records,
                   known_gateways, broadcast_topics, reading, mqttVars,
                   timeout_tick, current, stale>>

\* Faulty: the predicate of retain is negated.
RetainThis == broadcast_topics \cap {current}

\* retain(|t| t != broadcast_topic)
RetainOthers == broadcast_topics \ {current}

\* Remove the broadcast topic under the write lock, or start to wait for it.
SweepRetain ==
    /\ pc \in {"sweep_retain", "sweep_lock"}
    /\ \/ /\ records[current].cast => ~reading
          /\ broadcast_topics' = IF records[current].cast
                                 THEN RetainOthers
                                 ELSE broadcast_topics
          /\ pc' = "sweep_evict"
       \/ /\ pc = "sweep_retain"
          /\ records[current].cast /\ reading
          /\ pc' = "sweep_lock"
          /\ UNCHANGED broadcast_topics
    /\ UNCHANGED <<handshake, topicQueue, inbound, registered, records,
                   known_gateways, reading, mqttVars, timeout_tick, current,
                   stale>>

\* Forget the gateway; the record ends here and its shutdown sender with it.
SweepEvict ==
    /\ pc = "sweep_evict"
    /\ known_gateways' = known_gateways \ {records[current].gateway}
    /\ records' = [records EXCEPT ![current] = NewRecord]
    /\ pc' = "sweep_take"
    /\ UNCHANGED <<handshake, topicQueue, inbound, registered, broadcast_topics,
                   reading, mqttVars, timeout_tick, current, stale>>
-----------------------------------------------------------------------------
Sweep ==
    \/ \E b \in Beacons : SweepTake(b)
    \/ \E sent \in BOOLEAN : SweepSend(sent)
    \/ SweepDone
    \/ SweepUnsubscribed
    \/ SweepRetain
    \/ SweepEvict

Handshake == \E b \in Beacons : HandshakeListen(b) \/ HandshakeBroadcast(b)

Environment ==
    \/ Handshake
    \/ \E t \in Topics, g \in Gateways \cup {NoGateway} : DeliverMessage(t, g)
    \/ \E b \in Beacons, ok \in BOOLEAN : ExecuteUnsubscribe(b, ok)
    \/ BroadcastCycleStart
    \/ BroadcastCycleEnd

MessageLoop ==
    \/ RegisterChannel
    \/ \E ok \in BOOLEAN : SubscribeReply(ok)
    \/ PushBroadcastTopic
    \/ HandleMessage
    \/ CheckTimeouts
    \/ Sweep

Next == Environment \/ SessionLost \/ Tick \/ MessageLoop

Spec == Init /\ [][Next]_vars

(***************************************************************************)
(* select! polls its branches in a random order, so a branch that is ready *)
(* over and over is taken (strong fairness).  The other tasks run whenever *)
(* they can: time passes, commands are executed, cycles end.               *)
(***************************************************************************)
Fairness ==
    /\ WF_vars(Tick)
    /\ WF_vars(BroadcastCycleEnd)
    /\ WF_vars(\E b \in Beacons, ok \in BOOLEAN : ExecuteUnsubscribe(b, ok))
    /\ WF_vars(\E ok \in BOOLEAN : SubscribeReply(ok))
    /\ WF_vars(PushBroadcastTopic)
    /\ WF_vars(Sweep)
    /\ SF_vars(CheckTimeouts)
    /\ SF_vars(RegisterChannel)

\* The session is kept: losing it only takes messages away, and with them
\* what can drop a sweep, so that every behaviour of the loop is one of these.
SteadyNext == Environment \/ Tick \/ MessageLoop

FairSpec == Init /\ [][SteadyNext]_vars /\ Fairness
-----------------------------------------------------------------------------
(***************************************************************************)
(* Safety.  A record's gateway field stands for the pair (gateway_url,     *)
(* gateway_shutdown_tx), set together: the connection it names runs until  *)
(* that sender is dropped.                                                 *)
(***************************************************************************)

\* A gateway some beacon holds a connection to is in known_gateways, whatever
\* sweeps were cancelled in between: the next advertisement of it is skipped.
HeldGatewayIsKnown ==
    \A b \in Beacons :
        records[b].gateway # NoGateway => records[b].gateway \in known_gateways

\* known_gateways "prevents duplicate connections": no two beacons, swept ones
\* included, ever hold live connections to the same gateway.
OneConnectionPerGateway ==
    \A b1, b2 \in Beacons :
        /\ records[b1].gateway # NoGateway
        /\ records[b1].gateway = records[b2].gateway
        => b1 = b2

\* The node's own gateway, seeded by BeaconRegistry::new, is never evicted by a
\* sweep and so never connected to on a beacon's behalf.
OwnGatewayStaysKnown ==
    OwnGateway # NoGateway =>
        /\ OwnGateway \in known_gateways
        /\ \A b \in Beacons : records[b].gateway # OwnGateway

\* The list of stale ids is computed once and used across awaits, yet whoever
\* is on it, or was just taken from it, is still past the timeout: a message
\* that refreshes a beacon also ends the sweep that would deregister it.
SweptBeaconsAreStale ==
    /\ \A b \in stale : b \in registered /\ records[b].age > BEACON_TIMEOUT
    /\ Sweeping => /\ current \notin registered
                   /\ records[current].age > BEACON_TIMEOUT

\* As long as a record says its broadcast topic is registered, the topic is in
\* the shared list: sweeping one beacon never unlists another.
BroadcastTopicIsListed ==
    \A b \in Beacons :
        records[b].cast /\ ~(pc = "sweep_evict" /\ current = b)
        => b \in broadcast_topics

\* An unsubscribe that is still on its way, be its sweep dropped long ago,
\* never cuts off a registered beacon that is listened to.
ListenerIsNotUnsubscribed ==
    \A b \in registered : records[b].listen => b \notin unsubscribing
-----------------------------------------------------------------------------
(***************************************************************************)
(* Liveness.                                                               *)
(***************************************************************************)

\* A silent beacon is deregistered in the end, although any sweep may be
\* cancelled by traffic and the order in which a sweep takes ids is arbitrary.
StaleBeaconIsRemoved ==
    \A b \in Beacons :
        b \in registered /\ records[b].age > BEACON_TIMEOUT
        ~> (b \notin registered \/ records[b].age = 0)

\* A queued topic channel is registered in the end: the loop does not starve
\* behind the broadcast loop's lock, the sweep or the inbound messages.
QueuedChannelIsRegistered ==
    \A b \in Beacons :
        (\E i \in DOMAIN topicQueue :
            topicQueue[i] = [beacon |-> b, type |-> "Broadcast"])
        ~> b \in broadcast_topics
-----------------------------------------------------------------------------
(***************************************************************************)
(* A statement of the source that does not hold.                           *)
(***************************************************************************)

\* The doc of check_timeouts: for each stale entry its broadcast topic is
\* removed from the shared list.
NoOrphanBroadcastTopic ==
    \A b \in broadcast_topics : b \in registered \/ (Sweeping /\ current = b)
=============================================================================
