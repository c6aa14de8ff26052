------------------------ MODULE BeaconRegistryProofs ------------------------
(***************************************************************************)
(* Proofs about BeaconRegistry and BeaconSilence, for any sets of beacons  *)
(* and gateways, any queue capacities and any timeouts: the types and the  *)
(* safety invariants of the registry; then the order in which the loop     *)
(* meets the channels of a handshake; and from both, that a beacon which   *)
(* keeps sending is not deregistered.                                      *)
(***************************************************************************)
EXTENDS BeaconSilence, TLAPS

\* What the loop's label says about the beacon at hand.
LoopOK ==
    /\ pc \in {"subscribe", "push"} => current \in registered
    /\ Sweeping => current \in Beacons

\* A channel offered to the queue leaves it well typed, dropped or not.
LEMMA TrySendType ==
    ASSUME NEW c \in Channel, topicQueue \in Seq(Channel), try_send(c)
    PROVE  topicQueue' \in Seq(Channel)
BY DEF try_send

\* A receive from a non-empty queue.
LEMMA QueueType ==
    ASSUME NEW S, NEW q \in Seq(S), q # <<>>
    PROVE  Head(q) \in S /\ Tail(q) \in Seq(S)
OBVIOUS

\* The fields of a new record.
LEMMA NewRecordFields ==
    /\ NewRecord \in BeaconRecord
    /\ NewRecord.gateway = NoGateway
    /\ NewRecord.age = 0
    /\ ~NewRecord.cast
    /\ ~NewRecord.listen
BY RegistryAssumption DEF NewRecord, BeaconRecord

\* The fields of any record.
LEMMA RecordFields ==
    ASSUME NEW r \in BeaconRecord
    PROVE  /\ r.listen \in BOOLEAN
           /\ r.cast \in BOOLEAN
           /\ r.age \in 0 .. BEACON_TIMEOUT + 1
           /\ r.gateway \in Gateways \cup {NoGateway}
BY DEF BeaconRecord

\* What each update of a record changes, and what it leaves alone.
LEMMA OlderFields ==
    ASSUME NEW r \in BeaconRecord
    PROVE  /\ Older(r) \in BeaconRecord
           /\ Older(r).age >= r.age
           /\ Older(r).age = IF r.age > BEACON_TIMEOUT THEN r.age ELSE r.age + 1
           /\ Older(r).listen = r.listen
           /\ Older(r).cast = r.cast
           /\ Older(r).gateway = r.gateway
<1>1. Older(r) \in BeaconRecord
  BY RegistryAssumption DEF BeaconRecord, Older
<1>2. Older(r).age >= r.age
  BY RegistryAssumption DEF BeaconRecord, Older
<1> QED
  BY <1>1, <1>2 DEF BeaconRecord, Older

\* Storing a topic in a record (register_channel) changes that field only.
LEMMA TopicFields ==
    ASSUME NEW r \in BeaconRecord
    PROVE  /\ Listening(r) \in BeaconRecord
           /\ Listening(r).listen
           /\ Listening(r).age = r.age
           /\ Listening(r).cast = r.cast
           /\ Listening(r).gateway = r.gateway
           /\ Casting(r) \in BeaconRecord
           /\ Casting(r).listen = r.listen
           /\ Casting(r).age = r.age
           /\ Casting(r).gateway = r.gateway
<1>1. Listening(r) \in BeaconRecord
  BY Zenon DEF BeaconRecord, Listening
<1>2. Casting(r) \in BeaconRecord
  BY Zenon DEF BeaconRecord, Casting
<1> QED
  BY <1>1, <1>2 DEF BeaconRecord, Listening, Casting

\* update_last_seen changes the age only.
LEMMA SeenFields ==
    ASSUME NEW r \in BeaconRecord
    PROVE  /\ update_last_seen(r) \in BeaconRecord
           /\ update_last_seen(r).age = 0
           /\ update_last_seen(r).listen = r.listen
           /\ update_last_seen(r).cast = r.cast
           /\ update_last_seen(r).gateway = r.gateway
<1>1. update_last_seen(r) \in BeaconRecord
  BY RegistryAssumption DEF BeaconRecord, update_last_seen
<1> QED
  BY <1>1 DEF BeaconRecord, update_last_seen

\* associate_gateway changes the gateway only.
LEMMA AssociateFields ==
    ASSUME NEW r \in BeaconRecord, NEW g \in Gateways
    PROVE  /\ associate_gateway(r, g) \in BeaconRecord
           /\ associate_gateway(r, g).age = r.age
           /\ associate_gateway(r, g).listen = r.listen
           /\ associate_gateway(r, g).cast = r.cast
           /\ associate_gateway(r, g).gateway = g
<1>1. associate_gateway(r, g) \in BeaconRecord
  BY DEF BeaconRecord, associate_gateway
<1> QED
  BY <1>1 DEF BeaconRecord, associate_gateway

\* What handling a message that came on topic t and advertises g does to the
\* gateways and the records.
MessageFrom(t, g) ==
    LET fresh == g # NoGateway /\ g \notin known_gateways
    IN /\ known_gateways' = known_gateways \cup (IF fresh THEN {g} ELSE {})
       /\ known_gateways' \subseteq Gateways
       /\ records' \in [Beacons -> BeaconRecord]
       /\ \A b \in Beacons :
             IF b = t /\ b \in registered
             THEN /\ records'[b].gateway = IF fresh THEN g ELSE records[b].gateway
                  /\ records'[b].cast = records[b].cast
                  /\ records'[b].listen = records[b].listen
             ELSE records'[b] = RecordsAfterCancel[b]

\* Every handled message has such a topic and advertisement.
LEMMA MessageEffect ==
    ASSUME TypeOK, HandleMessage
    PROVE  \E t \in Topics, g \in Gateways \cup {NoGateway} : MessageFrom(t, g)
<1> DEFINE msg == Head(inbound)
           fresh == msg.gateway # NoGateway /\ ~is_gateway_known(msg.gateway)
           Seen(r) == IF fresh THEN associate_gateway(update_last_seen(r), msg.gateway)
                      ELSE update_last_seen(r)
<1>1. msg \in Message
  BY QueueType DEF TypeOK, HandleMessage
<1>2. msg.topic \in Topics /\ msg.gateway \in Gateways \cup {NoGateway}
  BY <1>1 DEF Message
<1>3. RecordsAfterCancel \in [Beacons -> BeaconRecord]
  BY Zenon, NewRecordFields DEF TypeOK, RecordsAfterCancel
<1>4. ASSUME NEW r \in BeaconRecord
      PROVE  /\ Seen(r) \in BeaconRecord
             /\ Seen(r).gateway = IF fresh THEN msg.gateway ELSE r.gateway
             /\ Seen(r).cast = r.cast
             /\ Seen(r).listen = r.listen
  <2>1. fresh => msg.gateway \in Gateways
    BY <1>2
  <2> HIDE DEF msg
  <2> QED
    BY <2>1, SeenFields, AssociateFields
<1>5. /\ known_gateways' = IF fresh THEN insert_gateway(msg.gateway) ELSE known_gateways
      /\ records' = [b \in Beacons |-> IF b = msg.topic /\ b \in registered
                                       THEN Seen(records[b]) ELSE RecordsAfterCancel[b]]
  BY DEF HandleMessage
<1>6. fresh <=> msg.gateway # NoGateway /\ msg.gateway \notin known_gateways
  BY DEF is_gateway_known
<1>7. MessageFrom(msg.topic, msg.gateway)
  <2> HIDE DEF msg, fresh, Seen
  <2> QED
    BY <1>2, <1>3, <1>4, <1>5, <1>6 DEF MessageFrom, TypeOK, insert_gateway
<1> QED
  BY <1>2, <1>7

\* The type invariant is inductive once LoopOK comes with it.
LEMMA TypeInductive == TypeOK /\ LoopOK /\ [Next]_vars => TypeOK' /\ LoopOK'
<1> SUFFICES ASSUME TypeOK, LoopOK, [Next]_vars
             PROVE  TypeOK' /\ LoopOK'
  OBVIOUS
<1> USE RegistryAssumption DEF TypeOK, LoopOK, Sweeping, Topics, mqttVars, loopVars
<1>1. ASSUME NEW b \in Beacons, HandshakeListen(b)
      PROVE  TypeOK' /\ LoopOK'
  <2>1. topicQueue' \in Seq(Channel)
    BY <1>1, TrySendType DEF HandshakeListen, Channel
  <2> QED
    BY <1>1, <2>1 DEF HandshakeListen
<1>2. ASSUME NEW b \in Beacons, HandshakeBroadcast(b)
      PROVE  TypeOK' /\ LoopOK'
  <2>1. topicQueue' \in Seq(Channel)
    BY <1>2, TrySendType DEF HandshakeBroadcast, Channel
  <2> QED
    BY <1>2, <2>1 DEF HandshakeBroadcast
<1>3. ASSUME NEW t \in Topics, NEW g \in Gateways \cup {NoGateway},
             DeliverMessage(t, g)
      PROVE  TypeOK' /\ LoopOK'
  BY <1>3 DEF DeliverMessage, Message
<1>4. ASSUME NEW b \in Beacons, NEW ok \in BOOLEAN, ExecuteUnsubscribe(b, ok)
      PROVE  TypeOK' /\ LoopOK'
  BY <1>4 DEF ExecuteUnsubscribe
<1>5. CASE SessionLost
  BY <1>5 DEF SessionLost
<1>6. CASE BroadcastCycleStart
  BY <1>6 DEF BroadcastCycleStart
<1>7. CASE BroadcastCycleEnd
  BY Zenon, <1>7 DEF BroadcastCycleEnd
<1>8. CASE Tick
  <2>1. records' \in [Beacons -> BeaconRecord]
    BY <1>8, OlderFields DEF Tick
  <2> QED
    BY <1>8, <2>1 DEF Tick
<1>9. CASE RegisterChannel
  <2>1. Head(topicQueue) \in Channel /\ Tail(topicQueue) \in Seq(Channel)
    BY <1>9, QueueType DEF RegisterChannel
  <2>2. records' \in [Beacons -> BeaconRecord]
    BY <1>9, NewRecordFields DEF RegisterChannel, RecordsAfterCancel
  <2> QED
    BY <1>9, <2>1, <2>2 DEF RegisterChannel, Selectable, Channel
<1>10. ASSUME NEW ok \in BOOLEAN, SubscribeReply(ok)
       PROVE  TypeOK' /\ LoopOK'
  <2>1. current \in Beacons
    BY <1>10 DEF SubscribeReply
  <2>2. records' \in [Beacons -> BeaconRecord]
    BY <1>10, <2>1, TopicFields DEF SubscribeReply
  <2> QED
    BY <1>10, <2>1, <2>2 DEF SubscribeReply
<1>11. CASE PushBroadcastTopic
  <2>1. current \in Beacons
    BY <1>11 DEF PushBroadcastTopic
  <2>2. records' \in [Beacons -> BeaconRecord]
    BY <1>11, <2>1, TopicFields DEF PushBroadcastTopic
  <2> QED
    BY <1>11, <2>1, <2>2 DEF PushBroadcastTopic
<1>12. CASE HandleMessage
  <2> USE DEF HandleMessage
  <2>1. Tail(inbound) \in Seq(Message)
    BY <1>12, QueueType
  <2>2. known_gateways' \subseteq Gateways /\ records' \in [Beacons -> BeaconRecord]
    BY <1>12, MessageEffect DEF MessageFrom
  <2> QED
    BY <1>12, <2>1, <2>2 DEF ContinueLoop
<1>13. CASE CheckTimeouts
  BY <1>13 DEF CheckTimeouts, StaleBeacons
<1>14. ASSUME NEW b \in Beacons, SweepTake(b)
       PROVE  TypeOK' /\ LoopOK'
  BY <1>14 DEF SweepTake, HasListenTopic
<1>14a. ASSUME NEW sent \in BOOLEAN, SweepSend(sent)
        PROVE  TypeOK' /\ LoopOK'
  BY <1>14a DEF SweepSend
<1>15. CASE SweepDone
  BY <1>15 DEF SweepDone
<1>16. CASE SweepUnsubscribed
  BY <1>16 DEF SweepUnsubscribed
<1>17. CASE SweepRetain
  BY <1>17 DEF SweepRetain, RetainOthers
<1>18. CASE SweepEvict
  BY <1>18, NewRecordFields DEF SweepEvict
<1>19. CASE UNCHANGED vars
  BY <1>19 DEF vars
<1>20. QED
  BY Zenon, <1>1, <1>2, <1>3, <1>4, <1>5, <1>6, <1>7, <1>8, <1>9, <1>10, <1>11, <1>12,
     <1>13, <1>14, <1>14a, <1>15, <1>16, <1>17, <1>18, <1>19
     DEF Next, Environment, Handshake, MessageLoop, Sweep
-----------------------------------------------------------------------------
(***************************************************************************)
(* The gateways.  That a held gateway is known makes a fresh one held by   *)
(* nobody; that no two records hold the same one makes its eviction safe.  *)
(***************************************************************************)
GatewayInv ==
    /\ HeldGatewayIsKnown
    /\ OneConnectionPerGateway
    /\ OwnGatewayStaysKnown

\* A step that adds no connection and forgets no gateway keeps the three.
LEMMA GatewayKept ==
    ASSUME GatewayInv, known_gateways' = known_gateways,
           \A b \in Beacons : records'[b].gateway \in {records[b].gateway, NoGateway}
    PROVE  GatewayInv'
BY DEF GatewayInv, HeldGatewayIsKnown, OneConnectionPerGateway, OwnGatewayStaysKnown

\* Dropping a cancelled sweep's record forgets at most its gateway.
LEMMA CancelKeeps ==
    ASSUME TypeOK, LoopOK, NEW b \in Beacons
    PROVE  /\ RecordsAfterCancel[b] = IF Sweeping /\ b = current
                                      THEN NewRecord ELSE records[b]
           /\ RecordsAfterCancel[b].gateway \in {records[b].gateway, NoGateway}
BY NewRecordFields DEF TypeOK, LoopOK, RecordsAfterCancel

\* No step of any task breaks what ties records to known_gateways.
LEMMA GatewayInductive ==
    TypeOK /\ LoopOK /\ GatewayInv /\ [Next]_vars => GatewayInv'
<1> SUFFICES ASSUME TypeOK, LoopOK, GatewayInv, [Next]_vars
             PROVE  GatewayInv'
  OBVIOUS
<1>1. CASE UNCHANGED <<records, known_gateways>>
  BY <1>1, GatewayKept
<1>2. CASE Tick
  <2>1. \A b \in Beacons : records'[b].gateway = records[b].gateway
    BY <1>2, OlderFields DEF Tick, TypeOK
  <2> QED
    BY <1>2, <2>1, GatewayKept DEF Tick
<1>3. CASE RegisterChannel
  BY <1>3, CancelKeeps, GatewayKept DEF RegisterChannel
<1>4. ASSUME NEW ok \in BOOLEAN, SubscribeReply(ok)
      PROVE  GatewayInv'
  <2>1. \A b \in Beacons : records'[b].gateway = records[b].gateway
    BY <1>4, TopicFields DEF SubscribeReply, TypeOK
  <2> QED
    BY <1>4, <2>1, GatewayKept DEF SubscribeReply
<1>5. CASE PushBroadcastTopic
  <2>1. \A b \in Beacons : records'[b].gateway = records[b].gateway
    BY <1>5, TopicFields DEF PushBroadcastTopic, TypeOK
  <2> QED
    BY <1>5, <2>1, GatewayKept DEF PushBroadcastTopic
<1>6. CASE HandleMessage
  <2>1. PICK t \in Topics, g \in Gateways \cup {NoGateway} : MessageFrom(t, g)
    BY <1>6, MessageEffect
  <2>2. CASE g # NoGateway /\ g \notin known_gateways
    <3>1. known_gateways' = known_gateways \cup {g}
      BY <2>1, <2>2 DEF MessageFrom
    <3>2. \A b \in Beacons :
             \/ records'[b].gateway \in {records[b].gateway, NoGateway}
             \/ b = t /\ records'[b].gateway = g
      BY <2>1, <2>2, CancelKeeps DEF MessageFrom
    <3>3. \A b \in Beacons : records[b].gateway # g
      BY <2>2 DEF GatewayInv, HeldGatewayIsKnown
    <3> QED
      BY <2>2, <3>1, <3>2, <3>3
         DEF GatewayInv, HeldGatewayIsKnown, OneConnectionPerGateway, OwnGatewayStaysKnown
  <2>3. CASE ~(g # NoGateway /\ g \notin known_gateways)
    <3>1. known_gateways' = known_gateways
      BY <2>1, <2>3 DEF MessageFrom
    <3>2. \A b \in Beacons : records'[b].gateway \in {records[b].gateway, NoGateway}
      BY <2>1, <2>3, CancelKeeps DEF MessageFrom
    <3> QED
      BY <3>1, <3>2, GatewayKept
  <2> QED
    BY <2>2, <2>3
<1>7. CASE SweepEvict
  <2>1. current \in Beacons
    BY <1>7 DEF SweepEvict, LoopOK, Sweeping
  <2>2. \A b \in Beacons : records'[b].gateway = IF b = current THEN NoGateway
                                                 ELSE records[b].gateway
    BY <1>7, <2>1, NewRecordFields DEF SweepEvict, TypeOK
  <2>3. known_gateways' = known_gateways \ {records[current].gateway}
    BY <1>7 DEF SweepEvict
  <2> QED
    BY <2>1, <2>2, <2>3
       DEF GatewayInv, HeldGatewayIsKnown, OneConnectionPerGateway, OwnGatewayStaysKnown
<1> QED
  BY Zenon, <1>1, <1>2, <1>3, <1>4, <1>5, <1>6, <1>7
     DEF Next, vars, Environment, Handshake, MessageLoop, Sweep, HandshakeListen,
         HandshakeBroadcast, DeliverMessage, ExecuteUnsubscribe, SessionLost,
         BroadcastCycleStart, BroadcastCycleEnd, CheckTimeouts, SweepTake,
         SweepSend, SweepDone, SweepUnsubscribed, SweepRetain
-----------------------------------------------------------------------------
(***************************************************************************)
(* The sweep and the shared list.                                          *)
(***************************************************************************)
LEMMA SweptInductive ==
    TypeOK /\ LoopOK /\ SweptBeaconsAreStale /\ [Next]_vars => SweptBeaconsAreStale'
<1> SUFFICES ASSUME TypeOK, LoopOK, SweptBeaconsAreStale, [Next]_vars
             PROVE  SweptBeaconsAreStale'
  OBVIOUS
<1> USE DEF SweptBeaconsAreStale, Sweeping
<1>1. CASE UNCHANGED <<registered, records, pc, current, stale>>
  BY <1>1
<1>2. CASE Tick
  <2>1. \A b \in Beacons : /\ records'[b].age \in Nat /\ records[b].age \in Nat
                           /\ records'[b].age >= records[b].age
    BY <1>2, OlderFields, RecordFields DEF Tick, TypeOK
  <2>2. UNCHANGED <<registered, pc, current, stale>>
    BY <1>2 DEF Tick, loopVars
  <2> QED
    BY <2>1, <2>2, RegistryAssumption DEF TypeOK, LoopOK
<1>3. CASE RegisterChannel
  BY <1>3 DEF RegisterChannel
<1>4. ASSUME NEW ok \in BOOLEAN, SubscribeReply(ok)
      PROVE  SweptBeaconsAreStale'
  <2>1. \A b \in Beacons : records'[b].age = records[b].age
    BY <1>4, TopicFields DEF SubscribeReply, TypeOK
  <2> QED
    BY <1>4, <2>1 DEF SubscribeReply, TypeOK
<1>5. CASE PushBroadcastTopic
  <2>1. \A b \in Beacons : records'[b].age = records[b].age
    BY <1>5, TopicFields DEF PushBroadcastTopic, TypeOK
  <2> QED
    BY <1>5, <2>1 DEF PushBroadcastTopic, TypeOK
<1>6. CASE HandleMessage
  BY <1>6 DEF HandleMessage, ContinueLoop
<1>7. CASE CheckTimeouts
  BY <1>7 DEF CheckTimeouts, StaleBeacons
<1>8. ASSUME NEW b \in Beacons, SweepTake(b)
      PROVE  SweptBeaconsAreStale'
  BY <1>8 DEF SweepTake
<1>8a. ASSUME NEW sent \in BOOLEAN, SweepSend(sent)
       PROVE  SweptBeaconsAreStale'
  BY <1>8a DEF SweepSend
<1>9. CASE SweepDone
  BY <1>9 DEF SweepDone
<1>10. CASE SweepUnsubscribed
  BY <1>10 DEF SweepUnsubscribed
<1>11. CASE SweepRetain
  BY <1>11 DEF SweepRetain
<1>12. CASE SweepEvict
  BY <1>12 DEF SweepEvict, TypeOK
<1> QED
  BY Zenon, <1>1, <1>2, <1>3, <1>4, <1>5, <1>6, <1>7, <1>8, <1>8a, <1>9, <1>10, <1>11,
     <1>12
     DEF Next, vars, loopVars, Environment, Handshake, MessageLoop, Sweep,
         HandshakeListen, HandshakeBroadcast, DeliverMessage, ExecuteUnsubscribe,
         SessionLost, BroadcastCycleStart, BroadcastCycleEnd

\* No step unlists the broadcast topic of a record that has one.
LEMMA ListedInductive ==
    TypeOK /\ LoopOK /\ BroadcastTopicIsListed /\ [Next]_vars => BroadcastTopicIsListed'
<1> SUFFICES ASSUME TypeOK, LoopOK, BroadcastTopicIsListed, [Next]_vars
             PROVE  BroadcastTopicIsListed'
  OBVIOUS
<1> USE DEF BroadcastTopicIsListed
<1>1. CASE UNCHANGED <<records, broadcast_topics, pc, current>>
  BY <1>1
<1>2. CASE Tick
  <2>1. \A b \in Beacons : records'[b].cast = records[b].cast
    BY <1>2, OlderFields DEF Tick, TypeOK
  <2> QED
    BY <1>2, <2>1 DEF Tick, loopVars
<1>3. CASE RegisterChannel
  BY <1>3, CancelKeeps, NewRecordFields DEF RegisterChannel, Selectable
<1>4. ASSUME NEW ok \in BOOLEAN, SubscribeReply(ok)
      PROVE  BroadcastTopicIsListed'
  <2>1. \A b \in Beacons : records'[b].cast = records[b].cast
    BY <1>4, TopicFields DEF SubscribeReply, TypeOK
  <2> QED
    BY <1>4, <2>1 DEF SubscribeReply
<1>5. CASE PushBroadcastTopic
  BY <1>5 DEF PushBroadcastTopic, TypeOK
<1>6. CASE HandleMessage
  <2>1. PICK t \in Topics, g \in Gateways \cup {NoGateway} : MessageFrom(t, g)
    BY <1>6, MessageEffect
  <2>2. \A b \in Beacons : records'[b].cast => records[b].cast
    BY <2>1, CancelKeeps, NewRecordFields DEF MessageFrom
  <2> QED
    BY <1>6, <2>2 DEF HandleMessage, Selectable, ContinueLoop
<1>7. CASE CheckTimeouts
  BY <1>7 DEF CheckTimeouts
<1>8. ASSUME NEW b \in Beacons, SweepTake(b)
      PROVE  BroadcastTopicIsListed'
  BY <1>8 DEF SweepTake
<1>8a. ASSUME NEW sent \in BOOLEAN, SweepSend(sent)
       PROVE  BroadcastTopicIsListed'
  BY <1>8a DEF SweepSend
<1>9. CASE SweepDone
  BY <1>9 DEF SweepDone
<1>10. CASE SweepUnsubscribed
  BY <1>10 DEF SweepUnsubscribed
<1>11. CASE SweepRetain
  BY <1>11 DEF SweepRetain, RetainOthers
<1>12. CASE SweepEvict
  BY <1>12, NewRecordFields DEF SweepEvict, TypeOK
<1> QED
  BY Zenon, <1>1, <1>2, <1>3, <1>4, <1>5, <1>6, <1>7, <1>8, <1>8a, <1>9, <1>10, <1>11,
     <1>12
     DEF Next, vars, loopVars, Environment, Handshake, MessageLoop, Sweep,
         HandshakeListen, HandshakeBroadcast, DeliverMessage, ExecuteUnsubscribe,
         SessionLost, BroadcastCycleStart, BroadcastCycleEnd
-----------------------------------------------------------------------------
\* The inductive invariant.
IInv ==
    /\ TypeOK
    /\ LoopOK
    /\ GatewayInv
    /\ SweptBeaconsAreStale
    /\ BroadcastTopicIsListed

\* It holds when the loop starts and after every step of any task.
LEMMA Invariance == Spec => []IInv
<1>1. Init => IInv
  <2> SUFFICES ASSUME Init PROVE IInv
    OBVIOUS
  <2> USE RegistryAssumption, NewRecordFields DEF Init
  <2>1. TypeOK /\ LoopOK
    <3>1. topicQueue \in Seq(Channel) /\ inbound \in Seq(Message)
      OBVIOUS
    <3>2. records \in [Beacons -> BeaconRecord]
      OBVIOUS
    <3>3. handshake \in [Beacons -> {"none", "listen_sent", "done"}]
      OBVIOUS
    <3>4. timeout_tick \in 0 .. BEACON_TIMEOUT_CHECK_INTERVAL
      OBVIOUS
    <3> QED
      BY Zenon, <3>1, <3>2, <3>3, <3>4 DEF TypeOK, LoopOK, Sweeping, Topics
  <2>2. GatewayInv
    BY DEF GatewayInv, HeldGatewayIsKnown, OneConnectionPerGateway, OwnGatewayStaysKnown
  <2>3. SweptBeaconsAreStale /\ BroadcastTopicIsListed
    BY DEF SweptBeaconsAreStale, BroadcastTopicIsListed, Sweeping
  <2> QED
    BY <2>1, <2>2, <2>3 DEF IInv
<1>2. IInv /\ [Next]_vars => IInv'
  BY TypeInductive, GatewayInductive, SweptInductive, ListedInductive DEF IInv
<1> QED
  BY <1>1, <1>2, PTL DEF Spec

\* Every variable of the registry and its loop keeps its type.
THEOREM TypeCorrect == Spec => []TypeOK
BY Invariance, PTL DEF IInv

\* A gateway some record holds a connection to is known to is_gateway_known.
THEOREM HeldGatewaysKnown == Spec => []HeldGatewayIsKnown
BY Invariance, PTL DEF IInv, GatewayInv

\* insert_gateway and the eviction of a sweep never let two records hold
\* connections to the same gateway.
THEOREM SingleConnection == Spec => []OneConnectionPerGateway
BY Invariance, PTL DEF IInv, GatewayInv

\* The node's own gateway URL is never evicted and never connected to.
THEOREM OwnGatewayKnown == Spec => []OwnGatewayStaysKnown
BY Invariance, PTL DEF IInv, GatewayInv

\* check_timeouts deregisters no beacon that is not past the timeout, however
\* long its awaits take.
THEOREM SweepIsSound == Spec => []SweptBeaconsAreStale
BY Invariance, PTL DEF IInv

\* The sweep's retain and a cancelled sweep unlist nobody else's broadcast topic.
THEOREM TopicsListed == Spec => []BroadcastTopicIsListed
BY Invariance, PTL DEF IInv
-----------------------------------------------------------------------------
(***************************************************************************)
(* The handshake and the subscription.  A beacon's id is used by one       *)
(* handshake, which queues its Listen channel before its Broadcast channel; *)
(* so the loop takes the Listen channel while the registry has never heard *)
(* of the beacon, and subscribes to its topic at most once.                *)
(***************************************************************************)
Queued(b) == \E i \in DOMAIN topicQueue : topicQueue[i].beacon = b

ListenQueued(b) ==
    \E i \in DOMAIN topicQueue :
        topicQueue[i].beacon = b /\ topicQueue[i].type = "Listen"

\* The loop has not met b yet.
Unmet(b) ==
    /\ b \notin registered
    /\ b \notin unsubscribing
    /\ Sweeping => current # b

\* Behind a channel of a beacon there is at most its Broadcast channel.
ListenComesFirst ==
    \A i, j \in DOMAIN topicQueue :
        i < j /\ topicQueue[i].beacon = topicQueue[j].beacon
        => topicQueue[j].type = "Broadcast"

\* A beacon without an entry has no record, but for the one a sweep has taken.
NoLeftoverRecord ==
    \A b \in Beacons \ registered :
        records[b] = NewRecord \/ (Sweeping /\ current = b)

HandshakeInv ==
    /\ ListenComesFirst
    /\ \A b \in Beacons : handshake[b] = "none" => ~Queued(b) /\ Unmet(b)
    /\ \A b \in Beacons : ListenQueued(b) => Unmet(b)
    /\ pc = "subscribe" => /\ ~ListenQueued(current)
                           /\ handshake[current] # "none"
                           /\ current \notin unsubscribing
    /\ NoLeftoverRecord
    /\ ListenerIsNotUnsubscribed

\* What a queue holds after a channel has been offered to it.
LEMMA TrySendElements ==
    ASSUME NEW c \in Channel, topicQueue \in Seq(Channel), try_send(c)
    PROVE  \A i \in DOMAIN topicQueue' :
              \/ i \in DOMAIN topicQueue /\ topicQueue'[i] = topicQueue[i]
              \/ i = Len(topicQueue) + 1 /\ topicQueue'[i] = c
BY DEF try_send

\* What it holds after a receive.
LEMMA TailElements ==
    ASSUME NEW S, NEW q \in Seq(S), q # <<>>
    PROVE  /\ 1 \in DOMAIN q /\ Head(q) = q[1]
           /\ \A i \in DOMAIN Tail(q) :
                 i \in Nat /\ i > 0 /\ i + 1 \in DOMAIN q /\ Tail(q)[i] = q[i + 1]
           /\ \A i \in DOMAIN q : i = 1 \/ (i - 1 \in DOMAIN Tail(q) /\ Tail(q)[i - 1] = q[i])
OBVIOUS

\* A channel offered by the handshake of b concerns b alone, and its Listen
\* channel finds no other of b in the queue.
LEMMA OfferKeepsOrder ==
    ASSUME TypeOK, HandshakeInv, NEW b \in Beacons, NEW k \in {"Listen", "Broadcast"},
           try_send([beacon |-> b, type |-> k]),
           k = "Listen" => ~Queued(b)
    PROVE  /\ ListenComesFirst'
           /\ \A a \in Beacons \ {b} : /\ Queued(a)' => Queued(a)
                                       /\ ListenQueued(a)' => ListenQueued(a)
           /\ ListenQueued(b)' => ListenQueued(b) \/ k = "Listen"
<1> DEFINE c == [beacon |-> b, type |-> k]
<1>1. c \in Channel /\ c.beacon = b /\ c.type = k
  BY DEF Channel
<1>2. \A i \in DOMAIN topicQueue' :
         \/ i \in DOMAIN topicQueue /\ topicQueue'[i] = topicQueue[i]
         \/ i = Len(topicQueue) + 1 /\ topicQueue'[i] = c
  BY <1>1, TrySendElements DEF TypeOK
<1>3. \A i \in DOMAIN topicQueue : i \in Nat /\ i < Len(topicQueue) + 1
  BY DEF TypeOK
<1>4. ListenComesFirst /\ Len(topicQueue) \in Nat
  BY DEF HandshakeInv, TypeOK
<1> HIDE DEF c
<1>5. ListenComesFirst'
  BY <1>1, <1>2, <1>3, <1>4 DEF ListenComesFirst, Queued
<1> QED
  BY <1>1, <1>2, <1>5 DEF Queued, ListenQueued

\* Taking the head of the queue leaves the order behind it as it was; no Listen
\* channel of the same beacon is left.
LEMMA ReceiveKeepsOrder ==
    ASSUME TypeOK, HandshakeInv, topicQueue # <<>>, topicQueue' = Tail(topicQueue)
    PROVE  /\ ListenComesFirst'
           /\ \A a \in Beacons : /\ Queued(a)' => Queued(a)
                                 /\ ListenQueued(a)' => ListenQueued(a)
           /\ Head(topicQueue) \in Channel
           /\ \A b \in Beacons :
                 Head(topicQueue).beacon = b
                 => /\ Queued(b) /\ ~ListenQueued(b)'
                    /\ Head(topicQueue).type = "Listen" => ListenQueued(b)
<1>1. /\ 1 \in DOMAIN topicQueue /\ Head(topicQueue) = topicQueue[1]
      /\ \A i \in DOMAIN topicQueue' :
            /\ i \in Nat /\ i > 0 /\ i + 1 \in DOMAIN topicQueue
            /\ topicQueue'[i] = topicQueue[i + 1]
  BY TailElements DEF TypeOK
<1>2. ListenComesFirst
  BY DEF HandshakeInv
<1>3. ListenComesFirst'
  BY <1>1, <1>2 DEF ListenComesFirst
<1>4. ASSUME NEW b \in Beacons, Head(topicQueue).beacon = b
      PROVE  ~ListenQueued(b)'
  <2> SUFFICES ASSUME NEW i \in DOMAIN topicQueue',
                      topicQueue'[i].beacon = topicQueue[1].beacon,
                      topicQueue'[i].type = "Listen"
               PROVE  FALSE
    BY <1>1, <1>4 DEF ListenQueued
  <2>1. 1 < i + 1 /\ i + 1 \in DOMAIN topicQueue /\ topicQueue[i + 1] = topicQueue'[i]
    BY <1>1
  <2> QED
    BY <1>1, <1>2, <2>1 DEF ListenComesFirst
<1>5. Head(topicQueue) \in Channel
  BY QueueType DEF TypeOK
<1> QED
  BY <1>1, <1>3, <1>4, <1>5 DEF Queued, ListenQueued

\* A step that neither queues nor takes a channel and meets nobody new keeps
\* the part of the invariant that speaks of the queue.
LEMMA QueueUntouched ==
    ASSUME HandshakeInv, UNCHANGED <<handshake, topicQueue>>, pc' # "subscribe",
           \A a \in Beacons : Unmet(a) => Unmet(a)',
           NoLeftoverRecord', ListenerIsNotUnsubscribed'
    PROVE  HandshakeInv'
<1>1. ListenComesFirst' /\ \A a : /\ Queued(a)' <=> Queued(a)
                                  /\ ListenQueued(a)' <=> ListenQueued(a)
  BY DEF HandshakeInv, ListenComesFirst, Queued, ListenQueued
<1> QED
  BY <1>1 DEF HandshakeInv

\* No step of any task breaks what ties handshakes to the registry.
LEMMA HandshakeInductive == IInv /\ HandshakeInv /\ [Next]_vars => HandshakeInv'
<1> SUFFICES ASSUME TypeOK, LoopOK, SweptBeaconsAreStale, HandshakeInv, [Next]_vars
             PROVE  HandshakeInv'
  BY DEF IInv
<1>1. CASE UNCHANGED <<handshake, topicQueue, registered, records, unsubscribing,
                       pc, current>>
  BY <1>1 DEF HandshakeInv, ListenComesFirst, Queued, ListenQueued, Unmet,
              NoLeftoverRecord, ListenerIsNotUnsubscribed, Sweeping
<1>2. ASSUME NEW b \in Beacons, HandshakeListen(b)
      PROVE  HandshakeInv'
  <2>1. /\ handshake' = [handshake EXCEPT ![b] = "listen_sent"]
        /\ handshake[b] = "none"
        /\ UNCHANGED <<registered, records, unsubscribing, pc, current>>
    BY <1>2 DEF HandshakeListen, mqttVars, loopVars
  <2>2. ~Queued(b) /\ Unmet(b)
    BY <2>1 DEF HandshakeInv
  <2>3. /\ ListenComesFirst'
        /\ \A a \in Beacons \ {b} : /\ Queued(a)' => Queued(a)
                                    /\ ListenQueued(a)' => ListenQueued(a)
    BY Zenon, <1>2, <2>2, OfferKeepsOrder DEF HandshakeListen
  <2>4. \A a \in Beacons : Unmet(a)' <=> Unmet(a)
    BY <2>1 DEF Unmet, Sweeping
  <2>5. NoLeftoverRecord' /\ ListenerIsNotUnsubscribed'
    BY <2>1 DEF HandshakeInv, NoLeftoverRecord, ListenerIsNotUnsubscribed, Sweeping
  <2>6. pc = "subscribe" => current \in Beacons /\ current # b
    BY <2>1 DEF HandshakeInv, LoopOK, TypeOK
  <2>7. \A a \in Beacons : handshake'[a] = IF a = b THEN "listen_sent" ELSE handshake[a]
    BY <2>1 DEF TypeOK
  <2>8. pc' = "subscribe" => ~ListenQueued(current)'
    <3> SUFFICES ASSUME NEW a \in Beacons \ {b}, a = current, pc = "subscribe"
                 PROVE  ~ListenQueued(a)'
      BY <2>1, <2>6 DEF ListenQueued
    <3> QED
      BY <2>3 DEF HandshakeInv
  <2> QED
    BY <2>1, <2>2, <2>3, <2>4, <2>5, <2>6, <2>7, <2>8 DEF HandshakeInv
<1>3. ASSUME NEW b \in Beacons, HandshakeBroadcast(b)
      PROVE  HandshakeInv'
  <2>1. /\ handshake' = [handshake EXCEPT ![b] = "done"]
        /\ UNCHANGED <<registered, records, unsubscribing, pc, current>>
    BY <1>3 DEF HandshakeBroadcast, mqttVars, loopVars
  <2>2. /\ ListenComesFirst'
        /\ \A a \in Beacons \ {b} : Queued(a)' => Queued(a)
        /\ \A a \in Beacons : ListenQueued(a)' => ListenQueued(a)
    BY Zenon, <1>3, OfferKeepsOrder DEF HandshakeBroadcast
  <2>3. \A a \in Beacons : Unmet(a)' <=> Unmet(a)
    BY <2>1 DEF Unmet, Sweeping
  <2>4. NoLeftoverRecord' /\ ListenerIsNotUnsubscribed'
    BY <2>1 DEF HandshakeInv, NoLeftoverRecord, ListenerIsNotUnsubscribed, Sweeping
  <2>5. pc = "subscribe" => current \in Beacons
    BY DEF LoopOK, TypeOK
  <2>6. \A a \in Beacons : handshake'[a] = IF a = b THEN "done" ELSE handshake[a]
    BY <2>1 DEF TypeOK
  <2>7. pc' = "subscribe" => ~ListenQueued(current)'
    <3> SUFFICES ASSUME NEW a \in Beacons, a = current, pc = "subscribe"
                 PROVE  ~ListenQueued(a)'
      BY <2>1, <2>5 DEF ListenQueued
    <3> QED
      BY <2>2 DEF HandshakeInv
  <2> QED
    BY <2>1, <2>2, <2>3, <2>4, <2>5, <2>6, <2>7 DEF HandshakeInv
<1>4. CASE RegisterChannel
  <2> DEFINE b == Head(topicQueue).beacon
  <2>1. /\ topicQueue # <<>> /\ topicQueue' = Tail(topicQueue)
        /\ registered' = registered \cup {b}
        /\ records' = RecordsAfterCancel
        /\ current' = b
        /\ pc' = IF Head(topicQueue).type = "Listen" THEN "subscribe" ELSE "push"
        /\ UNCHANGED <<handshake, unsubscribing>>
    BY <1>4 DEF RegisterChannel, mqttVars
  <2>2. /\ ListenComesFirst'
        /\ \A a \in Beacons : /\ Queued(a)' => Queued(a)
                              /\ ListenQueued(a)' => ListenQueued(a)
        /\ Head(topicQueue) \in Channel
        /\ \A a \in Beacons : b = a => /\ Queued(a) /\ ~ListenQueued(a)'
                                       /\ Head(topicQueue).type = "Listen" => ListenQueued(a)
    BY <2>1, ReceiveKeepsOrder
  <2>3. b \in Beacons
    BY <2>2 DEF Channel
  <2> HIDE DEF b
  <2>4. \A a \in Beacons : a # b /\ Unmet(a) => Unmet(a)'
    BY <2>1 DEF Unmet, Sweeping
  <2>5. \A a \in Beacons : handshake[a] = "none" => a # b
    BY <2>2 DEF HandshakeInv
  <2>6. pc' = "subscribe" => Unmet(b) /\ handshake[b] # "none"
    BY <2>1, <2>2, <2>3, <2>5 DEF HandshakeInv
  <2>7. pc' = "subscribe" => ~ListenQueued(current)'
    <3> SUFFICES ASSUME NEW a \in Beacons, a = b PROVE ~ListenQueued(a)'
      BY <2>1, <2>3 DEF ListenQueued
    <3> QED
      BY <2>2
  <2>8. NoLeftoverRecord'
    BY <2>1, CancelKeeps DEF HandshakeInv, NoLeftoverRecord
  <2>9. ListenerIsNotUnsubscribed'
    <3>1. \A a \in registered : records'[a] = records[a]
      BY <2>1, CancelKeeps DEF SweptBeaconsAreStale, TypeOK
    <3>2. b \notin registered => records'[b] = NewRecord
      BY Zenon, <2>1, <2>3, CancelKeeps DEF HandshakeInv, NoLeftoverRecord
    <3> QED
      BY <2>1, <3>1, <3>2, NewRecordFields DEF HandshakeInv, ListenerIsNotUnsubscribed
  <2>10. \A a \in Beacons : handshake'[a] = "none" => ~Queued(a)' /\ Unmet(a)'
    BY <2>1, <2>2, <2>4, <2>5 DEF HandshakeInv
  <2>11. \A a \in Beacons : ListenQueued(a)' => Unmet(a)'
    BY <2>2, <2>4 DEF HandshakeInv
  <2>12. pc' = "subscribe" => handshake'[current'] # "none" /\ current' \notin unsubscribing'
    BY <2>1, <2>6 DEF Unmet
  <2> QED
    BY <2>2, <2>7, <2>8, <2>9, <2>10, <2>11, <2>12 DEF HandshakeInv
<1> USE DEF NoLeftoverRecord, ListenerIsNotUnsubscribed
<1>5. ASSUME NEW ok \in BOOLEAN, SubscribeReply(ok)
      PROVE  HandshakeInv'
  <2>1. /\ current \in registered /\ pc' = "select"
        /\ current \notin unsubscribing
        /\ UNCHANGED <<handshake, topicQueue, registered, unsubscribing>>
        /\ \A a \in Beacons \ {current} : records'[a] = records[a]
    BY <1>5 DEF SubscribeReply, HandshakeInv, LoopOK, TypeOK
  <2>2. \A a \in Beacons : Unmet(a) => Unmet(a)'
    BY <2>1 DEF Unmet, Sweeping
  <2>3. NoLeftoverRecord' /\ ListenerIsNotUnsubscribed'
    BY <1>5, <2>1 DEF HandshakeInv, Sweeping, SubscribeReply, TypeOK
  <2> QED
    BY <2>1, <2>2, <2>3, QueueUntouched
<1>6. CASE PushBroadcastTopic
  <2>1. /\ current \in registered /\ pc' = "select" /\ ~Sweeping
        /\ UNCHANGED <<handshake, topicQueue, registered, unsubscribing>>
        /\ \A a \in Beacons \ {current} : records'[a] = records[a]
        /\ records'[current].listen = records[current].listen
    BY <1>6, TopicFields DEF PushBroadcastTopic, LoopOK, TypeOK, mqttVars, Sweeping
  <2>2. \A a \in Beacons : Unmet(a) => Unmet(a)'
    BY <2>1 DEF Unmet, Sweeping
  <2>3. NoLeftoverRecord' /\ ListenerIsNotUnsubscribed'
    BY <2>1 DEF HandshakeInv, Sweeping, TypeOK
  <2> QED
    BY <2>1, <2>2, <2>3, QueueUntouched
<1>7. CASE HandleMessage
  <2>1. PICK t \in Topics, g \in Gateways \cup {NoGateway} : MessageFrom(t, g)
    BY <1>7, MessageEffect
  <2>2. /\ pc' = "select"
        /\ UNCHANGED <<handshake, topicQueue, registered, unsubscribing>>
    BY <1>7 DEF HandleMessage, ContinueLoop, mqttVars
  <2>3. \A a \in Beacons : Unmet(a) => Unmet(a)'
    BY <2>2 DEF Unmet, Sweeping
  <2>4. \A a \in registered : records'[a].listen = records[a].listen
    BY <2>1, CancelKeeps DEF MessageFrom, SweptBeaconsAreStale, TypeOK
  <2>5. \A a \in Beacons \ registered : records'[a] = NewRecord
    BY <2>1, CancelKeeps DEF MessageFrom, HandshakeInv
  <2> QED
    BY Zenon, <2>2, <2>3, <2>4, <2>5, QueueUntouched DEF HandshakeInv
<1>8. CASE Tick
  <2>1. /\ UNCHANGED <<handshake, topicQueue, registered, unsubscribing, pc, current>>
        /\ \A a \in Beacons \ registered : records'[a] = records[a]
        /\ \A a \in registered : records'[a].listen = records[a].listen
    BY <1>8, OlderFields DEF Tick, mqttVars, loopVars, TypeOK
  <2> QED
    BY Zenon, <2>1 DEF HandshakeInv, ListenComesFirst, Queued, ListenQueued, Unmet, Sweeping
<1>9. ASSUME NEW b \in Beacons, NEW ok \in BOOLEAN, ExecuteUnsubscribe(b, ok)
      PROVE  HandshakeInv'
  <2>1. /\ UNCHANGED <<handshake, topicQueue, registered, records, pc, current>>
        /\ unsubscribing' \subseteq unsubscribing
    BY <1>9 DEF ExecuteUnsubscribe, loopVars
  <2> QED
    BY <2>1 DEF HandshakeInv, ListenComesFirst, Queued, ListenQueued, Unmet, Sweeping
<1>10. CASE CheckTimeouts \/ SweepDone
  <2>1. /\ pc' \in {"select", "sweep_take"} /\ pc \in {"select", "sweep_take"}
        /\ UNCHANGED <<handshake, topicQueue, registered, records, unsubscribing>>
    BY <1>10 DEF CheckTimeouts, SweepDone, mqttVars
  <2>2. \A a \in Beacons : Unmet(a) => Unmet(a)'
    BY <2>1 DEF Unmet, Sweeping
  <2> QED
    BY Zenon, <2>1, <2>2, QueueUntouched DEF HandshakeInv, Sweeping
<1>11. ASSUME NEW b \in Beacons, SweepTake(b)
       PROVE  HandshakeInv'
  <2>1. /\ b \in registered /\ pc = "sweep_take" /\ pc' \in {"sweep_send", "sweep_retain"}
        /\ registered' = registered \ {b} /\ current' = b
        /\ UNCHANGED <<handshake, topicQueue, records, unsubscribing>>
    BY <1>11 DEF SweepTake, SweptBeaconsAreStale, mqttVars
  <2>2. \A a \in Beacons : Unmet(a) => Unmet(a)'
    BY <2>1 DEF Unmet
  <2> QED
    BY Zenon, <2>1, <2>2, QueueUntouched DEF HandshakeInv, Sweeping
<1>11a. ASSUME NEW sent \in BOOLEAN, SweepSend(sent)
        PROVE  HandshakeInv'
  <2>1. /\ Sweeping /\ pc' \in {"sweep_unsub", "sweep_retain"} /\ current \notin registered
        /\ unsubscribing' \subseteq unsubscribing \cup {current}
        /\ UNCHANGED <<handshake, topicQueue, registered, records, current>>
    BY <1>11a DEF SweepSend, Sweeping, SweptBeaconsAreStale
  <2>2. \A a \in Beacons : Unmet(a) => Unmet(a)'
    BY <2>1 DEF Unmet
  <2>3. NoLeftoverRecord' /\ ListenerIsNotUnsubscribed'
    BY <2>1 DEF HandshakeInv, Sweeping
  <2> QED
    BY <2>1, <2>2, <2>3, QueueUntouched
<1>12. CASE SweepUnsubscribed \/ SweepRetain
  <2>1. /\ Sweeping /\ Sweeping'
        /\ UNCHANGED <<handshake, topicQueue, registered, records, unsubscribing, current>>
    BY <1>12 DEF SweepUnsubscribed, SweepRetain, Sweeping, mqttVars
  <2>2. \A a \in Beacons : Unmet(a) => Unmet(a)'
    BY <2>1 DEF Unmet
  <2>3. pc' # "subscribe"
    BY <2>1 DEF Sweeping
  <2> QED
    BY Zenon, <2>1, <2>2, <2>3, QueueUntouched DEF HandshakeInv
<1>13. CASE SweepEvict
  <2>1. /\ pc' = "sweep_take" /\ Sweeping /\ current \in Beacons /\ current \notin registered
        /\ UNCHANGED <<handshake, topicQueue, registered, unsubscribing, current>>
        /\ records' = [records EXCEPT ![current] = NewRecord]
    BY <1>13 DEF SweepEvict, Sweeping, mqttVars, SweptBeaconsAreStale, LoopOK
  <2>2. \A a \in Beacons : Unmet(a) => Unmet(a)'
    BY <2>1 DEF Unmet, Sweeping
  <2>3. NoLeftoverRecord' /\ ListenerIsNotUnsubscribed'
    BY <2>1 DEF HandshakeInv, TypeOK
  <2> QED
    BY <2>1, <2>2, <2>3, QueueUntouched
<1> QED
  BY Zenon, <1>1, <1>2, <1>3, <1>4, <1>5, <1>6, <1>7, <1>8, <1>9, <1>10, <1>11,
     <1>11a, <1>12, <1>13
     DEF Next, vars, mqttVars, loopVars, Environment, Handshake, MessageLoop, Sweep,
         DeliverMessage, SessionLost, BroadcastCycleStart, BroadcastCycleEnd

\* It holds when the loop starts and after every step of any task.
LEMMA HandshakeInvariance == Spec => []HandshakeInv
<1>1. ASSUME Init
      PROVE  HandshakeInv
  <2>1. /\ registered = {} /\ unsubscribing = {} /\ pc = "select"
        /\ \A b \in Beacons : records[b] = NewRecord
    BY <1>1 DEF Init
  <2>2. DOMAIN topicQueue = {}
    BY <1>1 DEF Init
  <2>3. ~Sweeping
    BY <2>1 DEF Sweeping
  <2>4. ListenComesFirst /\ \A b \in Beacons : ~Queued(b) /\ ~ListenQueued(b)
    BY <2>2 DEF ListenComesFirst, Queued, ListenQueued
  <2>5. \A b \in Beacons : Unmet(b)
    BY Zenon, <2>1, <2>3 DEF Unmet
  <2>6. NoLeftoverRecord /\ ListenerIsNotUnsubscribed
    BY <2>1 DEF NoLeftoverRecord, ListenerIsNotUnsubscribed
  <2> QED
    BY <2>1, <2>4, <2>5, <2>6 DEF HandshakeInv
<1> QED
  BY <1>1, Invariance, HandshakeInductive, PTL DEF Spec

\* register_channel meets a beacon's Listen channel before its Broadcast
\* channel, whatever try_send has dropped.
THEOREM ListenFirst == Spec => []ListenComesFirst
BY HandshakeInvariance, PTL DEF HandshakeInv

\* The unsubscribe a dropped sweep leaves behind never hits a registered
\* beacon the registry listens to.
THEOREM ListenersKept == Spec => []ListenerIsNotUnsubscribed
BY HandshakeInvariance, PTL DEF HandshakeInv
-----------------------------------------------------------------------------
(***************************************************************************)
(* The beacons' own clock.  BeaconSilence only adds a history variable and *)
(* restricts the environment, so everything proved above holds of it.  The *)
(* age the registry keeps never exceeds the silence of a beacon it listens *)
(* to, unless a message of that beacon waits in the inbound queue; then no *)
(* time passes before the message is handled.                              *)
(***************************************************************************)

\* Every step seen from the beacons is a step of the registry, or none.
LEMMA SilenceStep ==
    [SilenceNext \/ (SessionLost /\ UNCHANGED silence)]_silenceVars => [Next]_vars
<1>1. ASSUME NEW b \in Beacons, Publish(b)
      PROVE  [Next]_vars
  BY <1>1 DEF Publish, Next, Environment, Topics
<1> QED
  BY <1>1 DEF SilenceNext, silenceVars, TimePasses, Next, Environment

\* BeaconSilence, with or without lost sessions, implements BeaconRegistry.
THEOREM SilenceRefinement == (SilenceSpec => Spec) /\ (ReconnectSpec => Spec)
<1>1. SilenceInit => Init
  BY DEF SilenceInit
<1>2. [SilenceNext]_silenceVars => [Next]_vars
  BY SilenceStep
<1> QED
  BY <1>1, <1>2, SilenceStep, PTL DEF SilenceSpec, ReconnectSpec, Spec

Waiting(b) == \E i \in DOMAIN inbound : inbound[i].topic = b

\* The registry's clock is not ahead of the beacon's, or is about to be reset.
AgeIsSilence(b) ==
    \/ records[b].age <= silence[b]
    \/ records[b].age <= BEACON_TIMEOUT /\ Waiting(b)

SilenceInv ==
    /\ silence \in [Beacons -> 0 .. BEACON_TIMEOUT + 1]
    /\ \A b \in registered : records[b].listen => b \in subscribed /\ AgeIsSilence(b)
    /\ pc = "subscribe" => records[current].age = 0
    /\ PunctualBeaconIsKept

\* What is left of the inbound queue after its head has been handled.
LEMMA StillWaiting ==
    ASSUME inbound \in Seq(Message), inbound # <<>>, inbound' = Tail(inbound),
           NEW b \in Beacons, Waiting(b), Head(inbound).topic # b
    PROVE  Waiting(b)'
<1>1. PICK i \in DOMAIN inbound : inbound[i].topic = b
  BY DEF Waiting
<1>2. i # 1 /\ i - 1 \in DOMAIN inbound' /\ inbound'[i - 1] = inbound[i]
  BY <1>1, TailElements
<1> QED
  BY <1>1, <1>2 DEF Waiting

\* A message handled on the topic of a registered beacon resets its age.
LEMMA MessageResets ==
    ASSUME TypeOK, HandleMessage, NEW b \in registered, Head(inbound).topic = b
    PROVE  records'[b].age = 0
<1>1. records[b] \in BeaconRecord /\ b \in Beacons
  BY DEF TypeOK
<1>2. \A g \in Gateways : associate_gateway(update_last_seen(records[b]), g).age = 0
  BY <1>1, SeenFields, AssociateFields
<1>3. update_last_seen(records[b]).age = 0
  BY <1>1, SeenFields
<1>4. Head(inbound) \in Message
  BY QueueType DEF TypeOK, HandleMessage
<1> QED
  BY <1>1, <1>2, <1>3, <1>4 DEF HandleMessage, Message

\* A step that leaves both clocks of b, and the queue of messages, alone.
LEMMA ClocksKept ==
    ASSUME NEW b, AgeIsSilence(b), UNCHANGED <<silence, inbound>>,
           records'[b].age = records[b].age
    PROVE  AgeIsSilence(b)'
BY DEF AgeIsSilence, Waiting

\* No step seen from the beacons lets the registry's clock run ahead of theirs.
LEMMA SilenceInductive ==
    IInv /\ HandshakeInv /\ SilenceInv /\ [SilenceNext]_silenceVars => SilenceInv'
<1> SUFFICES ASSUME TypeOK, LoopOK, SweptBeaconsAreStale, HandshakeInv, SilenceInv,
                    [SilenceNext]_silenceVars
             PROVE  SilenceInv'
  BY DEF IInv
<1> USE RegistryAssumption
<1>0. \A b \in Beacons : /\ records[b] \in BeaconRecord
                         /\ records[b].age \in 0 .. BEACON_TIMEOUT + 1
                         /\ silence[b] \in 0 .. BEACON_TIMEOUT + 1
  BY RecordFields DEF TypeOK, SilenceInv
<1>1. ASSUME UNCHANGED <<records, registered, inbound, subscribed, silence, pc, current>>
      PROVE  SilenceInv'
  BY <1>1 DEF SilenceInv, AgeIsSilence, Waiting, PunctualBeaconIsKept, Sweeping
<1>2. ASSUME NEW a \in Beacons, Publish(a)
      PROVE  SilenceInv'
  <2>1. /\ UNCHANGED <<records, registered, subscribed, pc, current>>
        /\ silence' = [silence EXCEPT ![a] = IF @ > BEACON_TIMEOUT THEN @ ELSE 0]
    BY <1>2 DEF Publish, Heard, DeliverMessage, vars, mqttVars, loopVars
  <2>2. /\ silence' \in [Beacons -> 0 .. BEACON_TIMEOUT + 1]
        /\ \A b \in Beacons : silence'[b] = silence[b]
                              \/ (b = a /\ silence[b] <= BEACON_TIMEOUT)
        /\ \A b \in Beacons : silence[b] > BEACON_TIMEOUT => silence'[b] > BEACON_TIMEOUT
    BY <1>0, <2>1 DEF SilenceInv
  <2>3. \A b \in Beacons : Waiting(b) => Waiting(b)'
    <3>1. \A i \in DOMAIN inbound : i \in DOMAIN inbound' /\ inbound'[i] = inbound[i]
      BY <1>2 DEF Publish, DeliverMessage, TypeOK, vars
    <3> QED
      BY <3>1 DEF Waiting
  <2>4. a \in subscribed => Waiting(a)'
    <3> SUFFICES ASSUME a \in subscribed PROVE Waiting(a)'
      OBVIOUS
    <3>1. inbound' = Append(inbound, [topic |-> a, gateway |-> NoGateway])
      BY <1>2 DEF Publish, DeliverMessage
    <3>2. /\ Len(inbound) + 1 \in DOMAIN inbound'
          /\ inbound'[Len(inbound) + 1] = [topic |-> a, gateway |-> NoGateway]
      BY <3>1 DEF TypeOK
    <3> QED
      BY <3>2 DEF Waiting
  <2>5. ASSUME NEW b \in registered, records[b].listen
        PROVE  b \in subscribed /\ AgeIsSilence(b)'
    <3>1. b \in Beacons /\ b \in subscribed /\ AgeIsSilence(b)
      BY <2>5 DEF SilenceInv, TypeOK
    <3>2. CASE silence'[b] = silence[b]
      BY <2>1, <2>3, <3>1, <3>2 DEF AgeIsSilence
    <3>3. CASE b = a /\ silence[b] <= BEACON_TIMEOUT
      <4>1. records[b].age <= BEACON_TIMEOUT
        BY <1>0, <3>1, <3>3 DEF AgeIsSilence
      <4> QED
        BY <2>1, <2>4, <3>1, <3>3, <4>1 DEF AgeIsSilence
    <3> QED
      BY <2>2, <3>1, <3>2, <3>3
  <2>6. PunctualBeaconIsKept'
    BY <2>1, <2>2 DEF SilenceInv, PunctualBeaconIsKept, LoopOK, Sweeping
  <2> QED
    BY <2>1, <2>2, <2>5, <2>6 DEF SilenceInv
<1>3. CASE TimePasses
  <2>1. /\ pc = "select" /\ inbound = <<>>
        /\ UNCHANGED <<registered, subscribed, pc, current>>
        /\ \A b \in registered : records'[b] = Older(records[b])
        /\ silence' = Aged
    BY <1>3 DEF TimePasses, Tick, mqttVars, loopVars, TypeOK
  <2>2. silence' \in [Beacons -> 0 .. BEACON_TIMEOUT + 1]
    BY <1>0, <2>1 DEF Aged
  <2>3. ASSUME NEW b \in registered, records'[b].listen
        PROVE  b \in subscribed /\ AgeIsSilence(b)'
    <3>1. b \in Beacons /\ records[b].listen
      BY <1>0, <2>1, <2>3, OlderFields DEF TypeOK
    <3>2. b \in subscribed /\ records[b].age <= silence[b]
      BY <2>1, <3>1 DEF SilenceInv, AgeIsSilence, Waiting
    <3>3. records'[b].age = IF records[b].age > BEACON_TIMEOUT THEN records[b].age
                            ELSE records[b].age + 1
      BY <1>0, <2>1, <3>1, OlderFields
    <3>4. silence'[b] = IF silence[b] <= BEACON_TIMEOUT THEN silence[b] + 1 ELSE silence[b]
      BY <2>1, <3>1 DEF Aged
    <3>5. records'[b].age <= silence'[b]
      BY <1>0, <3>1, <3>2, <3>3, <3>4
    <3> QED
      BY <3>2, <3>5 DEF AgeIsSilence
  <2> QED
    BY <2>1, <2>2, <2>3 DEF SilenceInv, PunctualBeaconIsKept, Sweeping
<1>4. ASSUME NEW a \in Beacons, NEW ok \in BOOLEAN, ExecuteUnsubscribe(a, ok),
             UNCHANGED silence
      PROVE  SilenceInv'
  <2>1. /\ a \in unsubscribing
        /\ subscribed \ {a} \subseteq subscribed'
        /\ UNCHANGED <<records, registered, inbound, silence, pc, current>>
    BY <1>4 DEF ExecuteUnsubscribe, loopVars
  <2>2. \A b \in registered : records[b].listen => b # a
    BY <2>1 DEF HandshakeInv, ListenerIsNotUnsubscribed
  <2> QED
    BY <2>1, <2>2 DEF SilenceInv, AgeIsSilence, Waiting, PunctualBeaconIsKept, Sweeping
<1>5. ASSUME RegisterChannel, UNCHANGED silence
      PROVE  SilenceInv'
  <2> DEFINE b == Head(topicQueue).beacon
  <2>1. /\ b \in Beacons
        /\ registered' = registered \cup {b} /\ records' = RecordsAfterCancel
        /\ current' = b /\ pc' \in {"subscribe", "push"}
        /\ pc' = "subscribe" => ListenQueued(b)
        /\ UNCHANGED <<inbound, subscribed, silence>>
    BY Zenon, <1>5, ReceiveKeepsOrder DEF RegisterChannel, Channel, mqttVars
  <2> HIDE DEF b
  <2>2. \A a \in registered : records'[a] = records[a]
    BY <2>1, CancelKeeps DEF SweptBeaconsAreStale, TypeOK
  <2>3. b \notin registered => records'[b] = NewRecord
    BY Zenon, <2>1, CancelKeeps DEF HandshakeInv, NoLeftoverRecord
  <2>4. pc' = "subscribe" => b \notin registered
    BY <2>1 DEF HandshakeInv, Unmet
  <2>5. ASSUME NEW a \in registered', records'[a].listen
        PROVE  a \in subscribed' /\ AgeIsSilence(a)'
    <3>1. a \in registered /\ records'[a] = records[a]
      BY Zenon, <2>1, <2>2, <2>3, <2>5, NewRecordFields
    <3> QED
      BY Zenon, <2>1, <2>5, <3>1, ClocksKept DEF SilenceInv
  <2> QED
    BY <2>1, <2>3, <2>4, <2>5, NewRecordFields DEF SilenceInv, PunctualBeaconIsKept, Sweeping
<1>6. ASSUME NEW ok \in BOOLEAN, SubscribeReply(ok), UNCHANGED silence
      PROVE  SilenceInv'
  <2>1. /\ current \in registered /\ current \in Beacons /\ pc = "subscribe" /\ pc' = "select"
        /\ UNCHANGED <<registered, inbound, silence>>
        /\ subscribed' = IF ok THEN subscribed \cup {current} ELSE subscribed
        /\ \A a \in Beacons : records'[a].age = records[a].age
        /\ \A a \in Beacons : records'[a].listen => records[a].listen \/ (ok /\ a = current)
    <3>1. /\ current \in registered /\ current \in Beacons /\ pc = "subscribe" /\ pc' = "select"
          /\ UNCHANGED <<registered, inbound, silence>>
          /\ subscribed' = IF ok THEN subscribed \cup {current} ELSE subscribed
      BY <1>6 DEF SubscribeReply, LoopOK, TypeOK
    <3>2. \A a \in Beacons :
             records'[a] = IF ok /\ a = current THEN Listening(records[a]) ELSE records[a]
      BY <1>6 DEF SubscribeReply, TypeOK
    <3> QED
      BY <1>0, <3>1, <3>2, TopicFields
  <2>2. ASSUME NEW a \in registered, records'[a].listen
        PROVE  a \in subscribed' /\ AgeIsSilence(a)'
    <3>1. a \in Beacons
      BY DEF TypeOK
    <3>2. CASE records[a].listen
      BY <2>1, <3>1, <3>2, ClocksKept DEF SilenceInv
    <3>3. CASE ok /\ a = current
      <4>1. records'[a].age = 0 /\ silence'[a] \in Nat
        BY <1>0, <2>1, <3>3 DEF SilenceInv
      <4> QED
        BY <2>1, <3>3, <4>1 DEF AgeIsSilence
    <3> QED
      BY <2>1, <2>2, <3>1, <3>2, <3>3
  <2> QED
    BY <2>1, <2>2 DEF SilenceInv, PunctualBeaconIsKept, Sweeping
<1>7. ASSUME PushBroadcastTopic, UNCHANGED silence
      PROVE  SilenceInv'
  <2>1. /\ pc' = "select" /\ UNCHANGED <<registered, inbound, subscribed, silence>>
        /\ \A a \in Beacons : /\ records'[a].age = records[a].age
                              /\ records'[a].listen = records[a].listen
    BY <1>0, <1>7, TopicFields DEF PushBroadcastTopic, TypeOK, mqttVars
  <2>2. \A a \in registered : records'[a].listen => a \in subscribed' /\ AgeIsSilence(a)'
    BY Zenon, <2>1, ClocksKept DEF SilenceInv, TypeOK
  <2> QED
    BY <2>1, <2>2 DEF SilenceInv, PunctualBeaconIsKept, Sweeping
<1>8. ASSUME HandleMessage, UNCHANGED silence
      PROVE  SilenceInv'
  <2>1. /\ pc' = "select" /\ inbound # <<>> /\ inbound' = Tail(inbound)
        /\ UNCHANGED <<registered, subscribed, silence>>
    BY <1>8 DEF HandleMessage, ContinueLoop, mqttVars
  <2>2. ASSUME NEW a \in registered, records'[a].listen
        PROVE  a \in subscribed' /\ AgeIsSilence(a)'
    <3>1. a \in Beacons /\ (Sweeping => a # current)
      BY DEF TypeOK, SweptBeaconsAreStale
    <3>2. PICK t \in Topics, g \in Gateways \cup {NoGateway} : MessageFrom(t, g)
      BY <1>8, MessageEffect
    <3>3. records[a].listen
      BY <2>2, <3>1, <3>2, CancelKeeps DEF MessageFrom
    <3>4. a \in subscribed /\ AgeIsSilence(a)
      BY <3>3 DEF SilenceInv
    <3>5. CASE Head(inbound).topic = a
      <4>1. records'[a].age = 0
        BY <1>8, <3>5, MessageResets
      <4> QED
        BY <1>0, <2>1, <3>1, <3>4, <4>1 DEF AgeIsSilence
    <3>6. CASE Head(inbound).topic # a
      <4>1. records'[a] = records[a]
        BY <1>8, <3>1, <3>6, CancelKeeps DEF HandleMessage
      <4>2. Waiting(a) => Waiting(a)'
        BY <2>1, <3>1, <3>6, StillWaiting DEF TypeOK
      <4> QED
        BY <2>1, <3>4, <4>1, <4>2 DEF AgeIsSilence
    <3> QED
      BY <3>5, <3>6
  <2> QED
    BY <2>1, <2>2 DEF SilenceInv, PunctualBeaconIsKept, Sweeping
<1>9. ASSUME NEW a \in Beacons, SweepTake(a), UNCHANGED silence
      PROVE  SilenceInv'
  <2>1. /\ a \in registered /\ records[a].age > BEACON_TIMEOUT
        /\ registered' \subseteq registered /\ current' = a
        /\ pc' \in {"sweep_send", "sweep_retain"}
        /\ UNCHANGED <<records, inbound, subscribed, silence>>
    BY Zenon, <1>9 DEF SweepTake, SweptBeaconsAreStale, mqttVars
  <2>2. records[a].listen => silence[a] > BEACON_TIMEOUT
    BY <1>0, <2>1 DEF SilenceInv, AgeIsSilence
  <2> QED
    BY <2>1, <2>2 DEF SilenceInv, AgeIsSilence, Waiting, PunctualBeaconIsKept
<1>10. ASSUME CheckTimeouts \/ SweepDone, UNCHANGED silence
       PROVE  SilenceInv'
  BY <1>10 DEF CheckTimeouts, SweepDone, mqttVars, SilenceInv, AgeIsSilence, Waiting,
               PunctualBeaconIsKept, Sweeping
<1>11. ASSUME (\E sent \in BOOLEAN : SweepSend(sent)) \/ SweepUnsubscribed \/ SweepRetain,
              UNCHANGED silence
       PROVE  SilenceInv'
  <2>1. /\ Sweeping /\ Sweeping'
        /\ UNCHANGED <<records, registered, inbound, subscribed, silence, current>>
    BY <1>11 DEF SweepSend, SweepUnsubscribed, SweepRetain, Sweeping, mqttVars
  <2>2. pc' # "subscribe"
    BY <2>1 DEF Sweeping
  <2> QED
    BY <2>1, <2>2 DEF SilenceInv, AgeIsSilence, Waiting, PunctualBeaconIsKept
<1>12. ASSUME SweepEvict, UNCHANGED silence
       PROVE  SilenceInv'
  <2>1. /\ pc' = "sweep_take"
        /\ UNCHANGED <<registered, inbound, subscribed, silence>>
        /\ \A a \in registered : records'[a] = records[a]
    BY <1>12 DEF SweepEvict, Sweeping, SweptBeaconsAreStale, mqttVars, TypeOK
  <2> QED
    BY <2>1 DEF SilenceInv, AgeIsSilence, Waiting, PunctualBeaconIsKept, Sweeping
<1>13. ASSUME Handshake \/ BroadcastCycleStart \/ BroadcastCycleEnd, UNCHANGED silence
       PROVE  UNCHANGED <<records, registered, inbound, subscribed, silence, pc, current>>
  BY Zenon, <1>13 DEF Handshake, HandshakeListen, HandshakeBroadcast, BroadcastCycleStart,
               BroadcastCycleEnd, mqttVars, loopVars
<1>14. UNCHANGED silenceVars
       => UNCHANGED <<records, registered, inbound, subscribed, silence, pc, current>>
  BY DEF silenceVars, vars, mqttVars, loopVars
<1> QED
  BY <1>1, <1>2, <1>3, <1>4, <1>5, <1>6, <1>7, <1>8, <1>9, <1>10, <1>11, <1>12, <1>13,
     <1>14 DEF SilenceNext, MessageLoop, Sweep

\* check_timeouts takes a beacon it listens to only after that beacon has been
\* silent for more than BEACON_TIMEOUT, whatever the capacities, the timeouts
\* and the number of beacons, as long as the MQTT session lasts and time passes
\* only while the loop is idle and no message waits for it.
THEOREM PunctualKept == SilenceSpec => []PunctualBeaconIsKept
<1>1. ASSUME SilenceInit
      PROVE  SilenceInv
  <2>1. registered = {} /\ pc = "select" /\ silence = [b \in Beacons |-> 0]
    BY <1>1 DEF SilenceInit, Init
  <2>2. silence \in [Beacons -> 0 .. BEACON_TIMEOUT + 1]
    BY <2>1, RegistryAssumption
  <2> QED
    BY <2>1, <2>2 DEF SilenceInv, PunctualBeaconIsKept, Sweeping
<1>2. SilenceInv => PunctualBeaconIsKept
  BY Zenon DEF SilenceInv
<1> QED
  BY <1>1, <1>2, SilenceRefinement, Invariance, HandshakeInvariance, SilenceInductive, PTL
     DEF SilenceSpec
=============================================================================
