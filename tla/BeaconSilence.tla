---------------------------- MODULE BeaconSilence ----------------------------
(***************************************************************************)
(* BeaconRegistry seen from the beacons: silence[b] is the time since b    *)
(* last published on its listen topic, whether or not the message reached  *)
(* the registry.  "A beacon is considered stale and deregistered after     *)
(* this period of silence" (BEACON_TIMEOUT) speaks of this clock; the code *)
(* has only last_seen, set when a message is processed.                    *)
(*                                                                         *)
(* SilenceSpec is favourable to the code: time passes only while the loop  *)
(* has nothing to do, and the MQTT session is never lost.  ReconnectSpec   *)
(* lets the session be lost.                                               *)
(***************************************************************************)
EXTENDS BeaconRegistry

VARIABLE silence

silenceVars == <<vars, silence>>

SilenceInit == Init /\ silence = [b \in Beacons |-> 0]

\* Once past the timeout the silence is not taken back: that beacon has earned
\* its deregistration.
Heard(b) ==
    silence' = [silence EXCEPT ![b] = IF @ > BEACON_TIMEOUT THEN @ ELSE 0]

\* A beacon publishes: the client forwards the message, or there is no
\* subscription and the broker has nobody to send it to.
Publish(b) ==
    /\ Heard(b)
    /\ \/ DeliverMessage(b, NoGateway)
       \/ b \notin subscribed /\ UNCHANGED vars

Aged ==
    [b \in Beacons |-> IF b \in registered /\ silence[b] <= BEACON_TIMEOUT
                       THEN silence[b] + 1 ELSE silence[b]]

TimePasses ==
    /\ pc = "select" /\ inbound = <<>>
    /\ Tick
    /\ silence' = Aged

SilenceNext ==
    \/ \E b \in Beacons : Publish(b)
    \/ TimePasses
    \/ Handshake /\ UNCHANGED silence
    \/ (\E b \in Beacons, ok \in BOOLEAN : ExecuteUnsubscribe(b, ok)) /\ UNCHANGED silence
    \/ (BroadcastCycleStart \/ BroadcastCycleEnd) /\ UNCHANGED silence
    \/ MessageLoop /\ UNCHANGED silence

SilenceSpec == SilenceInit /\ [][SilenceNext]_silenceVars

\* The MQTT session may be lost and re-established.
ReconnectSpec ==
    SilenceInit
    /\ [][SilenceNext \/ (SessionLost /\ UNCHANGED silence)]_silenceVars

\* check_timeouts takes a beacon it listens to only if that beacon has been
\* silent for more than BEACON_TIMEOUT (the doc of that constant).
PunctualBeaconIsKept ==
    Sweeping /\ records[current].listen => silence[current] > BEACON_TIMEOUT
=============================================================================
