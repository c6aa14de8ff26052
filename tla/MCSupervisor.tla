---------------------------- MODULE MCSupervisor ----------------------------
(* Instances of Supervisor for TLC. *)
EXTENDS Supervisor

CONSTANTS c1, c2

MCCallers == {c1, c2}

\* One service of each kind: a listener, a process, a task with channel ends
\* that exist only once.  Of the others, which are not registered, callers name
\* one.
MCServices == {"Gateway", "Mosquitto", "MqttClient"}
MCRequested == MCServices \cup {"CloudGateway"}
=============================================================================
