--------------------------- MODULE MCBroadcastKeys ---------------------------
(* Instances of BroadcastKeys for TLC. *)
EXTENDS BroadcastKeys

CONSTANTS k1, k2, k3, k4, k5

MCKeyIds == {k1, k2, k3, k4, k5}
=============================================================================
