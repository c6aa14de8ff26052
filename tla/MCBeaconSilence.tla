--------------------------- MODULE MCBeaconSilence ---------------------------
(***************************************************************************)
(* TLC instances of BeaconSilence.                                         *)
(***************************************************************************)
EXTENDS BeaconSilence, TLC

CONSTANTS b1, b2

MCBeacons == {b1, b2}
Symmetry == Permutations(MCBeacons)
=============================================================================
