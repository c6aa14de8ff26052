-------------------------- MODULE MCBeaconRegistry --------------------------
(***************************************************************************)
(* TLC instances of BeaconRegistry.                                        *)
(***************************************************************************)
EXTENDS BeaconRegistry, TLC

CONSTANTS b1, b2, own, g1, g2

MCBeacons == {b1, b2}
MCGateways == {own, g1, g2}
MCOneGateway == {own, g1}
MCNoGateway == {}
Symmetry == Permutations({b1, b2}) \cup Permutations({g1, g2})
=============================================================================
