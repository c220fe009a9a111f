---------------------------- MODULE MCGatewayCalls ----------------------------
(***************************************************************************)
(* Two users, for GatewayCalls.                                            *)
(***************************************************************************)
EXTENDS GatewayCalls, TLC

CONSTANTS u1, u2

\* Nothing tells the users apart.
SymmetryOfUsers == Permutations({u1, u2})
=============================================================================
