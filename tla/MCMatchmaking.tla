---------------------------- MODULE MCMatchmaking ----------------------------
(***************************************************************************)
(* Three users for Matchmaking, of whom u1 and u3 are too far apart to be  *)
(* matched and u2 is near both.                                            *)
(***************************************************************************)
EXTENDS Matchmaking, TLC

CONSTANTS u1, u2, u3

ThreeRatings == (u1 :> 1200) @@ (u2 :> 1300) @@ (u3 :> 1301)
=============================================================================
