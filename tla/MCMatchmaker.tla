---------------------------- MODULE MCMatchmaker ----------------------------
(***************************************************************************)
(* Two users and a shard for Matchmaker.                                   *)
(***************************************************************************)
EXTENDS Matchmaker

CONSTANTS u1, u2, s1

\* Near enough to be matched, at the edge of the window.
Ratings == [u \in Users |-> IF u = u1 THEN 1200 ELSE 1300]
=============================================================================
