---------------------------- MODULE MCGameServer ----------------------------
(***************************************************************************)
(* Two users and two rooms for GameServer: a room with two players, or two *)
(* rooms with a lone player each.                                          *)
(***************************************************************************)
EXTENDS GameServer

CONSTANTS u1, u2
=============================================================================
