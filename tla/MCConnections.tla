--------------------------- MODULE MCConnections ---------------------------
(***************************************************************************)
(* Three users on three sockets, two rooms (Sockets.cfg): a player with    *)
(* two sockets, and an opponent or a viewer with the third.                *)
(***************************************************************************)
EXTENDS Connections

CONSTANTS u1, u2, u3, s1, s2, s3

=============================================================================
