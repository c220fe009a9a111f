------------------------------ MODULE Presence ------------------------------
(***************************************************************************)
(* What the rooms are promised about who is there: a user comes and goes,  *)
(* and his member record follows.  How many sockets he uses is not part of *)
(* it.  GameServer and Matchmaking rely on this picture.                   *)
(***************************************************************************)
EXTENDS Rooms

VARIABLES
  connected   \* is the user there?

vars == <<roomVars, connected>>

Init == RoomsInit /\ connected = [u \in Users |-> FALSE]

Arrive(u) ==
  /\ ~ connected[u]
  /\ connected' = [connected EXCEPT ![u] = TRUE]
  /\ Reconnect(u)

Leave(u) ==
  /\ connected[u]
  /\ connected' = [connected EXCEPT ![u] = FALSE]
  /\ MarkDisconnected(u)

Play(u) ==
  /\ connected[u]
  /\ CreateRoom(u) \/ \E r \in RoomIds : JoinRoom(r, u)
  /\ UNCHANGED connected

Wait(r, u) == GraceRunsOut(r, u) /\ UNCHANGED connected

Next == \E u \in Users : Arrive(u) \/ Leave(u) \/ Play(u) \/ \E r \in RoomIds : Wait(r, u)

Spec == Init /\ [][Next]_vars
=============================================================================
