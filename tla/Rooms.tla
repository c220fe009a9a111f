-------------------------------- MODULE Rooms --------------------------------
(***************************************************************************)
(* Who is in which room: Server/application/room_service.py and the        *)
(* records of Server/domain/models.py it keeps.                            *)
(*                                                                         *)
(* RoomService is a set of synchronous methods on two dictionaries, _rooms *)
(* and _user_room.  It has no loop of its own: the modules that extend     *)
(* this one, Matchmaking and GameServer, call its operations from the      *)
(* server's coroutines.  An operation that raises ValueError changes       *)
(* nothing; its condition has a name here (CanJoin, ...), so that a caller *)
(* can say what it does when the operation raises.                         *)
(*                                                                         *)
(* A room's id is random (secrets.token_hex) and is taken to be new.       *)
(***************************************************************************)
EXTENDS Integers, FiniteSets

CONSTANTS
  Users,      \* user ids
  MaxRooms,   \* bound: rooms created in one run of the server
  NoRoom      \* what _user_room.get returns for a user in no room

ASSUME RoomsAssumption ==
  /\ IsFiniteSet(Users)
  /\ MaxRooms \in Nat
  /\ NoRoom \notin 1 .. MaxRooms

VARIABLES
  members,    \* room.members: the role of every user in every room, "none" if absent
  presence,   \* member.status with member.disconnect_deadline
  userRoom    \* _user_room

roomVars == <<members, presence, userRoom>>

\* Rooms are numbered in the order of their creation.
RoomIds == 1 .. MaxRooms

Roles == {"white", "black", "viewer", "none"}

\* A disconnected member is in "grace" before his deadline, "expired" after it,
\* and "gone" once the deadline was cleared.
Presences == {"connected", "grace", "expired", "gone"}

RoomsTypeOK ==
  /\ members \in [RoomIds -> [Users -> Roles]]
  /\ presence \in [RoomIds -> [Users -> Presences]]
  /\ userRoom \in [Users -> RoomIds \cup {NoRoom}]

RoomsInit ==
  /\ members = [r \in RoomIds |-> [u \in Users |-> "none"]]
  /\ presence = [r \in RoomIds |-> [u \in Users |-> "connected"]]
  /\ userRoom = [u \in Users |-> NoRoom]

-----------------------------------------------------------------------------
Members(r) == {u \in Users : members[r][u] # "none"}

\* The keys of _rooms.  A room is created with a player, and no operation takes
\* a player out or deletes a room.
Created == {r \in RoomIds : Members(r) # {}}

Players(r) == {u \in Users : members[r][u] \in {"white", "black"}}

InRoom(u) == userRoom[u] # NoRoom

FreshRoom == Cardinality(Created) + 1

\* Bound: the server has not used up MaxRooms.
RoomLeft == FreshRoom \in RoomIds

Enter(r, u, role) ==
  /\ members' = [members EXCEPT ![r][u] = role]
  /\ presence' = [presence EXCEPT ![r][u] = "connected"]
  /\ userRoom' = [userRoom EXCEPT ![u] = r]

\* create_room: the creator plays white.  The game starts at once, alone.
CreateRoom(u) ==
  /\ ~ InRoom(u) /\ RoomLeft
  /\ Enter(FreshRoom, u, "white")

\* Mutant: only the first of the two is checked.
CanMatchFirst(a, b) == ~ InRoom(a)

\* create_matched_room
CanMatch(a, b) == ~ InRoom(a) /\ ~ InRoom(b)

CreateMatchedRoom(a, b) ==
  /\ CanMatch(a, b) /\ RoomLeft
  /\ members' = [members EXCEPT ![FreshRoom] = [@ EXCEPT ![a] = "white", ![b] = "black"]]
  /\ presence' = [presence EXCEPT ![FreshRoom] = [u \in Users |-> "connected"]]
  /\ userRoom' = [userRoom EXCEPT ![a] = FreshRoom, ![b] = FreshRoom]

\* join_room: the first to join a lone player plays black, everybody after him
\* watches.  Whether the room's game is over is not looked at.
CanJoin(r, u) == r \in Created /\ ~ InRoom(u)

JoinRole(r) ==
  IF Cardinality(Players(r)) = 0 THEN "white"
  ELSE IF Cardinality(Players(r)) = 1 THEN "black" ELSE "viewer"

JoinRoom(r, u) ==
  /\ CanJoin(r, u)
  /\ Enter(r, u, JoinRole(r))

\* mark_disconnected: a player gets his grace, a viewer leaves the room, and a
\* user in no room has nothing to mark.
MarkDisconnected(u) ==
  LET r == userRoom[u]
  IN  \/ ~ InRoom(u) /\ UNCHANGED roomVars
      \/ /\ InRoom(u) /\ u \in Players(r)
         /\ presence' = [presence EXCEPT ![r][u] = "grace"]
         /\ UNCHANGED <<members, userRoom>>
      \/ /\ InRoom(u) /\ u \notin Players(r)
         /\ members' = [members EXCEPT ![r][u] = "none"]
         /\ userRoom' = [userRoom EXCEPT ![u] = NoRoom]
         /\ UNCHANGED presence

\* reconnect
Reconnect(u) ==
  IF InRoom(u) /\ u \in Members(userRoom[u])
  THEN /\ presence' = [presence EXCEPT ![userRoom[u]][u] = "connected"]
       /\ UNCHANGED <<members, userRoom>>
  ELSE UNCHANGED roomVars

\* Mutant: a user who came back late is disconnected again.
ClearDisconnectDeadlineOfAnyone(r, u) ==
  /\ presence' = IF u \in Members(r) THEN [presence EXCEPT ![r][u] = "gone"] ELSE presence
  /\ UNCHANGED <<members, userRoom>>

\* clear_disconnect_deadline drops the deadline and keeps the status, whatever
\* it is by now.
ClearDisconnectDeadline(r, u) ==
  /\ presence' = IF u \in Members(r) /\ presence[r][u] # "connected"
                 THEN [presence EXCEPT ![r][u] = "gone"]
                 ELSE presence
  /\ UNCHANGED <<members, userRoom>>

\* Time passes a member's deadline (DISCONNECT_GRACE_SECONDS).
GraceRunsOut(r, u) ==
  /\ presence[r][u] = "grace"
  /\ presence' = [presence EXCEPT ![r][u] = "expired"]
  /\ UNCHANGED <<members, userRoom>>

\* Mutant: the deadline is not compared with the time.
ExpiredDisconnectsOrNot ==
  {e \in RoomIds \X Users : e[2] \in Players(e[1]) /\ presence[e[1]][e[2]] \in {"grace", "expired"}}

\* expired_disconnects
ExpiredDisconnects ==
  {e \in RoomIds \X Users : e[2] \in Players(e[1]) /\ presence[e[1]][e[2]] = "expired"}

-----------------------------------------------------------------------------
\* The two dictionaries agree: a user is a member of the room _user_room names
\* and of no other, and a room has at most one player of each colour.
MembershipAgrees ==
  /\ \A r \in RoomIds, u \in Users : u \in Members(r) <=> userRoom[u] = r
  /\ \A r \in RoomIds, u, v \in Users :
       members[r][u] = members[r][v] /\ members[r][u] \in {"white", "black"} => u = v
  /\ \A r \in Created : \E u \in Users : members[r][u] = "white"
=============================================================================
