----------------------------- MODULE Connections -----------------------------
(***************************************************************************)
(* Sockets, users and rooms: Server/transport/connection_registry.py, the  *)
(* life of a connection in websocket_server.py, the session messages of    *)
(* message_router.py and application/session_service.py.                   *)
(*                                                                         *)
(* A user may open a second socket while the first one is still open (a    *)
(* client that lost its network and reconnects); the server hears of the   *)
(* first one's end at any later time.  A client may also send auth on a    *)
(* socket that is logged in already, for the same user or for another;     *)
(* nothing refuses it, and the registry keeps the route of the user the    *)
(* socket spoke for.  Each handler changes its state before its first      *)
(* await, and so is one step.                                              *)
(***************************************************************************)
EXTENDS Rooms

CONSTANTS
  Sockets,       \* bound: connections at a time
  Nobody,        \* ctx.user_id of a socket nobody logged in on, or that was dropped
  NoSocket       \* _by_user.get of a user without a socket

ASSUME ConnectionsAssumption ==
  /\ Nobody \notin Users
  /\ NoSocket \notin Sockets

VARIABLES
  byWs,      \* the keys of _by_ws
  userOf,    \* ctx.user_id of a socket
  byUser,    \* _by_user
  strayed    \* history: users whose socket was taken, or logged out, for another
             \* user's login since their own

registryVars == <<byWs, userOf, byUser, strayed>>
vars == <<roomVars, registryVars>>

TypeOK ==
  /\ RoomsTypeOK
  /\ byWs \subseteq Sockets
  /\ userOf \in [Sockets -> Users \cup {Nobody}]
  /\ byUser \in [Users -> Sockets \cup {NoSocket}]
  /\ strayed \subseteq Users

Init ==
  /\ RoomsInit
  /\ byWs = {}
  /\ userOf = [s \in Sockets |-> Nobody]
  /\ byUser = [u \in Users |-> NoSocket]
  /\ strayed = {}

Authenticated(s) == s \in byWs /\ userOf[s] # Nobody

-----------------------------------------------------------------------------
\* ConnectionRegistry.add: a new context, that no route leads to.
Open(s) ==
  /\ s \notin byWs /\ \A u \in Users : byUser[u] # s
  /\ byWs' = byWs \cup {s}
  /\ userOf' = [userOf EXCEPT ![s] = Nobody]
  /\ UNCHANGED <<roomVars, byUser, strayed>>

\* Who was logged in on the user's new socket, or on the one his old route leads to
Displaced(s, u) == {userOf[t] : t \in byWs \cap {s, byUser[u]}} \ {u, Nobody}

\* Mutant: the previous socket stays logged in.
BindUserTwice(s, u) ==
  /\ userOf' = [userOf EXCEPT ![s] = u]
  /\ byUser' = [byUser EXCEPT ![u] = s]
  /\ strayed' = (strayed \ {u}) \cup Displaced(s, u)
  /\ UNCHANGED byWs

\* bind_user: the user's previous socket, if it is another one, is logged out, also
\* when another user is logged in there by now.
BindUser(s, u) ==
  /\ userOf' = [t \in Sockets |->
       IF t = s THEN u ELSE IF t = byUser[u] THEN Nobody ELSE userOf[t]]
  /\ byUser' = [byUser EXCEPT ![u] = s]
  /\ strayed' = (strayed \ {u}) \cup Displaced(s, u)
  /\ UNCHANGED byWs

\* _on_login, with the right password: SessionService brings the user back to
\* his room, then the socket is bound.
LogIn(s, u) ==
  /\ s \in byWs /\ ~ Authenticated(s)
  /\ Reconnect(u)
  /\ BindUser(s, u)

\* _on_auth, with a valid token, looks at no earlier login of the socket.
Authenticate(s, u) ==
  /\ s \in byWs
  /\ Reconnect(u)
  /\ BindUser(s, u)

\* The requests of a logged-in socket that touch the rooms (_dispatch refuses
\* them on any other).
EnterRoom(s) ==
  /\ Authenticated(s)
  /\ CreateRoom(userOf[s]) \/ \E r \in RoomIds : JoinRoom(r, userOf[s])
  /\ UNCHANGED registryVars

\* The end of handle_client: remove, and on_client_disconnected for the user the
\* socket still has.
Close(s) ==
  /\ s \in byWs
  /\ byWs' = byWs \ {s}
  /\ byUser' = IF Authenticated(s) /\ byUser[userOf[s]] = s
               THEN [byUser EXCEPT ![userOf[s]] = NoSocket]
               ELSE byUser
  /\ IF Authenticated(s) THEN MarkDisconnected(userOf[s]) ELSE UNCHANGED roomVars
  /\ UNCHANGED <<userOf, strayed>>

DeadlinePasses(r, u) ==
  /\ GraceRunsOut(r, u)
  /\ UNCHANGED registryVars

Next ==
  \/ \E s \in Sockets : Open(s) \/ EnterRoom(s) \/ Close(s)
  \/ \E s \in Sockets, u \in Users : LogIn(s, u) \/ Authenticate(s, u)
  \/ \E r \in RoomIds, u \in Users : DeadlinePasses(r, u)

Spec == Init /\ [][Next]_vars

-----------------------------------------------------------------------------
\* Whoever an open socket speaks for, what is sent to him goes there, and no other
\* open socket speaks for him, whatever logins, second sockets and late ends there
\* were; and the other way round, his route leads to an open socket that speaks for
\* him, unless another user's login has taken or logged out his socket since.
RoutesAgree ==
  \A s \in Sockets, u \in Users :
    /\ s \in byWs /\ userOf[s] = u => byUser[u] = s
    /\ byUser[u] = s /\ u \notin strayed => s \in byWs /\ userOf[s] = u

\* A member with a route is never in his grace, and one without is: the late end of a
\* socket he replaced takes nobody away from his game.
PresenceFollowsSockets ==
  \A r \in RoomIds : \A u \in Members(r) :
    presence[r][u] = "connected" <=> byUser[u] # NoSocket

\* With any number of sockets, shared or not, users come and go as the rooms are
\* promised; there is who has a route.
Promised == INSTANCE Presence WITH connected <- [u \in Users |-> byUser[u] # NoSocket]

ImplementsPresence == Promised!Spec
=============================================================================
