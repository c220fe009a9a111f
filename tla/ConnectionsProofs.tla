-------------------------- MODULE ConnectionsProofs --------------------------
(***************************************************************************)
(* Any number of users on any number of sockets: the registry's two        *)
(* dictionaries and the presence in the rooms agree, whatever logins there *)
(* are.  An open socket that speaks for a user is the one his route leads  *)
(* to, always; the converse fails for a user whose socket another one's    *)
(* login took (strayed), and for nobody else.                              *)
(***************************************************************************)
EXTENDS Connections, RoomsProofs

RegistryInv ==
  /\ byWs \subseteq Sockets
  /\ userOf \in [Sockets -> Users \cup {Nobody}]
  /\ byUser \in [Users -> Sockets \cup {NoSocket}]
  /\ RoutesAgree

IInv == RoomsInv /\ RegistryInv /\ PresenceFollowsSockets

-----------------------------------------------------------------------------
\* How bind_user changes the registry, whoever the socket spoke for.
LEMMA BindUserKeepsRoutes ==
  ASSUME RegistryInv, NEW s \in byWs, NEW u \in Users, BindUser(s, u)
  PROVE  /\ RegistryInv'
         /\ \A v \in Users : byUser'[v] = IF v = u THEN s ELSE byUser[v]
<1>1. s \in Sockets
  BY DEF RegistryInv
<1>2. /\ byWs' = byWs
      /\ \A t \in Sockets : userOf'[t] =
           IF t = s THEN u ELSE IF t = byUser[u] THEN Nobody ELSE userOf[t]
      /\ \A v \in Users : byUser'[v] = IF v = u THEN s ELSE byUser[v]
  BY DEF BindUser, RegistryInv
<1>3. /\ userOf' \in [Sockets -> Users \cup {Nobody}]
      /\ byUser' \in [Users -> Sockets \cup {NoSocket}]
  BY <1>1 DEF BindUser, RegistryInv
<1>4. RoutesAgree'
  <2> SUFFICES ASSUME NEW t \in Sockets, NEW v \in Users
               PROVE  /\ t \in byWs' /\ userOf'[t] = v => byUser'[v] = t
                      /\ byUser'[v] = t /\ v \notin strayed' => t \in byWs' /\ userOf'[t] = v
    BY DEF RoutesAgree
  <2>1. /\ t \in byWs /\ userOf[t] = v => byUser[v] = t
        /\ byUser[v] = t /\ v \notin strayed => t \in byWs /\ userOf[t] = v
    BY DEF RegistryInv, RoutesAgree
  <2>2. t \in byWs /\ userOf[t] = u => byUser[u] = t
    BY DEF RegistryInv, RoutesAgree
  <2>3. ASSUME v # u, v \notin strayed', t \in byWs, userOf[t] = v
        PROVE  v \notin strayed /\ t # s /\ t # byUser[u]
    BY <2>3, ConnectionsAssumption DEF BindUser, Displaced
  <2>4. CASE v = u
    BY <1>1, <1>2, <2>2, <2>4, ConnectionsAssumption
  <2>5. CASE v # u
    <3>1. v \notin strayed' => v \notin strayed
      BY <2>5 DEF BindUser
    <3> QED
      BY <1>1, <1>2, <2>1, <2>3, <2>5, <3>1, ConnectionsAssumption
  <2> QED
    BY <2>4, <2>5
<1> QED
  BY <1>2, <1>3, <1>4 DEF RegistryInv

\* reconnect brings the user's presence back, and nobody else's.
LEMMA ReconnectBringsBack ==
  ASSUME RoomsInv, NEW u \in Users, Reconnect(u)
  PROVE  /\ UNCHANGED members
         /\ \A r \in RoomIds : \A v \in Members(r) :
              presence'[r][v] = IF v = u THEN "connected" ELSE presence[r][v]
<1>1. RoomsTypeOK /\ MembershipAgrees
  BY DEF RoomsInv
<1>2. UNCHANGED members
  BY DEF Reconnect, roomVars
<1>3. CASE InRoom(u) /\ u \in Members(userRoom[u])
  <2>1. userRoom[u] \in RoomIds
    BY <1>1, <1>3 DEF RoomsTypeOK, InRoom
  <2>2. presence' = [presence EXCEPT ![userRoom[u]][u] = "connected"]
    BY <1>3 DEF Reconnect
  <2>3. \A r \in RoomIds : u \in Members(r) => r = userRoom[u]
    BY <1>1 DEF MembershipAgrees
  <2> QED
    BY <1>1, <1>2, <2>1, <2>2, <2>3 DEF RoomsTypeOK, Members
<1>4. CASE ~ (InRoom(u) /\ u \in Members(userRoom[u]))
  <2>1. UNCHANGED roomVars
    BY <1>4 DEF Reconnect
  <2>2. \A r \in RoomIds : u \notin Members(r)
    BY <1>1, <1>4, RoomsAssumption DEF MembershipAgrees, InRoom, RoomIds
  <2> QED
    BY <1>2, <2>1, <2>2 DEF roomVars
<1> QED
  BY <1>3, <1>4

\* mark_disconnected takes the user's presence away, and nobody else's.
LEMMA MarkTakesAway ==
  ASSUME RoomsInv, NEW u \in Users, MarkDisconnected(u)
  PROVE  \A r \in RoomIds : \A v \in Members(r)' :
           /\ v \in Members(r)
           /\ presence'[r][v] = IF v = u THEN "grace" ELSE presence[r][v]
<1>1. RoomsTypeOK /\ MembershipAgrees
  BY DEF RoomsInv
<1>2. \A r \in RoomIds : u \in Members(r) => r = userRoom[u] /\ InRoom(u)
  BY <1>1, RoomsAssumption DEF MembershipAgrees, InRoom, RoomIds
<1>3. CASE ~ InRoom(u) /\ UNCHANGED roomVars
  BY <1>2, <1>3 DEF roomVars, Members
<1>4. CASE /\ InRoom(u)
           /\ presence' = [presence EXCEPT ![userRoom[u]][u] = "grace"]
           /\ UNCHANGED <<members, userRoom>>
  <2>1. userRoom[u] \in RoomIds
    BY <1>1, <1>4 DEF RoomsTypeOK, InRoom
  <2> QED
    BY <1>1, <1>2, <1>4, <2>1 DEF RoomsTypeOK, Members
<1>5. CASE /\ InRoom(u)
           /\ members' = [members EXCEPT ![userRoom[u]][u] = "none"]
           /\ UNCHANGED presence
  <2>1. userRoom[u] \in RoomIds
    BY <1>1, <1>5 DEF RoomsTypeOK, InRoom
  <2>2. \A r \in RoomIds, v \in Users :
          members'[r][v] = IF r = userRoom[u] /\ v = u THEN "none" ELSE members[r][v]
    BY <1>1, <1>5, <2>1 DEF RoomsTypeOK
  <2> QED
    BY <1>2, <1>5, <2>2 DEF Members
<1> QED
  BY <1>3, <1>4, <1>5 DEF MarkDisconnected

\* A newcomer to a room is there, and the others' presence stays.
LEMMA EnterIsPresent ==
  ASSUME RoomsInv, NEW r \in RoomIds, NEW u \in Users,
         NEW role \in {"white", "black", "viewer"}, Enter(r, u, role)
  PROVE  \A q \in RoomIds : \A v \in Members(q)' :
           \/ q = r /\ v = u /\ presence'[q][v] = "connected"
           \/ v \in Members(q) /\ v # u /\ presence'[q][v] = presence[q][v]
           \/ v \in Members(q) /\ q # r /\ presence'[q][v] = presence[q][v]
<1>1. RoomsTypeOK
  BY DEF RoomsInv
<1>2. \A q \in RoomIds : Members(q)' = IF q = r THEN Members(q) \cup {u} ELSE Members(q)
  BY <1>1, EnterMembers
<1>3. \A q \in RoomIds, v \in Users :
        presence'[q][v] = IF q = r /\ v = u THEN "connected" ELSE presence[q][v]
  BY <1>1 DEF Enter, RoomsTypeOK
<1>4. \A q \in RoomIds : Members(q)' \subseteq Users
  BY DEF Members
<1> QED
  BY <1>2, <1>3, <1>4

-----------------------------------------------------------------------------
LEMMA InvInitially == Init => IInv
<1> SUFFICES ASSUME Init PROVE IInv
  OBVIOUS
<1>1. RoomsInv
  BY RoomsInitially DEF Init
<1>2. RegistryInv
  BY ConnectionsAssumption DEF Init, RegistryInv, RoutesAgree
<1>3. PresenceFollowsSockets
  BY DEF Init, RoomsInit, PresenceFollowsSockets, Members
<1> QED
  BY <1>1, <1>2, <1>3 DEF IInv

LEMMA InvPreserved ==
  ASSUME IInv, [Next]_vars
  PROVE  IInv'
<1>1. RoomsInv /\ RegistryInv /\ PresenceFollowsSockets
  BY DEF IInv
<1>2. ASSUME NEW s \in Sockets, Open(s) PROVE IInv'
  <2>1. RoomsInv'
    BY <1>1, <1>2, OtherStepsKeepBooks DEF Open, roomVars, RoomsInv, RoomsTypeOK
  <2>2. RegistryInv'
    BY <1>1, <1>2, ConnectionsAssumption DEF Open, RegistryInv, RoutesAgree
  <2>3. PresenceFollowsSockets'
    BY <1>1, <1>2 DEF Open, PresenceFollowsSockets, Members, roomVars
  <2> QED
    BY <2>1, <2>2, <2>3 DEF IInv
<1>3. ASSUME NEW s \in Sockets, NEW u \in Users, LogIn(s, u) \/ Authenticate(s, u) PROVE IInv'
  <2>1. s \in byWs /\ Reconnect(u) /\ BindUser(s, u)
    BY <1>3 DEF LogIn, Authenticate
  <2>2. RoomsInv'
    BY <1>1, <2>1, ReconnectKeepsBooks
  <2>3. /\ RegistryInv'
        /\ \A v \in Users : byUser'[v] = IF v = u THEN s ELSE byUser[v]
    BY <1>1, <2>1, BindUserKeepsRoutes
  <2>4. /\ UNCHANGED members
        /\ \A r \in RoomIds : \A v \in Members(r) :
             presence'[r][v] = IF v = u THEN "connected" ELSE presence[r][v]
    BY <1>1, <2>1, ReconnectBringsBack
  <2>5. PresenceFollowsSockets'
    BY <1>1, <2>3, <2>4, ConnectionsAssumption DEF PresenceFollowsSockets, Members
  <2> QED
    BY <2>2, <2>3, <2>5 DEF IInv
<1>4. ASSUME NEW s \in Sockets, EnterRoom(s) PROVE IInv'
  <2> DEFINE u == userOf[s]
  <2>1. s \in byWs /\ u \in Users /\ byUser[u] = s
    BY <1>1, <1>4 DEF EnterRoom, Authenticated, RegistryInv, RoutesAgree
  <2>2. \/ CreateRoom(u)
        \/ \E r \in RoomIds : JoinRoom(r, u)
    BY <1>4 DEF EnterRoom
  <2>3. UNCHANGED registryVars
    BY <1>4 DEF EnterRoom
  <2> HIDE DEF u
  <2>4. RoomsInv'
    BY <1>1, <2>1, <2>2, CreateRoomKeepsBooks, JoinRoomKeepsBooks
  <2>5. RegistryInv'
    BY <1>1, <2>3 DEF RegistryInv, RoutesAgree, registryVars
  <2>6. \E r \in RoomIds, role \in {"white", "black", "viewer"} : Enter(r, u, role)
    <3>1. ASSUME CreateRoom(u) PROVE \E r \in RoomIds : Enter(r, u, "white")
      BY <1>1, <3>1, FreshIsNew DEF CreateRoom
    <3>2. ASSUME NEW r \in RoomIds, JoinRoom(r, u)
          PROVE  Enter(r, u, JoinRole(r)) /\ JoinRole(r) \in {"black", "viewer"}
      BY <1>1, <3>2, JoinRoleIsFree DEF JoinRoom, CanJoin, RoomsInv
    <3> QED
      BY <2>2, <3>1, <3>2
  <2>7. PresenceFollowsSockets'
    BY <1>1, <2>1, <2>3, <2>6, EnterIsPresent, ConnectionsAssumption
       DEF PresenceFollowsSockets, registryVars, RegistryInv
  <2> QED
    BY <2>4, <2>5, <2>7 DEF IInv
<1>5. ASSUME NEW s \in Sockets, Close(s) PROVE IInv'
  <2>1. CASE Authenticated(s)
    <3> DEFINE u == userOf[s]
    <3>1. u \in Users /\ byUser[u] = s
      BY <1>1, <2>1 DEF Authenticated, RegistryInv, RoutesAgree
    <3>2. /\ byWs' = byWs \ {s}
          /\ byUser' = [byUser EXCEPT ![u] = NoSocket]
          /\ userOf' = userOf /\ strayed' = strayed
          /\ MarkDisconnected(u)
      BY <1>5, <2>1, <3>1 DEF Close
    <3> HIDE DEF u
    <3>3. RoomsInv'
      BY <1>1, <3>1, <3>2, MarkDisconnectedKeepsBooks
    <3>4. \A v \in Users : byUser'[v] = IF v = u THEN NoSocket ELSE byUser[v]
      BY <1>1, <3>2 DEF RegistryInv
    <3>5. RegistryInv'
      <4>1. /\ byWs' \subseteq Sockets
            /\ userOf' \in [Sockets -> Users \cup {Nobody}]
            /\ byUser' \in [Users -> Sockets \cup {NoSocket}]
        BY <1>1, <3>2 DEF RegistryInv
      <4>2. RoutesAgree'
        <5> SUFFICES ASSUME NEW t \in Sockets, NEW v \in Users
                     PROVE  /\ t \in byWs' /\ userOf'[t] = v => byUser'[v] = t
                            /\ byUser'[v] = t /\ v \notin strayed' => t \in byWs' /\ userOf'[t] = v
          BY DEF RoutesAgree
        <5>1. /\ t \in byWs /\ userOf[t] = v => byUser[v] = t
              /\ byUser[v] = t /\ v \notin strayed => t \in byWs /\ userOf[t] = v
          BY <1>1 DEF RegistryInv, RoutesAgree
        <5>2. t = s => userOf[t] = u
          BY DEF u
        <5> QED
          BY <3>1, <3>2, <3>4, <5>1, <5>2, ConnectionsAssumption
      <4> QED
        BY <4>1, <4>2 DEF RegistryInv
    <3>6. PresenceFollowsSockets'
      <4>1. \A r \in RoomIds : \A v \in Members(r)' :
              /\ v \in Members(r)
              /\ presence'[r][v] = IF v = u THEN "grace" ELSE presence[r][v]
        BY <1>1, <3>1, <3>2, MarkTakesAway
      <4>2. \A r \in RoomIds : Members(r)' \subseteq Users
        BY DEF Members
      <4> QED
        BY <1>1, <3>4, <4>1, <4>2 DEF PresenceFollowsSockets
    <3> QED
      BY <3>3, <3>5, <3>6 DEF IInv
  <2>2. CASE ~ Authenticated(s)
    <3>1. byWs' = byWs \ {s} /\ UNCHANGED <<byUser, userOf, strayed, members, presence, userRoom>>
      BY <1>5, <2>2 DEF Close, roomVars
    <3>2. RoomsInv' /\ PresenceFollowsSockets'
      BY <1>1, <3>1, OtherStepsKeepBooks DEF RoomsInv, RoomsTypeOK, Members, PresenceFollowsSockets
    <3>3. RegistryInv'
      BY <1>1, <2>2, <3>1, ConnectionsAssumption
         DEF RegistryInv, RoutesAgree, Authenticated
    <3> QED
      BY <3>2, <3>3 DEF IInv
  <2> QED
    BY <2>1, <2>2
<1>6. ASSUME NEW r \in RoomIds, NEW u \in Users, DeadlinePasses(r, u) PROVE IInv'
  <2>1. RoomsInv'
    BY <1>1, <1>6, DeadlinesKeepBooks DEF DeadlinePasses
  <2>2. RegistryInv'
    BY <1>1, <1>6 DEF DeadlinePasses, RegistryInv, RoutesAgree, registryVars
  <2>3. PresenceFollowsSockets'
    <3>1. /\ presence[r][u] = "grace" /\ UNCHANGED <<members, byUser>>
          /\ \A q \in RoomIds, v \in Users :
               presence'[q][v] = IF q = r /\ v = u THEN "expired" ELSE presence[q][v]
      BY <1>1, <1>6 DEF DeadlinePasses, GraceRunsOut, RoomsInv, RoomsTypeOK, registryVars
    <3> QED
      BY <1>1, <3>1 DEF PresenceFollowsSockets, Members
  <2> QED
    BY <2>1, <2>2, <2>3 DEF IInv
<1>7. CASE UNCHANGED vars
  <2>1. RoomsInv'
    BY <1>1, <1>7, OtherStepsKeepBooks DEF vars, roomVars, RoomsInv, RoomsTypeOK
  <2>2. RegistryInv' /\ PresenceFollowsSockets'
    BY <1>1, <1>7 DEF vars, roomVars, registryVars, RegistryInv, RoutesAgree,
       PresenceFollowsSockets, Members
  <2> QED
    BY <2>1, <2>2 DEF IInv
<1> QED
  BY <1>2, <1>3, <1>4, <1>5, <1>6, <1>7 DEF Next

\* Whatever the sockets do, messages for a user reach the socket that speaks for
\* him, a member is not in his grace exactly while he has a route, and the rooms'
\* books agree; and only another user's login on a socket parts a route from it.
THEOREM RoutesAndPresence ==
  Spec => [](RoutesAgree /\ PresenceFollowsSockets /\ MembershipAgrees)
<1>1. Init => IInv
  BY InvInitially
<1>2. IInv /\ [Next]_vars => IInv'
  BY InvPreserved
<1>3. IInv => RoutesAgree /\ PresenceFollowsSockets /\ MembershipAgrees
  BY DEF IInv, RegistryInv, RoomsInv
<1> QED
  BY <1>1, <1>2, <1>3, PTL DEF Spec

-----------------------------------------------------------------------------
\* The users' arrivals and departures, as Presence sees them.
Here == [u \in Users |-> byUser[u] # NoSocket]

\* Presence's copies of the operations on rooms are the rooms' own.
LEMMA SameOperations ==
  /\ Promised!RoomIds = RoomIds
  /\ Promised!roomVars = roomVars
  /\ Promised!RoomsInit <=> RoomsInit
  /\ \A u : Promised!Reconnect(u) <=> Reconnect(u)
  /\ \A u : Promised!MarkDisconnected(u) <=> MarkDisconnected(u)
  /\ \A u : Promised!CreateRoom(u) <=> CreateRoom(u)
  /\ \A r, u : Promised!JoinRoom(r, u) <=> JoinRoom(r, u)
  /\ \A r, u : Promised!GraceRunsOut(r, u) <=> GraceRunsOut(r, u)
<1>1. Promised!RoomIds = RoomIds /\ Promised!roomVars = roomVars
  BY DEF Promised!RoomIds, RoomIds, Promised!roomVars, roomVars
<1>2. Promised!RoomsInit <=> RoomsInit
  BY <1>1 DEF Promised!RoomsInit, RoomsInit
<1>3. /\ \A u : Promised!InRoom(u) <=> InRoom(u)
      /\ \A r : Promised!Members(r) = Members(r)
      /\ \A r : Promised!Players(r) = Players(r)
  BY DEF Promised!InRoom, InRoom, Promised!Members, Members, Promised!Players, Players
<1>4. Promised!Created = Created
  BY <1>1, <1>3 DEF Promised!Created, Created
<1>5. Promised!FreshRoom = FreshRoom /\ (Promised!RoomLeft <=> RoomLeft)
  <2>1. Promised!Cardinality(Promised!Created) = Cardinality(Created)
    BY <1>4 DEF Promised!Cardinality, Cardinality
  <2>2. Promised!FreshRoom = FreshRoom
    BY <2>1 DEF Promised!FreshRoom, FreshRoom
  <2> QED
    BY <1>1, <2>2 DEF Promised!RoomLeft, RoomLeft
<1>6. \A r, u, role : Promised!Enter(r, u, role) <=> Enter(r, u, role)
  BY DEF Promised!Enter, Enter
<1>7. \A u : Promised!Reconnect(u) <=> Reconnect(u)
  BY DEF Promised!Reconnect, Reconnect, Promised!InRoom, InRoom, Promised!Members, Members,
     Promised!roomVars, roomVars
<1>8. \A u : Promised!MarkDisconnected(u) <=> MarkDisconnected(u)
  BY DEF Promised!MarkDisconnected, MarkDisconnected, Promised!InRoom, InRoom,
     Promised!Players, Players, Promised!roomVars, roomVars
<1>9. \A u : Promised!CreateRoom(u) <=> CreateRoom(u)
  BY <1>3, <1>5, <1>6 DEF Promised!CreateRoom, CreateRoom
<1>10. \A r : Promised!JoinRole(r) = JoinRole(r)
  <2> TAKE r
  <2>1. Promised!Cardinality(Promised!Players(r)) = Cardinality(Players(r))
    BY <1>3 DEF Promised!Cardinality, Cardinality
  <2> QED
    BY <2>1 DEF Promised!JoinRole, JoinRole
<1>11. \A r, u : Promised!JoinRoom(r, u) <=> JoinRoom(r, u)
  BY <1>3, <1>4, <1>6, <1>10 DEF Promised!JoinRoom, JoinRoom, Promised!CanJoin, CanJoin
<1>12. \A r, u : Promised!GraceRunsOut(r, u) <=> GraceRunsOut(r, u)
  BY DEF Promised!GraceRunsOut, GraceRunsOut
<1> QED
  BY <1>1, <1>2, <1>7, <1>8, <1>9, <1>11, <1>12

\* A handler maps to one step of Presence or to none: a login of a user who has a
\* socket already, and the end of a socket that was replaced, are not seen.
LEMMA StepsMapToPresence ==
  ASSUME IInv, [Next]_vars
  PROVE  [Promised!Next]_(Promised!vars)
<1>1. RoomsInv /\ RegistryInv /\ PresenceFollowsSockets
  BY DEF IInv
<1>2. ASSUME NEW s \in Sockets, Open(s) PROVE UNCHANGED <<roomVars, Here>>
  BY <1>2 DEF Open, Here
<1>3. ASSUME NEW s \in Sockets, NEW u \in Users, LogIn(s, u) \/ Authenticate(s, u)
      PROVE  Promised!Arrive(u) \/ UNCHANGED <<roomVars, Here>>
  <2>1. s \in byWs /\ Reconnect(u) /\ BindUser(s, u)
    BY <1>3 DEF LogIn, Authenticate
  <2>2. \A v \in Users : byUser'[v] = IF v = u THEN s ELSE byUser[v]
    BY <1>1, <2>1, BindUserKeepsRoutes
  <2>3. s # NoSocket
    BY <1>1, <2>1, ConnectionsAssumption DEF RegistryInv
  <2>4. CASE byUser[u] = NoSocket
    <3>1. Here' = [Here EXCEPT ![u] = TRUE]
      BY <2>2, <2>3 DEF Here
    <3> QED
      BY <2>1, <2>4, <3>1, SameOperations DEF Here, Promised!Arrive
  <2>5. CASE byUser[u] # NoSocket
    <3>1. Here' = Here
      BY <2>2, <2>3, <2>5 DEF Here
    <3>2. UNCHANGED roomVars
      <4>1. CASE InRoom(u) /\ u \in Members(userRoom[u])
        <5>1. userRoom[u] \in RoomIds
          BY <1>1, <4>1 DEF RoomsInv, RoomsTypeOK, InRoom
        <5>2. presence[userRoom[u]][u] = "connected"
          BY <1>1, <2>5, <4>1, <5>1 DEF PresenceFollowsSockets
        <5>3. /\ presence' = [presence EXCEPT ![userRoom[u]][u] = "connected"]
              /\ UNCHANGED <<members, userRoom>>
          BY <2>1, <4>1 DEF Reconnect
        <5>4. presence' = presence
          BY <1>1, <5>1, <5>2, <5>3 DEF RoomsInv, RoomsTypeOK
        <5> QED
          BY <5>3, <5>4 DEF roomVars
      <4>2. CASE ~ (InRoom(u) /\ u \in Members(userRoom[u]))
        BY <2>1, <4>2 DEF Reconnect
      <4> QED
        BY <4>1, <4>2
    <3> QED
      BY <3>1, <3>2
  <2> QED
    BY <2>4, <2>5
<1>4. ASSUME NEW s \in Sockets, EnterRoom(s) PROVE \E u \in Users : Promised!Play(u)
  <2>1. userOf[s] \in Users /\ byUser[userOf[s]] = s /\ s # NoSocket
    BY <1>1, <1>4, ConnectionsAssumption DEF EnterRoom, Authenticated, RegistryInv, RoutesAgree
  <2>2. PICK u \in Users : u = userOf[s]
    BY <2>1
  <2>3. Here' = Here /\ Here[u]
    BY <1>4, <2>1, <2>2 DEF EnterRoom, registryVars, Here
  <2>4. CreateRoom(u) \/ \E r \in RoomIds : JoinRoom(r, u)
    BY <1>4, <2>2 DEF EnterRoom, CreateRoom, JoinRoom, Enter, CanJoin, InRoom
  <2>5. Promised!Play(u)
    BY <2>3, <2>4, SameOperations DEF Here, Promised!Play
  <2> QED
    BY <2>5
<1>5. ASSUME NEW s \in Sockets, Close(s)
      PROVE  \/ \E u \in Users : Promised!Leave(u)
             \/ UNCHANGED <<roomVars, Here>>
  <2>1. CASE Authenticated(s)
    <3>1. userOf[s] \in Users /\ byUser[userOf[s]] = s /\ s # NoSocket
      BY <1>1, <2>1, ConnectionsAssumption DEF Authenticated, RegistryInv, RoutesAgree
    <3>2. PICK u \in Users : u = userOf[s]
      BY <3>1
    <3>3. /\ byUser' = [byUser EXCEPT ![u] = NoSocket]
          /\ MarkDisconnected(u)
      BY <1>5, <2>1, <3>1, <3>2 DEF Close, MarkDisconnected, InRoom
    <3>4. Here[u] /\ Here' = [Here EXCEPT ![u] = FALSE]
      BY <1>1, <3>1, <3>2, <3>3 DEF Here, RegistryInv
    <3>5. Promised!Leave(u)
      BY <3>3, <3>4, SameOperations DEF Here, Promised!Leave
    <3> QED
      BY <3>5
  <2>2. CASE ~ Authenticated(s)
    BY <1>5, <2>2 DEF Close, Here
  <2> QED
    BY <2>1, <2>2
<1>6. ASSUME NEW r \in RoomIds, NEW u \in Users, DeadlinePasses(r, u) PROVE Promised!Wait(r, u)
  BY <1>6, SameOperations DEF DeadlinePasses, Promised!Wait, registryVars
<1>7. ASSUME UNCHANGED vars PROVE UNCHANGED <<roomVars, Here>>
  BY <1>7 DEF vars, registryVars, Here
<1>8. \/ \E u \in Users : \/ Promised!Arrive(u) \/ Promised!Leave(u) \/ Promised!Play(u)
                          \/ \E r \in RoomIds : Promised!Wait(r, u)
      \/ UNCHANGED <<roomVars, Here>>
  BY <1>2, <1>3, <1>4, <1>5, <1>6, <1>7 DEF Next, vars
<1>9. UNCHANGED <<roomVars, Here>> => UNCHANGED Promised!vars
  BY DEF Promised!vars, Promised!roomVars, roomVars, Here
<1> QED
  BY <1>8, <1>9, SameOperations DEF Promised!Next

\* With any number of sockets per user, and of users per socket, the rooms see users
\* come and go one at a time, as Presence promises them.
THEOREM SocketsImplementPresence == Spec => ImplementsPresence
<1>1. Init => IInv
  BY InvInitially
<1>2. IInv /\ [Next]_vars => IInv'
  BY InvPreserved
<1>3. Init => Promised!Init
  BY SameOperations DEF Init, Promised!Init
<1>4. IInv /\ [Next]_vars => [Promised!Next]_(Promised!vars)
  BY StepsMapToPresence
<1> QED
  BY <1>1, <1>2, <1>3, <1>4, PTL DEF Spec, ImplementsPresence, Promised!Spec
=============================================================================
