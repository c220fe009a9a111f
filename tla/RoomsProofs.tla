----------------------------- MODULE RoomsProofs -----------------------------
(***************************************************************************)
(* RoomService keeps its two dictionaries in agreement, whoever calls it:  *)
(* each of its operations preserves RoomsInv.                              *)
(***************************************************************************)
EXTENDS Rooms, FiniteSetTheorems, TLAPS

\* Rooms are used up in order, so FreshRoom is one that nobody is in.
RoomsInOrder == \E k \in 0 .. MaxRooms : Created = 1 .. k

RoomsInv == RoomsTypeOK /\ MembershipAgrees /\ RoomsInOrder

-----------------------------------------------------------------------------
\* A room's number is fresh: it is the one after those in use.
LEMMA FreshIsNew ==
  ASSUME RoomsInv, RoomLeft
  PROVE  /\ FreshRoom \in RoomIds
         /\ FreshRoom \notin Created
         /\ Created \cup {FreshRoom} = 1 .. FreshRoom
         /\ FreshRoom \in 0 .. MaxRooms
<1>1. PICK k \in 0 .. MaxRooms : Created = 1 .. k
  BY DEF RoomsInv, RoomsInOrder
<1>2. k \in Nat /\ MaxRooms \in Nat
  BY <1>1, RoomsAssumption
<1>3. Cardinality(1 .. k) = k
  BY <1>2, FS_Interval
<1>4. FreshRoom = k + 1
  BY <1>1, <1>3 DEF FreshRoom
<1>5. FreshRoom \in RoomIds
  BY DEF RoomLeft
<1> QED
  BY <1>1, <1>2, <1>4, <1>5 DEF RoomIds

\* The initial books agree.
LEMMA RoomsInitially == RoomsInit => RoomsInv
<1> SUFFICES ASSUME RoomsInit PROVE RoomsInv
  OBVIOUS
<1>1. RoomsTypeOK
  BY DEF RoomsInit, RoomsTypeOK, Roles, Presences
<1>2. \A r \in RoomIds : Members(r) = {}
  BY DEF RoomsInit, Members
<1>3. Created = {}
  BY <1>2 DEF Created
<1>4. MembershipAgrees
  BY <1>2, <1>3, RoomsAssumption DEF RoomsInit, MembershipAgrees, RoomIds
<1>5. RoomsInOrder
  <2>1. 0 \in 0 .. MaxRooms /\ 1 .. 0 = {}
    BY RoomsAssumption
  <2> QED
    BY <1>3, <2>1 DEF RoomsInOrder
<1> QED
  BY <1>1, <1>4, <1>5 DEF RoomsInv

-----------------------------------------------------------------------------
\* Where the users of a room are after one enters it.
LEMMA EnterMembers ==
  ASSUME RoomsTypeOK, NEW r \in RoomIds, NEW u \in Users,
         NEW role \in {"white", "black", "viewer"}, Enter(r, u, role)
  PROVE  /\ RoomsTypeOK'
         /\ \A q \in RoomIds, v \in Users :
              members'[q][v] = IF q = r /\ v = u THEN role ELSE members[q][v]
         /\ \A q \in RoomIds : Members(q)' = IF q = r THEN Members(q) \cup {u} ELSE Members(q)
         /\ Created' = Created \cup {r}
<1>1. RoomsTypeOK'
  BY DEF RoomsTypeOK, Enter, Roles, Presences
<1>2. \A q \in RoomIds, v \in Users :
        members'[q][v] = IF q = r /\ v = u THEN role ELSE members[q][v]
  BY DEF RoomsTypeOK, Enter
<1>3. \A q \in RoomIds : Members(q)' = IF q = r THEN Members(q) \cup {u} ELSE Members(q)
  BY <1>2 DEF Members
<1>4. Created' = Created \cup {r}
  BY <1>3 DEF Created
<1> QED
  BY <1>1, <1>2, <1>3, <1>4

\* A created room has a white player; he is the only player, or there is a black
\* one as well.
LEMMA JoinRoleIsFree ==
  ASSUME RoomsTypeOK, MembershipAgrees, NEW r \in Created
  PROVE  /\ JoinRole(r) \in {"black", "viewer"}
         /\ JoinRole(r) = "black" => \A v \in Users : members[r][v] # "black"
<1>1. r \in RoomIds
  BY DEF Created
<1>2. PICK w \in Users : members[r][w] = "white"
  BY DEF MembershipAgrees
<1>3. w \in Players(r)
  BY <1>2 DEF Players
<1>4. IsFiniteSet(Players(r))
  BY RoomsAssumption, FS_Subset DEF Players
<1>5. Cardinality(Players(r)) # 0
  BY <1>3, <1>4, FS_EmptySet
<1>6. JoinRole(r) \in {"black", "viewer"}
  BY <1>5 DEF JoinRole
<1>7. ASSUME Cardinality(Players(r)) = 1, NEW v \in Users, members[r][v] = "black" PROVE FALSE
  <2>1. v \in Players(r) /\ v # w
    BY <1>2, <1>7 DEF Players
  <2>2. PICK p : Players(r) = {p}
    BY <1>4, <1>7, FS_Singleton
  <2> QED
    BY <1>3, <2>1, <2>2
<1> QED
  BY <1>5, <1>6, <1>7 DEF JoinRole

\* create_room keeps the books in agreement.
LEMMA CreateRoomKeepsBooks ==
  ASSUME RoomsInv, NEW u \in Users, CreateRoom(u)
  PROVE  RoomsInv'
<1> DEFINE r == FreshRoom
<1>1. /\ ~ InRoom(u) /\ Enter(r, u, "white")
      /\ r \in RoomIds /\ r \notin Created /\ Created \cup {r} = 1 .. r /\ r \in 0 .. MaxRooms
  BY FreshIsNew DEF CreateRoom
<1> HIDE DEF r
<1>2. RoomsTypeOK /\ MembershipAgrees
  BY DEF RoomsInv
<1>3. /\ RoomsTypeOK'
      /\ \A q \in RoomIds, v \in Users :
           members'[q][v] = IF q = r /\ v = u THEN "white" ELSE members[q][v]
      /\ \A q \in RoomIds : Members(q)' = IF q = r THEN Members(q) \cup {u} ELSE Members(q)
      /\ Created' = Created \cup {r}
  BY <1>1, <1>2, EnterMembers
<1>4. \A v \in Users : userRoom'[v] = IF v = u THEN r ELSE userRoom[v]
  BY <1>1, <1>2 DEF Enter, RoomsTypeOK
<1>5. \A v \in Users : members[r][v] = "none"
  BY <1>1 DEF Created, Members
<1>6. MembershipAgrees'
  <2>1. \A q \in RoomIds, v \in Users : (v \in Members(q) <=> userRoom[v] = q)'
    BY <1>1, <1>2, <1>3, <1>4, RoomsAssumption DEF MembershipAgrees, InRoom, RoomIds
  <2>2. \A q \in RoomIds, v, w \in Users :
          members'[q][v] = members'[q][w] /\ members'[q][v] \in {"white", "black"} => v = w
    BY <1>2, <1>3, <1>5 DEF MembershipAgrees
  <2>3. \A q \in Created' : \E v \in Users : members'[q][v] = "white"
    BY <1>2, <1>3, <1>5 DEF MembershipAgrees, Created
  <2> QED
    BY <2>1, <2>2, <2>3 DEF MembershipAgrees
<1>7. RoomsInOrder'
  BY <1>1, <1>3 DEF RoomsInOrder
<1> QED
  BY <1>3, <1>6, <1>7 DEF RoomsInv

\* create_matched_room does too, for two different users.
LEMMA CreateMatchedRoomKeepsBooks ==
  ASSUME RoomsInv, NEW a \in Users, NEW b \in Users, a # b, CreateMatchedRoom(a, b)
  PROVE  RoomsInv'
<1> DEFINE r == FreshRoom
<1>1. /\ ~ InRoom(a) /\ ~ InRoom(b)
      /\ r \in RoomIds /\ r \notin Created /\ Created \cup {r} = 1 .. r /\ r \in 0 .. MaxRooms
  BY FreshIsNew DEF CreateMatchedRoom, CanMatch
<1>2. /\ members' = [members EXCEPT ![r] = [@ EXCEPT ![a] = "white", ![b] = "black"]]
      /\ presence' = [presence EXCEPT ![r] = [u \in Users |-> "connected"]]
      /\ userRoom' = [userRoom EXCEPT ![a] = r, ![b] = r]
  BY DEF CreateMatchedRoom
<1> HIDE DEF r
<1>3. RoomsTypeOK /\ MembershipAgrees
  BY DEF RoomsInv
<1>4. RoomsTypeOK'
  BY <1>1, <1>2, <1>3 DEF RoomsTypeOK, Roles, Presences
<1>5. \A v \in Users : members[r][v] = "none"
  BY <1>1 DEF Created, Members
<1>6. \A q \in RoomIds, v \in Users :
        members'[q][v] = IF q = r /\ v = a THEN "white"
                         ELSE IF q = r /\ v = b THEN "black" ELSE members[q][v]
  BY <1>1, <1>2, <1>3 DEF RoomsTypeOK
<1>7. \A v \in Users : userRoom'[v] = IF v \in {a, b} THEN r ELSE userRoom[v]
  BY <1>2, <1>3 DEF RoomsTypeOK
<1>8. \A q \in RoomIds : Members(q)' = IF q = r THEN {a, b} ELSE Members(q)
  BY <1>5, <1>6 DEF Members
<1>9. Created' = Created \cup {r}
  BY <1>1, <1>8 DEF Created
<1>10. MembershipAgrees'
  <2>1. \A q \in RoomIds, v \in Users : (v \in Members(q) <=> userRoom[v] = q)'
    <3>1. \A v \in Users : userRoom[v] # r
      BY <1>1, <1>3, <1>5 DEF MembershipAgrees, Members
    <3>2. \A q \in RoomIds : userRoom[a] # q /\ userRoom[b] # q
      BY <1>1, RoomsAssumption DEF InRoom, RoomIds
    <3> QED
      BY <1>3, <1>7, <1>8, <3>1, <3>2 DEF MembershipAgrees
  <2>2. \A q \in RoomIds, v, w \in Users :
          members'[q][v] = members'[q][w] /\ members'[q][v] \in {"white", "black"} => v = w
    BY <1>3, <1>5, <1>6 DEF MembershipAgrees
  <2>3. \A q \in Created' : \E v \in Users : members'[q][v] = "white"
    BY <1>1, <1>3, <1>6, <1>9 DEF MembershipAgrees, Created
  <2> QED
    BY <2>1, <2>2, <2>3 DEF MembershipAgrees
<1>11. RoomsInOrder'
  BY <1>1, <1>9 DEF RoomsInOrder
<1> QED
  BY <1>4, <1>10, <1>11 DEF RoomsInv

\* So does join_room, whatever role it finds for the newcomer.
LEMMA JoinRoomKeepsBooks ==
  ASSUME RoomsInv, NEW r \in RoomIds, NEW u \in Users, JoinRoom(r, u)
  PROVE  RoomsInv'
<1> DEFINE role == JoinRole(r)
<1>1. RoomsTypeOK /\ MembershipAgrees /\ RoomsInOrder
  BY DEF RoomsInv
<1>2. r \in Created /\ ~ InRoom(u) /\ Enter(r, u, role)
  BY DEF JoinRoom, CanJoin
<1>3. /\ role \in {"black", "viewer"}
      /\ role = "black" => \A v \in Users : members[r][v] # "black"
  BY <1>1, <1>2, JoinRoleIsFree
<1> HIDE DEF role
<1>4. /\ RoomsTypeOK'
      /\ \A q \in RoomIds, v \in Users :
           members'[q][v] = IF q = r /\ v = u THEN role ELSE members[q][v]
      /\ \A q \in RoomIds : Members(q)' = IF q = r THEN Members(q) \cup {u} ELSE Members(q)
      /\ Created' = Created \cup {r}
  BY <1>1, <1>2, <1>3, EnterMembers
<1>5. \A v \in Users : userRoom'[v] = IF v = u THEN r ELSE userRoom[v]
  BY <1>1, <1>2 DEF Enter, RoomsTypeOK
<1>6. members[r][u] = "none"
  BY <1>1, <1>2, RoomsAssumption DEF MembershipAgrees, InRoom, Members, RoomIds
<1>7. MembershipAgrees'
  <2>1. \A q \in RoomIds, v \in Users : (v \in Members(q) <=> userRoom[v] = q)'
    BY <1>1, <1>2, <1>4, <1>5, RoomsAssumption DEF MembershipAgrees, InRoom, RoomIds
  <2>2. \A q \in RoomIds, v, w \in Users :
          members'[q][v] = members'[q][w] /\ members'[q][v] \in {"white", "black"} => v = w
    BY <1>1, <1>3, <1>4 DEF MembershipAgrees
  <2>3. \A q \in Created' : \E v \in Users : members'[q][v] = "white"
    BY <1>1, <1>2, <1>4, <1>6 DEF MembershipAgrees, Created
  <2> QED
    BY <2>1, <2>2, <2>3 DEF MembershipAgrees
<1>8. RoomsInOrder'
  BY <1>1, <1>2, <1>4 DEF RoomsInOrder
<1> QED
  BY <1>4, <1>7, <1>8 DEF RoomsInv

\* mark_disconnected takes out viewers only.
LEMMA MarkDisconnectedKeepsBooks ==
  ASSUME RoomsInv, NEW u \in Users, MarkDisconnected(u)
  PROVE  RoomsInv'
<1>1. RoomsTypeOK /\ MembershipAgrees /\ RoomsInOrder
  BY DEF RoomsInv
<1>2. RoomsTypeOK'
  <2>1. CASE ~ InRoom(u) /\ UNCHANGED roomVars
    BY <1>1, <2>1 DEF RoomsTypeOK, roomVars
  <2>2. CASE /\ InRoom(u)
             /\ presence' = [presence EXCEPT ![userRoom[u]][u] = "grace"]
             /\ UNCHANGED <<members, userRoom>>
    BY <1>1, <2>2 DEF RoomsTypeOK, InRoom, Presences
  <2>3. CASE /\ InRoom(u)
             /\ members' = [members EXCEPT ![userRoom[u]][u] = "none"]
             /\ userRoom' = [userRoom EXCEPT ![u] = NoRoom]
             /\ UNCHANGED presence
    BY <1>1, <2>3 DEF RoomsTypeOK, InRoom, Roles
  <2> QED
    BY <2>1, <2>2, <2>3 DEF MarkDisconnected
<1>3. CASE UNCHANGED <<members, userRoom>>
  BY <1>1, <1>2, <1>3 DEF RoomsInv, MembershipAgrees, RoomsInOrder, Created, Members
<1>4. CASE InRoom(u) /\ u \notin Players(userRoom[u])
  <2> DEFINE r == userRoom[u]
  <2>1. r \in RoomIds
    BY <1>1, <1>4 DEF RoomsTypeOK, InRoom
  <2>2. /\ members' = [members EXCEPT ![r][u] = "none"]
        /\ userRoom' = [userRoom EXCEPT ![u] = NoRoom]
    BY <1>4 DEF MarkDisconnected
  <2>3. members[r][u] \notin {"white", "black"}
    BY <1>4 DEF Players
  <2> HIDE DEF r
  <2>4. \A q \in RoomIds, v \in Users :
          members'[q][v] = IF q = r /\ v = u THEN "none" ELSE members[q][v]
    BY <1>1, <2>1, <2>2 DEF RoomsTypeOK
  <2>5. \A v \in Users : userRoom'[v] = IF v = u THEN NoRoom ELSE userRoom[v]
    BY <1>1, <2>2 DEF RoomsTypeOK
  <2>6. r = userRoom[u]
    BY DEF r
  <2>7. Created' = Created
    <3>1. \A q \in RoomIds : \A v \in Users : members[q][v] = "white" => members'[q][v] = "white"
      BY <2>3, <2>4
    <3>2. Created \subseteq Created'
      BY <1>1, <3>1 DEF MembershipAgrees, Created, Members
    <3>3. Created' \subseteq Created
      BY <2>4 DEF Created, Members
    <3> QED
      BY <3>2, <3>3
  <2>8. \A q \in RoomIds, v \in Users : (v \in Members(q) <=> userRoom[v] = q)'
    BY <1>1, <2>4, <2>5, <2>6, RoomsAssumption DEF MembershipAgrees, Members, RoomIds
  <2>9. \A q \in RoomIds, v, w \in Users :
          members'[q][v] = members'[q][w] /\ members'[q][v] \in {"white", "black"} => v = w
    BY <1>1, <2>4 DEF MembershipAgrees
  <2>10. \A q \in Created' : \E v \in Users : members'[q][v] = "white"
    BY <1>1, <2>3, <2>4, <2>7 DEF MembershipAgrees, Created
  <2> QED
    BY <1>1, <1>2, <2>7, <2>8, <2>9, <2>10 DEF RoomsInv, MembershipAgrees, RoomsInOrder
<1> QED
  BY <1>3, <1>4 DEF MarkDisconnected, roomVars

\* What leaves members and _user_room alone keeps the books.
LEMMA OtherStepsKeepBooks ==
  ASSUME RoomsInv, UNCHANGED <<members, userRoom>>,
         presence' \in [RoomIds -> [Users -> Presences]]
  PROVE  RoomsInv'
<1>1. RoomsTypeOK'
  BY DEF RoomsInv, RoomsTypeOK
<1>2. MembershipAgrees' /\ RoomsInOrder'
  BY DEF RoomsInv, MembershipAgrees, RoomsInOrder, Created, Members
<1> QED
  BY <1>1, <1>2 DEF RoomsInv

\* reconnect
LEMMA ReconnectKeepsBooks ==
  ASSUME RoomsInv, NEW u \in Users, Reconnect(u)
  PROVE  RoomsInv'
<1>1. presence' \in [RoomIds -> [Users -> Presences]] /\ UNCHANGED <<members, userRoom>>
  <2>1. CASE InRoom(u) /\ u \in Members(userRoom[u])
    <3>1. /\ presence' = [presence EXCEPT ![userRoom[u]][u] = "connected"]
          /\ UNCHANGED <<members, userRoom>>
      BY <2>1 DEF Reconnect
    <3>2. userRoom[u] \in RoomIds /\ presence \in [RoomIds -> [Users -> Presences]]
      BY <2>1 DEF RoomsInv, RoomsTypeOK, InRoom
    <3> QED
      BY <3>1, <3>2 DEF Presences
  <2>2. CASE ~ (InRoom(u) /\ u \in Members(userRoom[u]))
    BY <2>2 DEF RoomsInv, RoomsTypeOK, Reconnect, roomVars
  <2> QED
    BY <2>1, <2>2
<1> QED
  BY <1>1, OtherStepsKeepBooks

\* clear_disconnect_deadline, and the passing of a deadline
LEMMA DeadlinesKeepBooks ==
  ASSUME RoomsInv, NEW r \in RoomIds, NEW u \in Users,
         ClearDisconnectDeadline(r, u) \/ GraceRunsOut(r, u)
  PROVE  RoomsInv'
<1>1. presence' \in [RoomIds -> [Users -> Presences]] /\ UNCHANGED <<members, userRoom>>
  BY DEF RoomsInv, RoomsTypeOK, ClearDisconnectDeadline, GraceRunsOut, Presences
<1> QED
  BY <1>1, OtherStepsKeepBooks
=============================================================================
