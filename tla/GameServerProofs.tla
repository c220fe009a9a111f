--------------------------- MODULE GameServerProofs ---------------------------
(***************************************************************************)
(* What the server's loop and its requests keep between them, for any      *)
(* numbers of users, rooms and failures of the user store, and whether     *)
(* sends suspend the loop or not.                                          *)
(*                                                                         *)
(* The loop goes on, after each await, with a list it read before it.      *)
(* That a deadline is cleared only when the game is over needs the link    *)
(* between the place of the loop and the first entry of that list          *)
(* (PunishedIsOver); that a forfeit hits nobody but those the list was     *)
(* right about needs every entry of it to be true still, or overtaken by a *)
(* login (DoomedAreAway).                                                  *)
(***************************************************************************)
EXTENDS GameServer, RoomsProofs

\* Where the loop is in its list of rooms.
LoopInRange == pc \in {"state_sent", "judge", "rating_sent"} => room \in RoomIds

NoneUntold == \A r \in RoomIds : stale[r] => flying[r]

\* Black is rated once, when the room is marked; white once more per failure.
RatingBooks ==
  \A r \in RoomIds :
    /\ applied[r]["black"] = IF rated[r] THEN 1 ELSE 0
    /\ applied[r]["white"] <= failures + (IF rated[r] THEN 1 ELSE 0)
    /\ rated[r] => applied[r]["white"] >= 1

\* The room whose forfeit is being rated and told is over.
PunishedIsOver ==
  pc \in {"punish", "forfeit_sent"} =>
    \A e \in doomed : (\A d \in doomed : e[1] <= d[1]) => over[e[1]]

\* Who is on the list is past his deadline, or came back while it is worked off.
DoomedAreAway ==
  \A r \in RoomIds, u \in Users :
    <<r, u>> \in doomed => u \in Players(r) /\ (presence[r][u] = "expired" \/ u \in returned)

\* A ghost has no socket.
GhostsAreAway == \A u \in ghosts : ~ connected[u]

ServerInv ==
  /\ RoomsInv /\ TypeOK
  /\ LoopInRange /\ NoneUntold /\ RatingBooks
  /\ PresenceIsTrue /\ ClearedMeansOver
  /\ PunishedIsOver /\ DoomedAreAway /\ GhostsAreAway

-----------------------------------------------------------------------------
\* Rooms.

\* Who enters a room has a socket, and is there.
LEMMA EntrantIsPresent ==
  ASSUME RoomsTypeOK, PresenceIsTrue, ClearedMeansOver, DoomedAreAway,
         NEW r \in RoomIds, NEW u \in Users, NEW role \in {"white", "black", "viewer"},
         members[r][u] = "none",
         Enter(r, u, role), connected[u], UNCHANGED <<userVars, doomed, returned, over>>
  PROVE  PresenceIsTrue' /\ ClearedMeansOver' /\ DoomedAreAway'
<1>1. \A q \in RoomIds, v \in Users :
        /\ members'[q][v] = IF q = r /\ v = u THEN role ELSE members[q][v]
        /\ presence'[q][v] = IF q = r /\ v = u THEN "connected" ELSE presence[q][v]
  BY DEF RoomsTypeOK, Enter
<1>2. PresenceIsTrue'
  BY <1>1 DEF PresenceIsTrue, Members, userVars
<1>3. ClearedMeansOver'
  BY <1>1 DEF ClearedMeansOver, Players
<1>4. DoomedAreAway'
  BY <1>1 DEF DoomedAreAway, Players
<1> QED
  BY <1>2, <1>3, <1>4

\* The two who are matched have sockets, or are ghosts.
LEMMA MatchedArePresent ==
  ASSUME RoomsInv, PresenceIsTrue, ClearedMeansOver, DoomedAreAway,
         NEW a \in Users, NEW b \in Users, a # b, CreateMatchedRoom(a, b),
         ghosts' = ghosts \cup {u \in {a, b} : ~ connected[u]},
         UNCHANGED <<connected, doomed, returned, over>>
  PROVE  PresenceIsTrue' /\ ClearedMeansOver' /\ DoomedAreAway'
<1> DEFINE r == FreshRoom
<1>1. r \in RoomIds /\ r \notin Created
  BY FreshIsNew DEF CreateMatchedRoom
<1>2. /\ members' = [members EXCEPT ![r] = [@ EXCEPT ![a] = "white", ![b] = "black"]]
      /\ presence' = [presence EXCEPT ![r] = [u \in Users |-> "connected"]]
  BY DEF CreateMatchedRoom
<1> HIDE DEF r
<1>3. \A v \in Users : members[r][v] = "none"
  BY <1>1 DEF Created, Members
<1>4. \A q \in RoomIds, v \in Users :
        /\ q # r => members'[q][v] = members[q][v] /\ presence'[q][v] = presence[q][v]
        /\ v \notin {a, b} => members'[r][v] = "none"
        /\ presence'[r][v] = "connected"
  BY <1>1, <1>2, <1>3 DEF RoomsInv, RoomsTypeOK
<1>5. PresenceIsTrue'
  <2>1. \A q \in RoomIds : members[q][a] = "none" /\ members[q][b] = "none"
    BY RoomsAssumption DEF CreateMatchedRoom, CanMatch, InRoom, RoomsInv, MembershipAgrees, Members, RoomIds
  <2>2. \A v \in Users : v \in ghosts' <=> v \in ghosts \/ (v \in {a, b} /\ ~ connected[v])
    OBVIOUS
  <2>3. \A v \in Users : members'[r][v] # "none" => connected[v] \/ v \in ghosts'
    <3> SUFFICES ASSUME NEW v \in Users, members'[r][v] # "none"
                 PROVE  connected[v] \/ v \in ghosts'
      OBVIOUS
    <3>1. v \in {a, b}
      BY <1>1, <1>4
    <3> QED
      BY <2>2, <3>1
  <2>4. \A q \in RoomIds, v \in Users :
          q # r /\ members'[q][v] # "none" => (v \in ghosts' <=> v \in ghosts)
    BY <1>4, <2>1, <2>2
  <2> QED
    BY <1>1, <1>4, <2>3, <2>4 DEF PresenceIsTrue, Members
<1>6. ClearedMeansOver'
  BY <1>4 DEF ClearedMeansOver, Players
<1>7. DoomedAreAway'
  BY <1>3, <1>4 DEF DoomedAreAway, Players
<1> QED
  BY <1>5, <1>6, <1>7

\* Who loses his socket is in his grace or out of the room.
LEMMA LeaverIsAbsent ==
  ASSUME RoomsInv, PresenceIsTrue, ClearedMeansOver, DoomedAreAway,
         NEW u \in Users, MarkDisconnected(u),
         connected \in [Users -> BOOLEAN], connected[u], u \notin ghosts,
         connected' = [connected EXCEPT ![u] = FALSE],
         UNCHANGED <<ghosts, doomed, returned, over>>
  PROVE  PresenceIsTrue' /\ ClearedMeansOver' /\ DoomedAreAway'
<1> USE DEF RoomsInv
<1>1. \A v \in Users : connected'[v] = IF v = u THEN FALSE ELSE connected[v]
  OBVIOUS
<1>2. \A q \in RoomIds : u \in Members(q) <=> userRoom[u] = q
  BY DEF MembershipAgrees
<1>3. CASE ~ InRoom(u) /\ UNCHANGED roomVars
  <2>1. \A q \in RoomIds : u \notin Members(q)
    BY <1>2, <1>3, RoomsAssumption DEF InRoom, RoomIds
  <2> QED
    BY <1>1, <1>3, <2>1 DEF roomVars, PresenceIsTrue, ClearedMeansOver, DoomedAreAway, Members, Players
<1>4. CASE /\ InRoom(u)
           /\ presence' = [presence EXCEPT ![userRoom[u]][u] = "grace"]
           /\ UNCHANGED <<members, userRoom>>
  <2>1. userRoom[u] \in RoomIds
    BY <1>4 DEF RoomsTypeOK, InRoom
  <2>2. \A q \in RoomIds, v \in Users :
          presence'[q][v] = IF q = userRoom[u] /\ v = u THEN "grace" ELSE presence[q][v]
    BY <1>4, <2>1 DEF RoomsTypeOK
  <2> QED
    BY <1>1, <1>2, <1>4, <2>2 DEF PresenceIsTrue, ClearedMeansOver, DoomedAreAway, Members, Players
<1>5. CASE /\ InRoom(u) /\ u \notin Players(userRoom[u])
           /\ members' = [members EXCEPT ![userRoom[u]][u] = "none"]
           /\ UNCHANGED presence
  <2>1. userRoom[u] \in RoomIds
    BY <1>5 DEF RoomsTypeOK, InRoom
  <2>2. \A q \in RoomIds, v \in Users :
          members'[q][v] = IF q = userRoom[u] /\ v = u THEN "none" ELSE members[q][v]
    BY <1>5, <2>1 DEF RoomsTypeOK
  <2> QED
    BY <1>1, <1>2, <1>5, <2>2 DEF PresenceIsTrue, ClearedMeansOver, DoomedAreAway, Members, Players
<1> QED
  BY <1>3, <1>4, <1>5 DEF MarkDisconnected

\* Who logs in is present in his room.
LEMMA ReturnerIsPresent ==
  ASSUME RoomsInv, PresenceIsTrue, ClearedMeansOver, DoomedAreAway,
         NEW u \in Users, Reconnect(u),
         connected \in [Users -> BOOLEAN],
         connected' = [connected EXCEPT ![u] = TRUE],
         ghosts' = ghosts \ {u}, returned \subseteq returned',
         \A r \in RoomIds : <<r, u>> \in doomed => u \in returned',
         UNCHANGED <<doomed, over>>
  PROVE  PresenceIsTrue' /\ ClearedMeansOver' /\ DoomedAreAway'
<1> USE DEF RoomsInv
<1>1. \A v \in Users : connected'[v] = IF v = u THEN TRUE ELSE connected[v]
  OBVIOUS
<1>2. \A q \in RoomIds : u \in Members(q) <=> userRoom[u] = q
  BY DEF MembershipAgrees
<1>3. CASE InRoom(u) /\ u \in Members(userRoom[u])
  <2>1. userRoom[u] \in RoomIds
    BY <1>3 DEF RoomsTypeOK, InRoom
  <2>2. /\ UNCHANGED <<members, userRoom>>
        /\ \A q \in RoomIds, v \in Users :
             presence'[q][v] = IF q = userRoom[u] /\ v = u THEN "connected" ELSE presence[q][v]
    BY <1>3, <2>1 DEF Reconnect, RoomsTypeOK
  <2> QED
    BY <1>1, <1>2, <2>2 DEF PresenceIsTrue, ClearedMeansOver, DoomedAreAway, Members, Players
<1>4. CASE ~ (InRoom(u) /\ u \in Members(userRoom[u]))
  <2>1. UNCHANGED roomVars
    BY <1>4 DEF Reconnect
  <2>2. \A q \in RoomIds : u \notin Members(q)
    BY <1>2, <1>4, RoomsAssumption DEF InRoom, RoomIds
  <2> QED
    BY <1>1, <2>1, <2>2 DEF roomVars, PresenceIsTrue, ClearedMeansOver, DoomedAreAway, Members, Players
<1> QED
  BY <1>3, <1>4

\* A deadline that passes, or is cleared once the game is over, belongs to
\* somebody absent.
LEMMA DeadlineOfAbsent ==
  ASSUME RoomsTypeOK, PresenceIsTrue, ClearedMeansOver, DoomedAreAway,
         NEW r \in RoomIds, NEW u \in Users,
         \/ GraceRunsOut(r, u) /\ doomed' = doomed
         \/ ClearDisconnectDeadline(r, u) /\ over[r] /\ doomed' = doomed \ {<<r, u>>},
         UNCHANGED <<userVars, returned, over>>
  PROVE  PresenceIsTrue' /\ ClearedMeansOver' /\ DoomedAreAway'
<1>1. /\ UNCHANGED members
      /\ \A q \in RoomIds, v \in Users :
           \/ presence'[q][v] = presence[q][v]
           \/ /\ q = r /\ v = u
              /\ presence[q][v] # "connected"
              /\ \/ presence'[q][v] = "expired"
                 \/ presence'[q][v] = "gone" /\ over[q] /\ <<q, v>> \notin doomed'
  BY DEF RoomsTypeOK, GraceRunsOut, ClearDisconnectDeadline
<1>2. PresenceIsTrue'
  <2>1. members' = members /\ connected' = connected /\ ghosts' = ghosts
    BY <1>1 DEF userVars
  <2>2. \A q \in RoomIds, v \in Users :
          presence'[q][v] = "connected" <=> presence[q][v] = "connected"
    BY <1>1
  <2> QED
    BY <2>1, <2>2 DEF PresenceIsTrue, Members
<1>3. ClearedMeansOver'
  <2>1. \A q \in RoomIds : Players(q)' = Players(q) /\ over'[q] = over[q]
    BY <1>1 DEF Players
  <2>2. \A q \in RoomIds, v \in Users :
          presence'[q][v] = "gone" => presence[q][v] = "gone" \/ over[q]
    BY <1>1
  <2> QED
    BY <2>1, <2>2 DEF ClearedMeansOver, Players
<1>4. DoomedAreAway'
  BY <1>1 DEF DoomedAreAway, Players
<1> QED
  BY <1>2, <1>3, <1>4

-----------------------------------------------------------------------------
\* The loop's parts of the invariant outlive a request: it leaves the results, the
\* loop and the ratings alone.
LEMMA LoopIsUndisturbed ==
  ASSUME ServerInv, RoomsTypeOK', connected' \in [Users -> BOOLEAN],
         returned' \subseteq Users, ghosts' \subseteq Users,
         UNCHANGED <<over, winner, ratingVars, loopVars>>,
         \/ UNCHANGED <<flying, stale>>
         \/ \E r \in RoomIds : /\ flying' = [flying EXCEPT ![r] = TRUE]
                               /\ stale' = [stale EXCEPT ![r] = TRUE]
  PROVE  TypeOK' /\ LoopInRange' /\ NoneUntold' /\ RatingBooks' /\ PunishedIsOver'
<1> USE DEF ServerInv, ratingVars, loopVars
<1>1. TypeOK'
  BY DEF TypeOK
<1>2. LoopInRange' /\ RatingBooks' /\ PunishedIsOver'
  BY DEF LoopInRange, RatingBooks, PunishedIsOver
<1>3. NoneUntold'
  BY DEF NoneUntold, TypeOK
<1> QED
  BY <1>1, <1>2, <1>3

\* create_room and join_room
LEMMA EnterRoomInv ==
  ASSUME ServerInv, NEW u \in Users, EnterRoom(u)
  PROVE  ServerInv'
<1>1. /\ connected[u]
      /\ UNCHANGED <<gameVars, ratingVars, loopVars, returned, userVars, doomed, over>>
  BY DEF EnterRoom, gameVars, loopVars
<1>2. RoomsInv' /\ PresenceIsTrue' /\ ClearedMeansOver' /\ DoomedAreAway'
  <2>0. ~ InRoom(u) => \A r \in RoomIds : members[r][u] = "none"
    BY RoomsAssumption DEF InRoom, ServerInv, RoomsInv, MembershipAgrees, Members, RoomIds
  <2>1. CASE CreateRoom(u)
    <3>1. RoomsInv'
      BY <2>1, CreateRoomKeepsBooks DEF ServerInv
    <3>2. FreshRoom \in RoomIds /\ Enter(FreshRoom, u, "white") /\ ~ InRoom(u)
      BY <2>1 DEF CreateRoom, RoomLeft
    <3> QED
      BY <1>1, <2>0, <3>1, <3>2, EntrantIsPresent DEF ServerInv, RoomsInv
  <2>2. ASSUME NEW r \in RoomIds, JoinRoom(r, u)
        PROVE  RoomsInv' /\ PresenceIsTrue' /\ ClearedMeansOver' /\ DoomedAreAway'
    <3>1. RoomsInv'
      BY <2>2, JoinRoomKeepsBooks DEF ServerInv
    <3>2. Enter(r, u, JoinRole(r)) /\ JoinRole(r) \in {"black", "viewer"} /\ ~ InRoom(u)
      BY <2>2, JoinRoleIsFree DEF JoinRoom, CanJoin, ServerInv, RoomsInv
    <3> QED
      BY <1>1, <2>0, <3>1, <3>2, EntrantIsPresent DEF ServerInv, RoomsInv
  <2> QED
    BY <2>1, <2>2 DEF EnterRoom
<1>3. /\ RoomsTypeOK' /\ connected' \in [Users -> BOOLEAN]
      /\ returned' \subseteq Users /\ ghosts' \subseteq Users
  BY <1>1, <1>2 DEF RoomsInv, ServerInv, TypeOK, userVars
<1>4. GhostsAreAway'
  BY <1>1 DEF ServerInv, GhostsAreAway, userVars
<1> QED
  BY <1>1, <1>2, <1>3, <1>4, LoopIsUndisturbed DEF ServerInv, gameVars

\* The match pass makes a room.
LEMMA MatchPairInv ==
  ASSUME ServerInv, NEW a \in Users, NEW b \in Users, MatchPair(a, b)
  PROVE  ServerInv'
<1>1. /\ a # b /\ CreateMatchedRoom(a, b)
      /\ ghosts' = ghosts \cup {u \in {a, b} : ~ connected[u]}
      /\ UNCHANGED <<connected, doomed, returned, over>>
      /\ UNCHANGED <<gameVars, ratingVars, loopVars>>
  BY DEF MatchPair, gameVars, loopVars
<1>2. RoomsInv'
  BY <1>1, CreateMatchedRoomKeepsBooks DEF ServerInv
<1>3. PresenceIsTrue' /\ ClearedMeansOver' /\ DoomedAreAway'
  BY <1>1, MatchedArePresent DEF ServerInv
<1>4. /\ RoomsTypeOK' /\ connected' \in [Users -> BOOLEAN]
      /\ returned' \subseteq Users /\ ghosts' \subseteq Users
  BY <1>1, <1>2 DEF RoomsInv, ServerInv, TypeOK
<1>5. GhostsAreAway'
  BY <1>1 DEF ServerInv, GhostsAreAway
<1> QED
  BY <1>1, <1>2, <1>3, <1>4, <1>5, LoopIsUndisturbed DEF ServerInv, gameVars

\* A move
LEMMA SubmitMoveInv ==
  ASSUME ServerInv, NEW u \in Users, SubmitMove(u)
  PROVE  ServerInv'
<1>1. /\ UNCHANGED <<winner, ratingVars, loopVars, returned, userVars, doomed, over>>
      /\ members' = members /\ presence' = presence /\ userRoom' = userRoom
  BY DEF SubmitMove, roomVars, loopVars
<1>2. RoomsInv'
  BY <1>1, OtherStepsKeepBooks DEF ServerInv, RoomsInv, RoomsTypeOK
<1>3. PresenceIsTrue' /\ ClearedMeansOver' /\ DoomedAreAway'
  BY <1>1 DEF ServerInv, PresenceIsTrue, ClearedMeansOver, DoomedAreAway, Members, Players, userVars
<1>4. /\ RoomsTypeOK' /\ connected' \in [Users -> BOOLEAN]
      /\ returned' \subseteq Users /\ ghosts' \subseteq Users
  BY <1>1, <1>2 DEF RoomsInv, ServerInv, TypeOK, userVars
<1>5. \E r \in RoomIds : /\ flying' = [flying EXCEPT ![r] = TRUE]
                         /\ stale' = [stale EXCEPT ![r] = TRUE]
  BY DEF SubmitMove, InRoom, ServerInv, RoomsInv, RoomsTypeOK
<1>6. GhostsAreAway'
  BY <1>1 DEF ServerInv, GhostsAreAway, userVars
<1> QED
  BY <1>1, <1>2, <1>3, <1>4, <1>5, <1>6, LoopIsUndisturbed DEF ServerInv

\* The end of a socket, and a login
LEMMA SocketInv ==
  ASSUME ServerInv, NEW u \in Users, ClientDisconnected(u) \/ LogIn(u)
  PROVE  ServerInv'
<1>1. UNCHANGED <<gameVars, ratingVars, loopVars, doomed, over>>
  BY DEF ClientDisconnected, LogIn, gameVars, loopVars
<1>2. connected \in [Users -> BOOLEAN] /\ returned \subseteq Users /\ ghosts \subseteq Users
  BY DEF ServerInv, TypeOK
<1>3. /\ connected' \in [Users -> BOOLEAN] /\ returned' \subseteq Users /\ ghosts' \subseteq Users
      /\ RoomsInv' /\ PresenceIsTrue' /\ ClearedMeansOver' /\ DoomedAreAway' /\ GhostsAreAway'
  <2>1. CASE ClientDisconnected(u)
    <3>1. /\ MarkDisconnected(u) /\ connected' = [connected EXCEPT ![u] = FALSE]
          /\ connected[u] /\ u \notin ghosts /\ UNCHANGED <<ghosts, doomed, returned, over>>
      BY <1>1, <2>1 DEF ClientDisconnected, ServerInv, GhostsAreAway
    <3>2. RoomsInv' /\ PresenceIsTrue' /\ ClearedMeansOver' /\ DoomedAreAway'
      BY <1>2, <3>1, MarkDisconnectedKeepsBooks, LeaverIsAbsent DEF ServerInv
    <3> QED
      BY <1>2, <3>1, <3>2 DEF ServerInv, GhostsAreAway
  <2>2. CASE LogIn(u)
    <3>1. /\ Reconnect(u) /\ connected' = [connected EXCEPT ![u] = TRUE]
          /\ ghosts' = ghosts \ {u} /\ UNCHANGED <<doomed, over>>
          /\ returned' = returned \cup {e[2] : e \in {d \in doomed : d[2] = u}}
      BY <1>1, <2>2 DEF LogIn
    <3>2. /\ returned \subseteq returned' /\ returned' \subseteq Users
          /\ \A r \in RoomIds : <<r, u>> \in doomed => u \in returned'
      <4>1. \A r \in RoomIds : <<r, u>> \in doomed => <<r, u>> \in {d \in doomed : d[2] = u}
        OBVIOUS
      <4> QED
        BY <1>2, <3>1, <4>1
    <3>3. RoomsInv' /\ PresenceIsTrue' /\ ClearedMeansOver' /\ DoomedAreAway'
      BY <1>2, <3>1, <3>2, ReconnectKeepsBooks, ReturnerIsPresent DEF ServerInv
    <3> QED
      BY <1>2, <3>1, <3>2, <3>3 DEF ServerInv, GhostsAreAway
  <2> QED
    BY <2>1, <2>2
<1> QED
  BY <1>1, <1>3, LoopIsUndisturbed DEF ServerInv, RoomsInv, gameVars

\* A deadline
LEMMA DeadlinePassesInv ==
  ASSUME ServerInv, NEW r \in RoomIds, NEW u \in Users, DeadlinePasses(r, u)
  PROVE  ServerInv'
<1>1. /\ GraceRunsOut(r, u) /\ doomed' = doomed
      /\ UNCHANGED <<gameVars, ratingVars, loopVars, returned, userVars, over>>
  BY DEF DeadlinePasses, gameVars, loopVars
<1>2. RoomsInv'
  BY <1>1, DeadlinesKeepBooks DEF ServerInv
<1>3. PresenceIsTrue' /\ ClearedMeansOver' /\ DoomedAreAway'
  BY <1>1, DeadlineOfAbsent DEF ServerInv, TypeOK
<1>4. /\ RoomsTypeOK' /\ connected' \in [Users -> BOOLEAN]
      /\ returned' \subseteq Users /\ ghosts' \subseteq Users
  BY <1>1, <1>2 DEF RoomsInv, ServerInv, TypeOK, userVars
<1>5. GhostsAreAway'
  BY <1>1 DEF ServerInv, GhostsAreAway, userVars
<1> QED
  BY <1>1, <1>2, <1>3, <1>4, <1>5, LoopIsUndisturbed DEF ServerInv, gameVars

-----------------------------------------------------------------------------
\* Ratings.

\* A rating that comes to its end, or breaks off, keeps the books of ratings.
LEMMA RatingKeepsBooks ==
  ASSUME TypeOK, RatingBooks, NEW r \in RoomIds, NEW next,
         (CanRate(r) /\ RateAndTell(r, next)) \/ RatingRaises(r)
  PROVE  /\ rated' \in [RoomIds -> BOOLEAN]
         /\ applied' \in [RoomIds -> [Sides -> Nat]]
         /\ failures' \in 0 .. DbFailures
         /\ RatingBooks'
<1> USE GameServerAssumption
<1>1. ~ rated[r] /\ applied[r]["black"] = 0 /\ failures \in Nat
  BY DEF CanRate, ReadsPlayers, RatingRaises, RatingBooks, TypeOK
<1>2. CASE RateAndTell(r, next)
  <2>1. /\ failures' = failures /\ rated' = [rated EXCEPT ![r] = TRUE]
        /\ applied' = [applied EXCEPT ![r] = [s \in Sides |-> applied[r][s] + 1]]
    BY <1>2 DEF RateAndTell
  <2>2. applied' \in [RoomIds -> [Sides -> Nat]]
    BY <2>1 DEF TypeOK
  <2>3. \A q \in RoomIds :
          q # r => applied'[q] = applied[q] /\ rated'[q] = rated[q]
    BY <2>1 DEF TypeOK
  <2>4. /\ applied[r]["white"] \in Nat
        /\ applied'[r]["black"] = applied[r]["black"] + 1
        /\ applied'[r]["white"] = applied[r]["white"] + 1
    BY <2>1 DEF TypeOK, Sides
  <2>5. applied[r]["white"] <= failures
    BY <1>1 DEF RatingBooks
  <2>6. RatingBooks'
    <3>1. ASSUME NEW q \in RoomIds, q # r
          PROVE  applied'[q] = applied[q] /\ rated'[q] = rated[q] /\ failures' = failures
      BY <2>1, <2>3, <3>1
    <3>2. rated'[r]
      BY <2>1 DEF TypeOK
    <3>3. applied'[r]["black"] = 1
      BY <1>1, <2>4
    <3>4. applied'[r]["white"] <= failures' + 1 /\ applied'[r]["white"] >= 1
      BY <1>1, <2>1, <2>4, <2>5
    <3> QED
      BY <3>1, <3>2, <3>3, <3>4 DEF RatingBooks
  <2> QED
    BY <2>1, <2>2, <2>6 DEF TypeOK
<1>3. CASE RatingRaises(r)
  <2>1. /\ failures < DbFailures /\ failures' = failures + 1 /\ rated' = rated
        /\ \/ applied' = applied
           \/ applied' = [applied EXCEPT ![r]["white"] = applied[r]["white"] + 1]
    BY <1>3 DEF RatingRaises, StoreRaises
  <2>2. applied' \in [RoomIds -> [Sides -> Nat]]
    BY <2>1 DEF TypeOK, Sides
  <2>3. \A q \in RoomIds :
          /\ applied'[q]["black"] = applied[q]["black"]
          /\ \/ applied'[q]["white"] = applied[q]["white"]
             \/ q = r /\ applied'[q]["white"] = applied[q]["white"] + 1
    BY <2>1 DEF TypeOK, Sides
  <2>4. \A q \in RoomIds : applied[q]["white"] \in Nat
    BY DEF TypeOK, Sides
  <2>5. RatingBooks'
    <3>1. ASSUME NEW q \in RoomIds, q # r
          PROVE  applied'[q]["white"] = applied[q]["white"] /\ applied'[q]["black"] = applied[q]["black"]
      BY <2>3, <3>1
    <3>2. ASSUME NEW q \in RoomIds, NEW n \in {0, 1}, applied[q]["white"] <= failures + n
          PROVE  applied[q]["white"] <= failures' + n
      BY <1>1, <2>1, <2>4, <3>2
    <3>3. applied'[r]["white"] <= failures' /\ applied'[r]["black"] = 0 /\ ~ rated'[r]
      BY <1>1, <2>1, <2>3, <2>4 DEF RatingBooks
    <3>4. ASSUME NEW q \in RoomIds, q # r
          PROVE  applied'[q]["white"] <= failures' + (IF rated'[q] THEN 1 ELSE 0)
      BY <2>1, <3>1, <3>2, <3>4 DEF RatingBooks
    <3>5. failures' \in Nat
      BY <1>1, <2>1
    <3> QED
      BY <2>1, <3>1, <3>3, <3>4, <3>5 DEF RatingBooks
  <2> QED
    BY <1>1, <2>1, <2>2, <2>5 DEF TypeOK
<1> QED
  BY <1>2, <1>3

-----------------------------------------------------------------------------
\* The loop.

\* Steps of the loop that leave rooms and users alone, and end games at most.
LEMMA RoomsUntouched ==
  ASSUME ServerInv, UNCHANGED <<roomVars, userVars>>,
         \A r \in RoomIds : over[r] => over'[r],
         UNCHANGED listVars \/ doomed' = {} \/ doomed' = ExpiredDisconnects
  PROVE  /\ RoomsInv' /\ PresenceIsTrue' /\ ClearedMeansOver'
         /\ DoomedAreAway' /\ GhostsAreAway'
<1>1. /\ members' = members /\ presence' = presence /\ userRoom' = userRoom
      /\ connected' = connected /\ ghosts' = ghosts
  BY DEF roomVars, userVars
<1>2. RoomsInv'
  BY <1>1, OtherStepsKeepBooks DEF ServerInv, RoomsInv, RoomsTypeOK
<1>3. PresenceIsTrue' /\ ClearedMeansOver' /\ GhostsAreAway'
  BY <1>1 DEF ServerInv, PresenceIsTrue, ClearedMeansOver, GhostsAreAway, Members, Players
<1>4. DoomedAreAway'
  BY <1>1 DEF ServerInv, DoomedAreAway, Players, ExpiredDisconnects, listVars
<1> QED
  BY <1>2, <1>3, <1>4

\* A game that ends gets a winner.
LEMMA GameEndsTypes ==
  ASSUME TypeOK, NEW r \in RoomIds,
         UNCHANGED <<over, winner>> \/ \E side \in Sides : GameEnds(r, side)
  PROVE  /\ over' \in [RoomIds -> BOOLEAN] /\ winner' \in [RoomIds -> Sides \cup {"none"}]
         /\ \A q \in RoomIds : over[q] => over'[q]
BY DEF TypeOK, GameEnds

\* There are at most MaxRooms rooms.
LEMMA CreatedIsBounded == ASSUME RoomsInv PROVE Cardinality(Created) \in 0 .. MaxRooms
<1>1. PICK k \in 0 .. MaxRooms : Created = 1 .. k
  BY DEF RoomsInv, RoomsInOrder
<1>2. Cardinality(1 .. k) = k
  BY <1>1, FS_Interval, RoomsAssumption
<1> QED
  BY <1>1, <1>2

\* tick_all, but for the ratings
LEMMA TickInv ==
  ASSUME ServerInv,
         \/ StartTick \/ QuietTick \/ FlightTick \/ LandingTick \/ StateSent \/ NextRoom \/ GamesTicked
  PROVE  ServerInv'
<1> USE RoomsAssumption DEF RoomIds
<1>1. /\ UNCHANGED <<roomVars, userVars, ratingVars, listVars>>
      /\ pc' \in {"games", "judge", "state_sent", "grace"}
  BY DEF StartTick, QuietTick, FlightTick, LandingTick, StateSent, NextRoom, GamesTicked
<1>2. TypeOK /\ RoomsInv /\ LoopInRange /\ NoneUntold /\ RatingBooks
  BY DEF ServerInv
<1>3. /\ over' \in [RoomIds -> BOOLEAN] /\ winner' \in [RoomIds -> Sides \cup {"none"}]
      /\ \A q \in RoomIds : over[q] => over'[q]
  <2>1. CASE UNCHANGED gameVars
    BY <1>2, <2>1 DEF gameVars, TypeOK
  <2>2. CASE FlightTick \/ LandingTick
    <3>1. room \in RoomIds
      BY <1>2, <2>2 DEF FlightTick, LandingTick, TypeOK
    <3> QED
      BY <1>2, <2>2, <3>1, GameEndsTypes DEF FlightTick, LandingTick
  <2> QED
    BY <2>1, <2>2 DEF StartTick, QuietTick, StateSent, NextRoom, GamesTicked
<1>4. /\ flying' \in [RoomIds -> BOOLEAN] /\ stale' \in [RoomIds -> BOOLEAN] /\ NoneUntold'
  <2>1. CASE UNCHANGED <<flying, stale>>
    BY <1>2, <2>1 DEF TypeOK, NoneUntold
  <2>2. CASE LandingTick
    BY <1>2, <2>2 DEF LandingTick, LastLanding, TypeOK, NoneUntold
  <2> QED
    BY <2>1, <2>2 DEF StartTick, QuietTick, FlightTick, StateSent, NextRoom, GamesTicked, gameVars
<1>5. room' \in 1 .. MaxRooms + 1 /\ limit' \in 0 .. MaxRooms /\ LoopInRange'
  <2>1. CASE StartTick
    BY <1>2, <2>1, CreatedIsBounded DEF StartTick, LoopInRange
  <2>2. CASE QuietTick \/ FlightTick \/ LandingTick
    BY <1>2, <2>2 DEF QuietTick, FlightTick, LandingTick, LoopInRange, TypeOK
  <2>3. CASE StateSent
    BY <1>2, <2>3 DEF StateSent, LoopInRange, TypeOK
  <2>4. CASE NextRoom
    BY <1>2, <2>4 DEF NextRoom, LoopInRange, TypeOK
  <2>5. CASE GamesTicked
    BY <1>2, <2>5 DEF GamesTicked, LoopInRange, TypeOK
  <2> QED
    BY <2>1, <2>2, <2>3, <2>4, <2>5
<1>6. /\ RoomsInv' /\ PresenceIsTrue' /\ ClearedMeansOver'
      /\ DoomedAreAway' /\ GhostsAreAway'
  BY <1>1, <1>3, RoomsUntouched
<1>7. TypeOK'
  BY <1>1, <1>2, <1>3, <1>4, <1>5, <1>6 DEF TypeOK, RoomsInv, ratingVars, userVars, listVars
<1>8. RatingBooks'
  BY <1>1, <1>2 DEF RatingBooks, ratingVars
<1>9. PunishedIsOver'
  BY <1>1 DEF PunishedIsOver
<1> QED
  BY <1>4, <1>5, <1>6, <1>7, <1>8, <1>9 DEF ServerInv

\* Countdowns and the list of those whose deadline has passed; the tick's end
LEMMA GraceInv ==
  ASSUME ServerInv, SendCountdown \/ ReadExpired \/ TickDone
  PROVE  ServerInv'
<1>1. /\ UNCHANGED <<roomVars, userVars, ratingVars, gameVars, room, limit>>
      /\ pc' \in {"countdown_sent", "forfeit", "sleep"}
      /\ UNCHANGED listVars \/ doomed' = {} \/ doomed' = ExpiredDisconnects
      /\ returned' = returned \/ returned' = {}
  BY DEF SendCountdown, ReadExpired, TickDone, listVars
<1>2. /\ RoomsInv' /\ PresenceIsTrue' /\ ClearedMeansOver'
      /\ DoomedAreAway' /\ GhostsAreAway'
  BY <1>1, RoomsUntouched DEF gameVars
<1>3. doomed' \subseteq RoomIds \X Users /\ returned' \subseteq Users
  BY <1>1 DEF ServerInv, TypeOK, ExpiredDisconnects, listVars
<1>4. TypeOK'
  BY <1>1, <1>2, <1>3 DEF ServerInv, TypeOK, RoomsInv, ratingVars, gameVars, userVars
<1>5. LoopInRange' /\ NoneUntold' /\ RatingBooks' /\ PunishedIsOver'
  BY <1>1 DEF ServerInv, LoopInRange, NoneUntold, RatingBooks, PunishedIsOver, ratingVars, gameVars
<1> QED
  BY <1>2, <1>4, <1>5 DEF ServerInv

\* _apply_elo, in the tick of a room and after a forfeit
LEMMA RateInv ==
  ASSUME ServerInv, RateRoom \/ \E e \in doomed : RateForfeit(e)
  PROVE  ServerInv'
<1>1. PICK r \in RoomIds, next \in {"rating_sent", "forfeit_sent"} :
        /\ (CanRate(r) /\ RateAndTell(r, next)) \/ RatingRaises(r)
        /\ pc = IF next = "rating_sent" THEN "judge" ELSE "punish"
        /\ UNCHANGED <<roomVars, userVars, gameVars, room, limit>>
  <2>1. CASE RateRoom
    <3>1. room \in RoomIds
      BY <2>1 DEF RateRoom, ServerInv, LoopInRange
    <3> QED
      BY <2>1, <3>1 DEF RateRoom
  <2>2. ASSUME NEW e \in doomed, RateForfeit(e)
        PROVE  \E r \in RoomIds, next \in {"rating_sent", "forfeit_sent"} :
                 /\ (CanRate(r) /\ RateAndTell(r, next)) \/ RatingRaises(r)
                 /\ pc = IF next = "rating_sent" THEN "judge" ELSE "punish"
                 /\ UNCHANGED <<roomVars, userVars, gameVars, room, limit>>
    <3>1. e[1] \in RoomIds
      BY DEF ServerInv, TypeOK
    <3> QED
      BY <2>2, <3>1 DEF RateForfeit
  <2> QED
    BY <2>1, <2>2
<1>2. /\ UNCHANGED listVars \/ (doomed' = {} /\ returned' = {})
      /\ pc' = "sleep" \/ (pc' = next /\ UNCHANGED listVars)
  BY <1>1 DEF RateAndTell, RatingRaises, StoreRaises
<1>3. /\ rated' \in [RoomIds -> BOOLEAN] /\ applied' \in [RoomIds -> [Sides -> Nat]]
      /\ failures' \in 0 .. DbFailures /\ RatingBooks'
  BY <1>1, RatingKeepsBooks DEF ServerInv
<1>4. /\ RoomsInv' /\ PresenceIsTrue' /\ ClearedMeansOver'
      /\ DoomedAreAway' /\ GhostsAreAway'
  BY <1>1, <1>2, RoomsUntouched DEF gameVars
<1>5. TypeOK'
  BY <1>1, <1>2, <1>3, <1>4 DEF ServerInv, TypeOK, RoomsInv, gameVars, userVars, listVars
<1>6. LoopInRange' /\ NoneUntold' /\ PunishedIsOver'
  BY <1>1, <1>2 DEF ServerInv, LoopInRange, NoneUntold, PunishedIsOver, gameVars, listVars
<1> QED
  BY <1>3, <1>4, <1>5, <1>6 DEF ServerInv

-----------------------------------------------------------------------------
\* Forfeits.

\* The entry the loop works on is one of the first room.
LEMMA FirstIsLowest ==
  ASSUME TypeOK, NEW e, IsFirst(e)
  PROVE  /\ e \in doomed /\ e[1] \in RoomIds /\ e[2] \in Users
         /\ \A d \in doomed : e[1] <= d[1]
<1>1. e \in doomed /\ doomed \subseteq RoomIds \X Users
  BY DEF IsFirst, TypeOK
<1>2. \A d \in doomed : d[1] \in Nat
  BY <1>1, RoomsAssumption DEF RoomIds
<1>3. \A d \in doomed : e[1] < d[1] \/ e[1] = d[1]
  BY DEF IsFirst
<1> QED
  BY <1>1, <1>2, <1>3

\* force_forfeit decides the game.
LEMMA ForfeitInv ==
  ASSUME ServerInv, NEW e \in doomed, Forfeit(e)
  PROVE  ServerInv'
<1>1. /\ UNCHANGED <<roomVars, userVars, ratingVars, flying, stale, room, limit, listVars, doomed>>
      /\ pc = "forfeit" /\ pc' = "punish" /\ IsFirst(e)
      /\ GameEnds(e[1], Other(members[e[1]][e[2]]))
  BY DEF Forfeit, listVars
<1>2. /\ e[1] \in RoomIds /\ \A d \in doomed : e[1] <= d[1] /\ d[1] \in Nat
  <2>1. e[1] \in RoomIds /\ \A d \in doomed : e[1] <= d[1]
    BY <1>1, FirstIsLowest DEF ServerInv
  <2>2. \A d \in doomed : d[1] \in Nat
    BY RoomsAssumption DEF ServerInv, TypeOK, RoomIds
  <2> QED
    BY <2>1, <2>2
<1>3. Other(members[e[1]][e[2]]) \in Sides
  BY DEF Other, Sides
<1>4. /\ over' \in [RoomIds -> BOOLEAN] /\ winner' \in [RoomIds -> Sides \cup {"none"}]
      /\ \A q \in RoomIds : over[q] => over'[q]
  BY <1>1, <1>2, <1>3, GameEndsTypes DEF ServerInv
<1>5. /\ RoomsInv' /\ PresenceIsTrue' /\ ClearedMeansOver'
      /\ DoomedAreAway' /\ GhostsAreAway'
  BY <1>1, <1>4, RoomsUntouched
<1>6. TypeOK'
  BY <1>1, <1>4, <1>5 DEF ServerInv, TypeOK, RoomsInv, ratingVars, userVars, listVars
<1>7. PunishedIsOver'
  <2>1. over'[e[1]]
    BY <1>1, <1>2 DEF GameEnds, ServerInv, TypeOK
  <2>2. \A f \in doomed : (\A d \in doomed : f[1] <= d[1]) => f[1] = e[1]
    BY <1>2
  <2> QED
    BY <1>1, <2>1, <2>2 DEF PunishedIsOver
<1>8. LoopInRange' /\ NoneUntold' /\ RatingBooks'
  BY <1>1 DEF ServerInv, LoopInRange, NoneUntold, RatingBooks, ratingVars
<1> QED
  BY <1>5, <1>6, <1>7, <1>8 DEF ServerInv

\* The store raises before the game is decided.
LEMMA ForfeitRaisesInv ==
  ASSUME ServerInv, NEW e \in doomed, ForfeitRaises(e)
  PROVE  ServerInv'
<1>1. /\ UNCHANGED <<roomVars, userVars, gameVars, applied, rated, room, limit>>
      /\ failures < DbFailures /\ failures' = failures + 1
      /\ pc' = "sleep" /\ doomed' = {} /\ returned' = {}
  BY DEF ForfeitRaises, StoreRaises
<1>2. /\ RoomsInv' /\ PresenceIsTrue' /\ ClearedMeansOver'
      /\ DoomedAreAway' /\ GhostsAreAway'
  BY <1>1, RoomsUntouched DEF gameVars
<1>3. failures \in Nat /\ failures' \in 0 .. DbFailures
  BY <1>1, GameServerAssumption DEF ServerInv, TypeOK
<1>4. TypeOK'
  BY <1>1, <1>2, <1>3 DEF ServerInv, TypeOK, RoomsInv, gameVars, userVars
<1>5. RatingBooks'
  <2>1. ASSUME NEW q \in RoomIds
        PROVE  applied[q]["white"] <= failures' + (IF rated[q] THEN 1 ELSE 0)
    <3>1. applied[q]["white"] \in Nat
      BY DEF ServerInv, TypeOK, Sides
    <3>2. applied[q]["white"] <= failures + (IF rated[q] THEN 1 ELSE 0)
      BY DEF ServerInv, RatingBooks
    <3> QED
      BY <1>1, <1>3, <3>1, <3>2
  <2> QED
    BY <1>1, <2>1 DEF ServerInv, RatingBooks
<1>6. LoopInRange' /\ NoneUntold' /\ PunishedIsOver'
  BY <1>1 DEF ServerInv, LoopInRange, NoneUntold, PunishedIsOver, gameVars
<1> QED
  BY <1>2, <1>4, <1>5, <1>6 DEF ServerInv

\* A deadline is cleared, with the game over by then.
LEMMA ClearInv ==
  ASSUME ServerInv, NEW e \in doomed, ForfeitTooLate(e) \/ ForfeitDone(e)
  PROVE  ServerInv'
<1>1. /\ UNCHANGED <<userVars, ratingVars, gameVars, room, limit, returned>>
      /\ pc \in {"forfeit", "punish", "forfeit_sent"} /\ pc' = "forfeit"
      /\ IsFirst(e)
      /\ ClearDisconnectDeadline(e[1], e[2]) /\ doomed' = doomed \ {e}
  BY DEF ForfeitTooLate, ForfeitDone, Clear
<1>2. e[1] \in RoomIds /\ e[2] \in Users /\ e = <<e[1], e[2]>> /\ \A d \in doomed : e[1] <= d[1]
  BY <1>1, FirstIsLowest DEF ServerInv, TypeOK
<1>3. over[e[1]]
  <2>1. CASE ForfeitTooLate(e)
    BY <2>1 DEF ForfeitTooLate
  <2>2. CASE ForfeitDone(e)
    BY <1>2, <2>2 DEF ForfeitDone, ServerInv, PunishedIsOver
  <2> QED
    BY <2>1, <2>2
<1>4. RoomsInv'
  BY <1>1, <1>2, DeadlinesKeepBooks DEF ServerInv
<1>5. PresenceIsTrue' /\ ClearedMeansOver' /\ DoomedAreAway'
  <2>1. doomed' = doomed \ {<<e[1], e[2]>>}
    BY <1>1, <1>2
  <2> QED
    BY <1>1, <1>2, <1>3, <2>1, DeadlineOfAbsent DEF ServerInv, TypeOK, gameVars
<1>6. TypeOK'
  BY <1>1, <1>4 DEF ServerInv, TypeOK, RoomsInv, ratingVars, gameVars, userVars
<1>7. LoopInRange' /\ NoneUntold' /\ RatingBooks' /\ PunishedIsOver'
  BY <1>1 DEF ServerInv, LoopInRange, NoneUntold, RatingBooks, PunishedIsOver, ratingVars, gameVars
<1>8. GhostsAreAway'
  BY <1>1 DEF ServerInv, GhostsAreAway, userVars
<1> QED
  BY <1>4, <1>5, <1>6, <1>7, <1>8 DEF ServerInv

-----------------------------------------------------------------------------
\* The invariant holds at first.
LEMMA InitServerInv == Init => ServerInv
<1> SUFFICES ASSUME Init PROVE ServerInv
  OBVIOUS
<1> USE RoomsAssumption, GameServerAssumption
<1>1. RoomsInv
  BY RoomsInitially DEF Init
<1>2. TypeOK
  BY <1>1 DEF Init, RoomsInv, TypeOK, Sides
<1>3. LoopInRange /\ NoneUntold /\ PunishedIsOver /\ DoomedAreAway /\ GhostsAreAway
  BY DEF Init, LoopInRange, NoneUntold, PunishedIsOver, DoomedAreAway, GhostsAreAway
<1>4. RatingBooks
  BY DEF Init, RatingBooks, Sides
<1>5. PresenceIsTrue /\ ClearedMeansOver
  BY DEF Init, RoomsInit, PresenceIsTrue, ClearedMeansOver, Members, Players
<1> QED
  BY <1>1, <1>2, <1>3, <1>4, <1>5 DEF ServerInv

\* Every step keeps it.
LEMMA NextServerInv == ServerInv /\ [Next]_vars => ServerInv'
<1> SUFFICES ASSUME ServerInv, [Next]_vars PROVE ServerInv'
  OBVIOUS
<1>1. CASE Loop
  <2>1. ASSUME NEW e \in doomed,
               \/ ForfeitTooLate(e) \/ ForfeitRaises(e) \/ Forfeit(e)
               \/ RateForfeit(e) \/ ForfeitDone(e)
        PROVE  ServerInv'
    BY <2>1, ForfeitInv, ForfeitRaisesInv, ClearInv, RateInv
  <2> QED
    BY <1>1, <2>1, TickInv, GraceInv, RateInv DEF Loop
<1>2. ASSUME NEW u \in Users, Request(u) PROVE ServerInv'
  BY <1>2, EnterRoomInv, SubmitMoveInv, SocketInv DEF Request
<1>3. ASSUME NEW a \in Users, NEW b \in Users, MatchPair(a, b) PROVE ServerInv'
  BY <1>3, MatchPairInv
<1>4. ASSUME NEW r \in RoomIds, NEW u \in Users, DeadlinePasses(r, u) PROVE ServerInv'
  BY <1>4, DeadlinePassesInv
<1>5. CASE UNCHANGED vars
  <2>1. UNCHANGED <<roomVars, userVars, gameVars, ratingVars, loopVars, listVars>>
    BY <1>5 DEF vars, loopVars, listVars
  <2>2. /\ RoomsInv' /\ PresenceIsTrue' /\ ClearedMeansOver'
        /\ DoomedAreAway' /\ GhostsAreAway'
    BY <2>1, RoomsUntouched DEF gameVars
  <2> QED
    BY <2>1, <2>2 DEF ServerInv, TypeOK, RoomsInv, LoopInRange, NoneUntold, RatingBooks,
       PunishedIsOver, gameVars, ratingVars, loopVars, userVars, listVars
<1> QED
  BY <1>1, <1>2, <1>3, <1>4, <1>5 DEF Next

\* The invariant of the whole server.
LEMMA ServerInvariant == Spec => []ServerInv
<1> QED
  BY InitServerInv, NextServerInv, PTL DEF Spec

\* Wherever requests come in between the loop's awaits, the rooms take a member
\* for present exactly when he has a socket, but for one who was matched after he
\* had left and is not back since.
THEOREM PresenceIsRight == Spec => []PresenceIsTrue
<1>1. ServerInv => PresenceIsTrue
  BY DEF ServerInv
<1> QED
  BY <1>1, ServerInvariant, PTL

\* No player is left with a deadline nobody looks at while his game goes on, also
\* when he comes or goes while his forfeit is being sent.
THEOREM NoDeadlineIsLost == Spec => []ClearedMeansOver
<1>1. ServerInv => ClearedMeansOver
  BY DEF ServerInv
<1> QED
  BY <1>1, ServerInvariant, PTL

\* However often the user store raises, and whenever, black's rating changes once
\* at most, and white's once more per failure at most.
THEOREM FailureCostIsBounded == Spec => []FailuresCostWhiteOnly
<1>1. ServerInv => FailuresCostWhiteOnly
  <2> SUFFICES ASSUME RatingBooks, NEW r \in RoomIds
               PROVE  /\ applied[r]["white"] <= failures + (IF rated[r] THEN 1 ELSE 0)
                      /\ rated[r] <=> applied[r]["black"] = 1
                      /\ rated[r] => applied[r]["white"] >= 1
    BY DEF ServerInv, FailuresCostWhiteOnly
  <2>1. CASE rated[r]
    BY <2>1 DEF RatingBooks
  <2>2. CASE ~ rated[r]
    BY <2>2 DEF RatingBooks
  <2> QED
    BY <2>1, <2>2
<1> QED
  BY <1>1, ServerInvariant, PTL

\* Between two ticks no landing is untold.
THEOREM QuietRoomsAreShown == Spec => []QuietRoomIsShown
<1>1. ServerInv => QuietRoomIsShown
  BY DEF ServerInv, NoneUntold, QuietRoomIsShown
<1> QED
  BY <1>1, ServerInvariant, PTL

\* A forfeit hits only a player who is away and past his deadline, or one who came
\* back after the loop had read its list: whether sends suspend the loop or not.
THEOREM ForfeitsAreDeserved == Spec => ForfeitsOnlyTheAbsent
<1>1. ServerInv /\ [Next]_vars =>
        [\A e \in doomed :
           Forfeit(e) => presence[e[1]][e[2]] = "expired" \/ e[2] \in returned]_vars
  <2> SUFFICES ASSUME ServerInv, NEW e \in doomed
               PROVE  presence[e[1]][e[2]] = "expired" \/ e[2] \in returned
    OBVIOUS
  <2>1. e = <<e[1], e[2]>> /\ e[1] \in RoomIds /\ e[2] \in Users
    BY DEF ServerInv, TypeOK
  <2>2. <<e[1], e[2]>> \in doomed
    BY <2>1
  <2> QED
    BY <2>1, <2>2 DEF ServerInv, DoomedAreAway
<1> QED
  BY <1>1, ServerInvariant, PTL DEF Spec, ForfeitsOnlyTheAbsent

-----------------------------------------------------------------------------
\* The result.

\* A step of a rating is one of AbstractResult's.
LEMMA RatingIsAbstract ==
  ASSUME ServerInv, NEW r \in RoomIds, NEW next,
         (CanRate(r) /\ RateAndTell(r, next)) \/ RatingRaises(r), UNCHANGED gameVars
  PROVE  [Result!Next]_(Result!vars)
<1>1. [q \in RoomIds |-> ResultOf(q)]' = [q \in RoomIds |-> ResultOf(q)]
  BY DEF gameVars, ResultOf
<1>2. [q \in RoomIds |-> ResultOf(q)][r] # "open" /\ applied[r]["black"] = 0
  BY DEF CanRate, ReadsPlayers, RatingRaises, ResultOf, ServerInv, TypeOK, RatingBooks, Sides
<1>3. CASE RateAndTell(r, next)
  <2>1. applied' = [applied EXCEPT ![r] = [s \in Result!Sides |-> applied[r][s] + 1]]
    BY <1>3 DEF RateAndTell, Sides, Result!Sides
  <2>2. Result!Rate(r)
    BY <1>1, <1>2, <2>1 DEF Result!Rate
  <2> QED
    BY <2>2 DEF Result!Next
<1>4. CASE RatingRaises(r)
  <2>1. CASE applied' = applied
    BY <1>1, <2>1 DEF Result!vars
  <2>2. CASE applied' = [applied EXCEPT ![r]["white"] = applied[r]["white"] + 1]
    <3>1. Result!BreakOff(r)
      BY <1>1, <1>2, <2>2 DEF Result!BreakOff
    <3> QED
      BY <3>1 DEF Result!Next
  <2> QED
    BY <1>4, <2>1, <2>2 DEF RatingRaises
<1> QED
  BY <1>3, <1>4

\* So is the end of a game, or nothing.
LEMMA EndIsAbstract ==
  ASSUME ServerInv, NEW r \in RoomIds, ~ over[r], applied' = applied,
         UNCHANGED <<over, winner>> \/ \E side \in Sides : GameEnds(r, side)
  PROVE  [Result!Next]_(Result!vars)
<1>1. CASE UNCHANGED <<over, winner>>
  <2>1. [q \in RoomIds |-> ResultOf(q)]' = [q \in RoomIds |-> ResultOf(q)]
    BY <1>1 DEF ResultOf
  <2> QED
    BY <2>1 DEF Result!vars
<1>2. ASSUME NEW side \in Sides, GameEnds(r, side) PROVE [Result!Next]_(Result!vars)
  <2> DEFINE f == [q \in RoomIds |-> ResultOf(q)]
  <2>1. /\ over' = [over EXCEPT ![r] = TRUE] /\ winner' = [winner EXCEPT ![r] = side]
        /\ over \in [RoomIds -> BOOLEAN] /\ winner \in [RoomIds -> Sides \cup {"none"}]
    BY <1>2 DEF GameEnds, ServerInv, TypeOK
  <2>2. f[r] = "open"
    BY DEF ResultOf
  <2>3. \A q \in RoomIds : f'[q] = IF q = r THEN side ELSE f[q]
    BY <2>1 DEF ResultOf
  <2>4. f' = [f EXCEPT ![r] = side]
    BY <2>3
  <2>5. Result!Decide(r, side)
    BY <2>2, <2>4 DEF Result!Decide
  <2>6. side \in Result!Sides
    BY DEF Sides, Result!Sides
  <2> QED
    BY <2>5, <2>6 DEF Result!Next
<1> QED
  BY <1>1, <1>2

\* What leaves results and ratings alone is a stutter.
LEMMA RestIsStutter ==
  ASSUME UNCHANGED <<over, winner, applied>>
  PROVE  [Result!Next]_(Result!vars)
<1>1. [q \in RoomIds |-> ResultOf(q)]' = [q \in RoomIds |-> ResultOf(q)]
  BY DEF ResultOf
<1> QED
  BY <1>1 DEF Result!vars

\* Every step of the server is one of AbstractResult's, or none.
LEMMA ServerStepIsAbstract ==
  ASSUME ServerInv, [Next]_vars
  PROVE  [Result!Next]_(Result!vars)
<1>1. CASE Loop
  <2>1. CASE FlightTick \/ LandingTick
    <3>1. room \in RoomIds /\ ~ over[room] /\ applied' = applied
      BY <2>1, RoomsAssumption DEF FlightTick, LandingTick, ServerInv, TypeOK, RoomIds, ratingVars
    <3>2. UNCHANGED <<over, winner>> \/ \E side \in Sides : GameEnds(room, side)
      BY <2>1 DEF FlightTick, LandingTick
    <3> QED
      BY <3>1, <3>2, EndIsAbstract
  <2>2. CASE RateRoom
    BY <2>2, RatingIsAbstract DEF RateRoom, ServerInv, LoopInRange
  <2>3. ASSUME NEW e \in doomed, Forfeit(e) PROVE [Result!Next]_(Result!vars)
    <3>1. e[1] \in RoomIds /\ ~ over[e[1]] /\ applied' = applied
      BY <2>3 DEF ServerInv, TypeOK, Forfeit, ratingVars
    <3>2. Other(members[e[1]][e[2]]) \in Sides
      BY DEF Other, Sides
    <3> QED
      BY <2>3, <3>1, <3>2, EndIsAbstract DEF Forfeit
  <2>4. ASSUME NEW e \in doomed, RateForfeit(e) PROVE [Result!Next]_(Result!vars)
    <3>1. e[1] \in RoomIds
      BY DEF ServerInv, TypeOK
    <3> QED
      BY <2>4, <3>1, RatingIsAbstract DEF RateForfeit
  <2>5. ASSUME NEW e \in doomed, ForfeitTooLate(e) \/ ForfeitRaises(e) \/ ForfeitDone(e)
        PROVE  [Result!Next]_(Result!vars)
    BY <2>5, RestIsStutter DEF ForfeitTooLate, ForfeitRaises, ForfeitDone, gameVars, ratingVars
  <2>6. CASE \/ StartTick \/ QuietTick \/ StateSent \/ NextRoom
             \/ GamesTicked \/ SendCountdown \/ ReadExpired \/ TickDone
    BY <2>6, RestIsStutter DEF StartTick, QuietTick, StateSent, NextRoom, GamesTicked, SendCountdown,
       ReadExpired, TickDone, gameVars, ratingVars
  <2> QED
    BY <1>1, <2>1, <2>2, <2>3, <2>4, <2>5, <2>6 DEF Loop
<1>2. CASE \/ \E u \in Users : Request(u)
           \/ \E a, b \in Users : MatchPair(a, b)
           \/ \E r \in RoomIds, u \in Users : DeadlinePasses(r, u)
  BY <1>2, RestIsStutter DEF Request, EnterRoom, SubmitMove, ClientDisconnected, LogIn, MatchPair,
     DeadlinePasses, gameVars, ratingVars
<1>3. CASE UNCHANGED vars
  BY <1>3, RestIsStutter DEF vars, gameVars, ratingVars
<1> QED
  BY <1>1, <1>2, <1>3 DEF Next

\* The server implements AbstractResult: a result is decided once and rated once,
\* however ticks, forfeits, late joiners and failures of the store interleave.
THEOREM ServerImplementsResult == Spec => ImplementsAbstractResult
<1>1. Init => Result!Init
  BY DEF Init, Result!Init, ResultOf, Sides, Result!Sides
<1>2. ServerInv /\ [Next]_vars => [Result!Next]_(Result!vars)
  BY ServerStepIsAbstract
<1> QED
  BY <1>1, <1>2, ServerInvariant, PTL DEF Spec, ImplementsAbstractResult, Result!Spec
=============================================================================
