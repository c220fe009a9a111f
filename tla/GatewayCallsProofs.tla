-------------------------- MODULE GatewayCallsProofs --------------------------
(***************************************************************************)
(* Through calls that time out, commands carried out long after, logins,   *)
(* disconnects and ends of games in any order, the directory leads every   *)
(* player of a running game to his room, for any numbers of users, rooms,  *)
(* commands, matches and timeouts.                                         *)
(*                                                                         *)
(* The argument is about the order of the list.  A login unbinds its user  *)
(* when the shard says it has no room for him.  By then a room may have    *)
(* been made for him, if a create or a join of his is still in the list;   *)
(* but the gateway asks one thing at a time, so every such command was put *)
(* there before the login's and has been carried out before it (CallOrder).*)
(* A match is in no list; it finds the user on his way (outrun).  Between  *)
(* the room and its bindings the shard does nothing else (TaskIsOpen).     *)
(***************************************************************************)
EXTENDS GatewayCalls, RoomsProofs, SequenceTheorems

\* The part of TypeOK the argument needs.
CallsTypeOK ==
  /\ call = NoCall \/ call \in [type : Calls, user : Users]
  /\ answer \in {"none", "ok", "error"}
  /\ cmds \in Seq(Command) /\ found \in Seq(Pairs)
  /\ unbound \subseteq Users
  /\ home \in [Users -> RoomIds \cup {NoRoom}]

Enters(c) == c.type \in {"create", "join"}

\* The command that is waited for is that of the call under way, and nothing its
\* user asked for before is behind it.
CallOrder ==
  /\ call = NoCall => answer = "none"
  /\ \A i \in DOMAIN cmds : cmds[i].type = "disconnected" => ~ cmds[i].asked
  /\ \A i \in DOMAIN cmds : cmds[i].asked =>
       answer = "none" /\ call.type = cmds[i].type /\ call.user = cmds[i].user
  /\ \A i, j \in DOMAIN cmds :
       cmds[i].asked /\ i < j /\ cmds[j].user = cmds[i].user => cmds[j].type = "disconnected"

\* The shard has said that it has no room for the user who logs in, and nothing
\* that could change that is in the list.
RefusedIsOut ==
  (/\ call.type = "reconnect" /\ answer = "error"
   /\ <<call.user, "reconnect">> \notin late /\ call.user \notin outrun) =>
    /\ ~ InRoom(call.user)
    /\ \A i \in DOMAIN cmds : cmds[i].user = call.user => ~ Enters(cmds[i])

LiveIsClaimed == Created \ over \subseteq claimed

LedHome ==
  \A r \in RoomIds, u \in Users :
    Unfinished(r, u) /\ u \notin unbound \cup outrun /\ <<u, "reconnect">> \notin late =>
      home[u] = r

\* Who is to be bound is in his room, and if a command took him there it is still the
\* first of the list.
TaskIsOpen ==
  /\ task = "none" => unbound = {}
  /\ \A u \in unbound : InRoom(u)
  /\ task = "command" =>
       1 \in DOMAIN cmds /\ Enters(cmds[1]) /\ unbound = {cmds[1].user}

\* Who creates or joins has a socket, who logs in has none.
CallersInv ==
  /\ online \in [Users -> BOOLEAN]
  /\ call.type = "reconnect" => ~ online[call.user]
  /\ call.type \in {"create", "join"} => online[call.user]

CallsInv ==
  /\ RoomsInv /\ CallsTypeOK /\ CallOrder /\ TaskIsOpen
  /\ RefusedIsOut /\ LiveIsClaimed /\ LedHome

-----------------------------------------------------------------------------
\* The list.

\* A command is put at the end of the list.
LEMMA Put ==
  ASSUME cmds \in Seq(Command), NEW c \in Command, cmds' = Append(cmds, c)
  PROVE  /\ cmds' \in Seq(Command)
         /\ \A i \in DOMAIN cmds' : \/ i \in DOMAIN cmds /\ cmds'[i] = cmds[i]
                                    \/ cmds'[i] = c /\ i = Len(cmds) + 1
         /\ \A i \in DOMAIN cmds : i < Len(cmds) + 1 /\ i \in DOMAIN cmds' /\ cmds'[i] = cmds[i]
BY DEF Command

\* The first command of it
LEMMA First ==
  ASSUME cmds \in Seq(Command), cmds # <<>>
  PROVE  Head(cmds) \in Command /\ Head(cmds) = cmds[1] /\ 1 \in DOMAIN cmds
OBVIOUS

\* It leaves the list.
LEMMA Taken ==
  ASSUME cmds \in Seq(Command), cmds # <<>>, cmds' = Tail(cmds)
  PROVE  /\ cmds' \in Seq(Command)
         /\ \A i \in DOMAIN cmds' : i + 1 \in DOMAIN cmds /\ i \in Nat /\ 1 < i + 1 /\ cmds'[i] = cmds[i + 1]
OBVIOUS

\* Taking a command and answering it keeps the order.
LEMMA TakenInOrder ==
  ASSUME CallsTypeOK, CallOrder, cmds # <<>>, NEW result \in {"ok", "error"},
         Done(result), call' = call
  PROVE  CallOrder'
<1>1. /\ Head(cmds) \in Command /\ Head(cmds) = cmds[1] /\ 1 \in DOMAIN cmds
      /\ \A i \in DOMAIN cmds' : i + 1 \in DOMAIN cmds /\ i \in Nat /\ 1 < i + 1 /\ cmds'[i] = cmds[i + 1]
      /\ answer' = IF cmds[1].asked THEN result ELSE answer
  BY First, Taken DEF CallsTypeOK, Done
<1>2. CASE cmds[1].asked
  <2>1. call.type = cmds[1].type /\ call.user = cmds[1].user /\ call.type # "disconnected" /\ call # NoCall
    <3>1. call.type = cmds[1].type /\ call.user = cmds[1].user /\ cmds[1].type # "disconnected"
      BY <1>1, <1>2 DEF CallOrder
    <3>2. cmds[1].user \in Users
      BY <1>1 DEF Command
    <3> QED
      BY <3>1, <3>2, CallsAssumption DEF NoCall
  <2>2. \A i \in DOMAIN cmds' : ~ cmds'[i].asked
    BY <1>1, <1>2, <2>1 DEF CallOrder
  <2> QED
    BY <1>1, <2>1, <2>2 DEF CallOrder
<1>3. CASE ~ cmds[1].asked
  BY <1>1, <1>3 DEF CallOrder
<1> QED
  BY <1>2, <1>3

\* Players enter no room, nothing is unbound, and nobody is done with being bound.
LEMMA NobodyEnters ==
  ASSUME CallsInv, Created' \subseteq Created, over \subseteq over',
         \A r \in RoomIds : Players(r)' \subseteq Players(r),
         home' = home, claimed' = claimed, late \subseteq late', unbound \subseteq unbound',
         outrun \subseteq outrun'
  PROVE  LiveIsClaimed' /\ LedHome'
BY DEF CallsInv, LiveIsClaimed, LedHome, Unfinished

\* Commands are taken in order, and who has been refused a room stays out.
LEMMA TakenKeepsRefused ==
  ASSUME CallsInv, cmds # <<>>, NEW result \in {"ok", "error"}, Done(result),
         call' = call, late' = late, outrun' = outrun,
         \A u \in Users : InRoom(u)' => InRoom(u),
         Head(cmds).type = "reconnect" => result = "ok" \/ userRoom'[Head(cmds).user] = NoRoom
  PROVE  /\ cmds' \in Seq(Command) /\ answer' \in {"none", "ok", "error"}
         /\ CallOrder' /\ RefusedIsOut'
<1> USE DEF CallsInv
<1>1. /\ Head(cmds) \in Command /\ Head(cmds) = cmds[1] /\ 1 \in DOMAIN cmds /\ cmds' \in Seq(Command)
      /\ \A i \in DOMAIN cmds' : i + 1 \in DOMAIN cmds /\ i \in Nat /\ 1 < i + 1 /\ cmds'[i] = cmds[i + 1]
      /\ answer' = IF cmds[1].asked THEN result ELSE answer
  BY First, Taken DEF CallsTypeOK, Done
<1>2. CallOrder'
  BY TakenInOrder
<1>3. ASSUME call.type = "reconnect", answer' = "error", <<call.user, "reconnect">> \notin late,
             call.user \notin outrun
      PROVE  /\ userRoom'[call.user] = NoRoom
             /\ \A i \in DOMAIN cmds' : cmds'[i].user = call.user => ~ Enters(cmds'[i])
  <2>1. call.user \in Users
    BY <1>3 DEF CallsTypeOK, NoCall
  <2>2. CASE cmds[1].asked
    <3>1. call.type = cmds[1].type /\ call.user = cmds[1].user
      BY <1>1, <2>2 DEF CallOrder
    <3>2. userRoom'[call.user] = NoRoom
      BY <1>1, <1>3, <2>2, <3>1
    <3>3. \A i \in DOMAIN cmds' : cmds'[i].user = call.user => cmds'[i].type = "disconnected"
      BY <1>1, <2>2, <3>1 DEF CallOrder
    <3> QED
      BY <3>2, <3>3 DEF Enters
  <2>3. CASE ~ cmds[1].asked
    <3>1. answer = "error"
      BY <1>1, <1>3, <2>3
    <3>2. /\ ~ InRoom(call.user)
          /\ \A i \in DOMAIN cmds : cmds[i].user = call.user => ~ Enters(cmds[i])
      BY <1>3, <3>1 DEF RefusedIsOut
    <3> QED
      BY <1>1, <2>1, <3>2 DEF InRoom
  <2> QED
    BY <2>2, <2>3
<1>4. RefusedIsOut'
  BY <1>3 DEF RefusedIsOut, InRoom
<1> QED
  BY <1>1, <1>2, <1>4 DEF CallsTypeOK

\* Nothing of the list, the call or the answer changes.
LEMMA CallsStay ==
  ASSUME CallsInv, UNCHANGED <<call, answer, cmds>>, late' = late, outrun \subseteq outrun',
         \A u \in Users : InRoom(u)' => InRoom(u), home' \in [Users -> RoomIds \cup {NoRoom}],
         found' \in Seq(Pairs), unbound' \subseteq Users
  PROVE  CallsTypeOK' /\ CallOrder' /\ RefusedIsOut'
<1>1. CallsTypeOK' /\ CallOrder'
  BY DEF CallsInv, CallsTypeOK, CallOrder
<1>2. call.type = "reconnect" => call.user \in Users
  BY DEF CallsInv, CallsTypeOK, NoCall
<1>3. RefusedIsOut'
  BY <1>2 DEF CallsInv, RefusedIsOut
<1> QED
  BY <1>1, <1>3

\* The shard's task is as before, and the first of the list too.
LEMMA TaskStays ==
  ASSUME CallsInv, UNCHANGED <<task, unbound>>,
         \A u \in Users : InRoom(u) => InRoom(u)',
         1 \in DOMAIN cmds =>
           1 \in DOMAIN cmds' /\ cmds'[1].type = cmds[1].type /\ cmds'[1].user = cmds[1].user
  PROVE  TaskIsOpen'
BY DEF CallsInv, CallsTypeOK, TaskIsOpen, Enters

\* The shard has no task.
LEMMA NoTask ==
  ASSUME CallsInv, ShardFree, UNCHANGED <<task, unbound>>
  PROVE  TaskIsOpen' /\ unbound = {}
BY DEF CallsInv, TaskIsOpen, ShardFree

-----------------------------------------------------------------------------
\* The gateway's steps.

\* A call: nothing else is waited for.
LEMMA CallShardInv ==
  ASSUME CallsInv, NEW type \in Calls, NEW u \in Users, NEW r \in RoomIds \cup {NoRoom},
         CallShard(type, u, r),
         UNCHANGED <<roomVars, answer, shardVars, directoryVars, gameVars, historyVars>>
  PROVE  CallsInv'
<1> USE DEF CallsInv
<1> DEFINE c == [type |-> type, user |-> u, room |-> r, asked |-> TRUE]
<1>1. /\ c \in Command /\ c.type = type /\ c.user = u /\ c.asked
      /\ cmds' = Append(cmds, c) /\ call' = [type |-> type, user |-> u]
      /\ call = NoCall /\ answer = "none"
      /\ type # "disconnected"
  BY DEF CallShard, Command, GatewayFree, CallOrder, Calls
<1> HIDE DEF c
<1>2. /\ cmds' \in Seq(Command)
      /\ \A i \in DOMAIN cmds' : (i \in DOMAIN cmds /\ cmds'[i] = cmds[i]) \/ (cmds'[i] = c /\ i = Len(cmds) + 1)
      /\ \A i \in DOMAIN cmds : i < Len(cmds) + 1 /\ i \in DOMAIN cmds' /\ cmds'[i] = cmds[i]
      /\ Len(cmds) \in Nat
  BY <1>1, Put DEF CallsTypeOK
<1>3. \A i \in DOMAIN cmds : ~ cmds[i].asked
  <2> SUFFICES ASSUME NEW i \in DOMAIN cmds, cmds[i].asked PROVE FALSE
    OBVIOUS
  <2>1. call.user = cmds[i].user
    BY DEF CallOrder
  <2>2. cmds[i].user \in Users
    <3>1. cmds \in Seq(Command) /\ DOMAIN cmds = 1 .. Len(cmds)
      BY DEF CallsTypeOK
    <3>2. cmds[i] \in Command
      BY <3>1, ElementOfSeq
    <3> QED
      BY <3>2 DEF Command
  <2> QED
    BY <1>1, <2>1, <2>2, CallsAssumption DEF NoCall
<1>4. CallsTypeOK'
  BY <1>1, <1>2 DEF CallsTypeOK, directoryVars, shardVars
<1>5. CallOrder'
  <2>1. call' # NoCall /\ call'.type = type /\ call'.user = u
    BY <1>1, CallsAssumption DEF NoCall
  <2>2. \A i \in DOMAIN cmds' : cmds'[i].asked => i = Len(cmds) + 1 /\ cmds'[i] = c
    BY <1>2, <1>3
  <2>3. \A i, j \in DOMAIN cmds' : cmds'[i].asked => ~ (i < j)
    BY <1>2, <2>2
  <2> QED
    BY <1>1, <1>2, <2>1, <2>2, <2>3 DEF CallOrder
<1>6. RefusedIsOut'
  BY <1>1 DEF RefusedIsOut
<1>7. RoomsInv' /\ LiveIsClaimed' /\ LedHome'
  <2>1. RoomsInv'
    BY OtherStepsKeepBooks DEF roomVars, RoomsInv, RoomsTypeOK
  <2>2. LiveIsClaimed' /\ LedHome'
    BY NobodyEnters DEF roomVars, shardVars, directoryVars, gameVars, historyVars, Created, Members, Players
  <2> QED
    BY <2>1, <2>2
<1>8. TaskIsOpen'
  BY <1>2, TaskStays DEF shardVars, roomVars, InRoom
<1> QED
  BY <1>4, <1>5, <1>6, <1>7, <1>8

\* A login that needs no answer, or calls.
LEMMA LogInInv == ASSUME CallsInv, NEW u \in Users, LogIn(u) PROVE CallsInv'
<1> USE DEF CallsInv
<1>1. CASE home[u] # NoRoom /\ CallShard("reconnect", u, home[u]) /\ UNCHANGED home
  BY <1>1, CallShardInv DEF LogIn, CallsTypeOK, Calls, directoryVars
<1>2. CASE /\ home[u] = NoRoom \/ home[u] \notin claimed
           /\ home' = [home EXCEPT ![u] = NoRoom]
           /\ UNCHANGED <<call, cmds>>
  <2>1. UNCHANGED <<members, presence, userRoom, answer, claimed, over, late, outrun, found, task, unbound>>
    BY DEF LogIn, roomVars, gameVars, historyVars, shardVars
  <2>2. RoomsInv'
    BY <2>1, OtherStepsKeepBooks DEF RoomsInv, RoomsTypeOK
  <2>3. CallsTypeOK' /\ CallOrder' /\ RefusedIsOut'
    BY <1>2, <2>1, CallsStay DEF CallsTypeOK, InRoom
  <2>4. LiveIsClaimed'
    BY <2>1 DEF LiveIsClaimed, Created, Members
  <2>5. LedHome'
    <3> SUFFICES ASSUME NEW r \in RoomIds, NEW v \in Users, Unfinished(r, v),
                        v \notin unbound \cup outrun, <<v, "reconnect">> \notin late
                 PROVE  home'[v] = r
      BY <2>1 DEF LedHome, Unfinished, Players
    <3>1. home[v] = r /\ r \in claimed /\ r # NoRoom
      BY RoomsAssumption DEF LedHome, LiveIsClaimed, Unfinished, Created, Members, Players, RoomIds
    <3> QED
      BY <1>2, <3>1 DEF CallsTypeOK
  <2>6. TaskIsOpen'
    BY <1>2, <2>1, TaskStays DEF InRoom
  <2> QED
    BY <2>2, <2>3, <2>4, <2>5, <2>6
<1> QED
  BY <1>1, <1>2 DEF LogIn

\* The answer is taken, or the timeout; a refused user is in no room.
LEMMA ReturnInv == ASSUME CallsInv, Return PROVE CallsInv'
<1> USE DEF CallsInv
<1>1. /\ answer # "none" /\ call' = NoCall /\ answer' = "none"
      /\ UNCHANGED <<members, presence, userRoom, cmds, claimed, over, late, outrun, found, task, unbound>>
  BY DEF Return, roomVars, gameVars, historyVars, shardVars
<1>2. RoomsInv' /\ LiveIsClaimed'
  BY <1>1, OtherStepsKeepBooks DEF RoomsInv, RoomsTypeOK, LiveIsClaimed, Created, Members
<1>3. call.type = "reconnect" => call.user \in Users
  BY DEF CallsTypeOK, NoCall
<1>4. CallsTypeOK'
  BY <1>1, <1>3 DEF CallsTypeOK, Return, Forgotten
<1>5. \A i \in DOMAIN cmds : ~ cmds[i].asked
  BY <1>1 DEF CallOrder
<1>6. CallOrder' /\ RefusedIsOut'
  BY <1>1, <1>5 DEF CallOrder, RefusedIsOut
<1>7. LedHome'
  <2> SUFFICES ASSUME NEW r \in RoomIds, NEW v \in Users, Unfinished(r, v),
                      v \notin unbound \cup outrun, <<v, "reconnect">> \notin late
               PROVE  home'[v] = r
    BY <1>1 DEF LedHome, Unfinished, Players
  <2>1. home[v] = r
    BY DEF LedHome
  <2>2. InRoom(v)
    <3>1. v \in Members(r)
      BY DEF Unfinished, Players, Members
    <3> QED
      BY <3>1, RoomsAssumption DEF RoomsInv, MembershipAgrees, InRoom, RoomIds
  <2>3. CASE call.type = "reconnect" /\ call.user = v
    <3>1. answer # "error"
      BY <2>2, <2>3 DEF RefusedIsOut
    <3> QED
      BY <1>3, <2>1, <2>3, <3>1 DEF Return, Forgotten, CallsTypeOK
  <2>4. CASE ~ (call.type = "reconnect" /\ call.user = v)
    BY <1>3, <2>1, <2>4 DEF Return, CallsTypeOK
  <2> QED
    BY <2>3, <2>4
<1>8. TaskIsOpen'
  BY <1>1, TaskStays DEF InRoom
<1> QED
  BY <1>2, <1>4, <1>6, <1>7, <1>8

\* A command nobody waits for stays in its place.
LEMMA TimesOutInv == ASSUME CallsInv, TimesOut PROVE CallsInv'
<1> USE DEF CallsInv
<1>1. /\ call # NoCall /\ answer' = "error"
      /\ cmds' = [i \in DOMAIN cmds |-> [cmds[i] EXCEPT !.asked = FALSE]]
      /\ late' = late \cup {<<call.user, call.type>>}
      /\ UNCHANGED <<members, presence, userRoom, call, home, claimed, over, outrun, found, task, unbound>>
  BY DEF TimesOut, roomVars, directoryVars, gameVars, GatewayFree, shardVars
<1>2. /\ cmds' \in Seq(Command) /\ DOMAIN cmds' = DOMAIN cmds
      /\ \A i \in DOMAIN cmds : ~ cmds'[i].asked /\ cmds'[i].type = cmds[i].type /\ cmds'[i].user = cmds[i].user
  <2>1. DOMAIN cmds = 1 .. Len(cmds) /\ Len(cmds) \in Nat /\ \A i \in DOMAIN cmds : cmds[i] \in Command
    BY DEF CallsTypeOK
  <2>2. \A i \in DOMAIN cmds : [cmds[i] EXCEPT !.asked = FALSE] \in Command
    BY <2>1 DEF Command
  <2>3. cmds' \in [1 .. Len(cmds) -> Command]
    BY <1>1, <2>1, <2>2
  <2>4. \A i \in DOMAIN cmds : ~ cmds'[i].asked /\ cmds'[i].type = cmds[i].type /\ cmds'[i].user = cmds[i].user
    BY <1>1, <2>1 DEF Command
  <2> QED
    BY <2>1, <2>3, <2>4, IsASeq
<1>3. CallsTypeOK' /\ CallOrder'
  BY <1>1, <1>2 DEF CallsTypeOK, CallOrder
<1>4. RefusedIsOut'
  BY <1>1 DEF RefusedIsOut
<1>5. RoomsInv'
  BY <1>1, OtherStepsKeepBooks DEF RoomsInv, RoomsTypeOK
<1>6. LiveIsClaimed' /\ LedHome'
  BY <1>1, NobodyEnters DEF Created, Members, Players
<1>7. TaskIsOpen'
  BY <1>1, <1>2, TaskStays DEF InRoom
<1> QED
  BY <1>3, <1>4, <1>5, <1>6, <1>7

\* The end of a socket starts a thread.
LEMMA LeaveInv == ASSUME CallsInv, NEW u \in Users, Leave(u) PROVE CallsInv'
<1>1. /\ UNCHANGED <<members, presence, userRoom, call, answer, cmds, home, claimed, over, late>>
      /\ UNCHANGED <<found, task, unbound>> /\ outrun \subseteq outrun'
  BY DEF Leave, roomVars, directoryVars, gameVars, shardVars
<1>2. RoomsInv' /\ LiveIsClaimed' /\ LedHome'
  BY <1>1, OtherStepsKeepBooks, NobodyEnters
  DEF CallsInv, RoomsInv, RoomsTypeOK, Created, Members, Players
<1>3. TaskIsOpen'
  BY <1>1, TaskStays DEF InRoom
<1> QED
  BY <1>1, <1>2, <1>3, CallsStay DEF CallsInv, CallsTypeOK, InRoom

\* The thread puts its command at the end.
LEMMA TellDisconnectedInv == ASSUME CallsInv, NEW u \in Users, TellDisconnected(u) PROVE CallsInv'
<1> USE DEF CallsInv
<1> DEFINE c == [type |-> "disconnected", user |-> u, room |-> NoRoom, asked |-> FALSE]
<1>1. /\ UNCHANGED <<members, presence, userRoom, call, answer, home, claimed, over, late, outrun>>
      /\ UNCHANGED <<found, task, unbound>>
      /\ cmds' = Append(cmds, c)
      /\ c \in Command /\ c.type = "disconnected" /\ c.user = u /\ ~ c.asked
  BY DEF TellDisconnected, roomVars, directoryVars, gameVars, shardVars, Command
<1> HIDE DEF c
<1>2. /\ cmds' \in Seq(Command)
      /\ \A i \in DOMAIN cmds' : (i \in DOMAIN cmds /\ cmds'[i] = cmds[i]) \/ (cmds'[i] = c /\ i = Len(cmds) + 1)
      /\ \A i \in DOMAIN cmds : i \in DOMAIN cmds' /\ cmds'[i] = cmds[i]
  BY <1>1, Put DEF CallsTypeOK
<1>3. CallsTypeOK' /\ CallOrder'
  BY <1>1, <1>2 DEF CallsTypeOK, CallOrder
<1>4. RefusedIsOut'
  BY <1>1, <1>2 DEF RefusedIsOut, InRoom, Enters
<1>5. RoomsInv' /\ LiveIsClaimed' /\ LedHome'
  BY <1>1, OtherStepsKeepBooks, NobodyEnters DEF RoomsInv, RoomsTypeOK, Created, Members, Players
<1>6. TaskIsOpen'
  BY <1>1, <1>2, TaskStays DEF InRoom
<1> QED
  BY <1>3, <1>4, <1>5, <1>6

\* The matchmaker's pair
LEMMA MatchInv == ASSUME CallsInv, NEW a \in Users, NEW b \in Users, Match(a, b) PROVE CallsInv'
<1> USE DEF CallsInv
<1>1. /\ UNCHANGED <<members, presence, userRoom, call, answer, cmds, home, claimed, over, late, outrun>>
      /\ UNCHANGED <<task, unbound>>
      /\ a # b /\ found' = Append(found, <<a, b>>)
  BY DEF Match, roomVars, gatewayVars, directoryVars, gameVars, historyVars
<1>2. found' \in Seq(Pairs)
  <2>1. <<a, b>> \in Pairs
    BY <1>1 DEF Pairs
  <2> QED
    BY <1>1, <2>1 DEF CallsTypeOK
<1>3. RoomsInv' /\ LiveIsClaimed' /\ LedHome'
  BY <1>1, OtherStepsKeepBooks, NobodyEnters DEF RoomsInv, RoomsTypeOK, Created, Members, Players
<1>4. TaskIsOpen'
  BY <1>1, TaskStays DEF InRoom
<1> QED
  BY <1>1, <1>2, <1>3, <1>4, CallsStay DEF CallsTypeOK, InRoom

-----------------------------------------------------------------------------
\* The shard's steps.

\* A task begins: users enter a room that gets, or has, its place in the directory,
\* and are to be bound.
LEMMA TaskBegins ==
  ASSUME CallsInv, RoomsInv', NEW us \in SUBSET Users,
         StartTask(task', us), Created \subseteq Created',
         \A q \in RoomIds, v \in Users : v \notin us => members'[q][v] = members[q][v],
         \A v \in Users : v \notin us => userRoom'[v] = userRoom[v],
         \A v \in us : InRoom(v)',
         task' = "command" => 1 \in DOMAIN cmds /\ Enters(cmds[1]) /\ us = {cmds[1].user},
         task' # "none", ShardFree,
         \A v \in us : v \in outrun' \/ (v = cmds[1].user /\ Enters(cmds[1]) /\ 1 \in DOMAIN cmds)
                         \/ (call.type = "reconnect" => call.user # v),
         found' \in Seq(Pairs), outrun \subseteq outrun',
         UNCHANGED <<home, call, answer, cmds, over, late>>
  PROVE  CallsInv'
<1> USE DEF CallsInv
<1>1. unbound' = us /\ claimed' = claimed \cup (Created' \ Created) /\ unbound = {}
  BY DEF StartTask, ShardFree, TaskIsOpen
<1>2. CallsTypeOK' /\ CallOrder'
  BY <1>1 DEF CallsTypeOK, CallOrder
<1>3. TaskIsOpen'
  BY <1>1 DEF TaskIsOpen
<1>4. LiveIsClaimed'
  BY <1>1 DEF LiveIsClaimed
<1>5. LedHome'
  <2> SUFFICES ASSUME NEW r \in RoomIds, NEW v \in Users, Unfinished(r, v)',
                      v \notin us \cup outrun', <<v, "reconnect">> \notin late
               PROVE  home[v] = r
    BY <1>1 DEF LedHome
  <2>1. Unfinished(r, v)
    BY DEF Unfinished, Players
  <2> QED
    BY <1>1, <2>1 DEF LedHome
<1>6. RefusedIsOut'
  <2> SUFFICES ASSUME call.type = "reconnect", answer = "error", <<call.user, "reconnect">> \notin late,
                      call.user \notin outrun'
               PROVE  /\ userRoom'[call.user] = NoRoom
                      /\ \A i \in DOMAIN cmds : cmds[i].user = call.user => ~ Enters(cmds[i])
    BY DEF RefusedIsOut, InRoom
  <2>1. /\ call.user \in Users /\ userRoom[call.user] = NoRoom
        /\ \A i \in DOMAIN cmds : cmds[i].user = call.user => ~ Enters(cmds[i])
    BY DEF RefusedIsOut, CallsTypeOK, NoCall, InRoom
  <2>2. call.user \notin us
    BY <2>1
  <2> QED
    BY <2>1, <2>2
<1> QED
  BY <1>2, <1>3, <1>4, <1>5, <1>6

\* A command is refused, or needs no task: rooms do not grow.
LEMMA CommandDone ==
  ASSUME CallsInv, RoomsInv', cmds # <<>>, ShardFree, NEW result \in {"ok", "error"}, Done(result),
         \A r \in RoomIds : Players(r)' \subseteq Players(r) /\ Members(r)' \subseteq Members(r),
         \A u \in Users : InRoom(u)' => InRoom(u),
         Head(cmds).type = "reconnect" => result = "ok" \/ userRoom'[Head(cmds).user] = NoRoom,
         UNCHANGED <<call, home, claimed, over, late, outrun, found, task, unbound>>
  PROVE  CallsInv'
<1> USE DEF CallsInv
<1>1. LiveIsClaimed' /\ LedHome'
  BY NobodyEnters DEF Created
<1>2. cmds' \in Seq(Command) /\ answer' \in {"none", "ok", "error"} /\ CallOrder' /\ RefusedIsOut'
  BY TakenKeepsRefused
<1>3. TaskIsOpen'
  BY NoTask
<1> QED
  BY <1>1, <1>2, <1>3 DEF CallsTypeOK

\* The command that is taken
LEMMA CommandTaken ==
  ASSUME CallsInv, NEW type, TakeCommand(type)
  PROVE  /\ cmds # <<>> /\ ShardFree /\ Head(cmds) \in Command /\ Head(cmds).type = type
         /\ Head(cmds).user \in Users /\ Head(cmds) = cmds[1] /\ 1 \in DOMAIN cmds
BY First DEF CallsInv, CallsTypeOK, TakeCommand, Command

\* One user enters a room through the list.
LEMMA EntryInv ==
  ASSUME CallsInv, RoomsInv', NEW r \in RoomIds, NEW u \in Users,
         NEW role \in {"white", "black", "viewer"}, Enter(r, u, role),
         1 \in DOMAIN cmds, Enters(cmds[1]), u = cmds[1].user, ShardFree,
         StartTask("command", {u}),
         UNCHANGED <<call, answer, cmds, home, found, over, late, outrun>>
  PROVE  CallsInv'
<1> USE DEF CallsInv
<1>1. /\ \A q \in RoomIds, v \in Users : members'[q][v] = IF q = r /\ v = u THEN role ELSE members[q][v]
      /\ Created' = Created \cup {r}
  BY EnterMembers DEF RoomsInv
<1>2. \A v \in Users : userRoom'[v] = IF v = u THEN r ELSE userRoom[v]
  BY DEF Enter, RoomsInv, RoomsTypeOK
<1>3. InRoom(u)'
  BY <1>2, RoomsAssumption DEF InRoom, RoomIds
<1> DEFINE us == {u}
<1>4. us \in SUBSET Users /\ StartTask(task', us) /\ task' = "command" /\ us = {cmds[1].user}
  BY DEF StartTask
<1>5. \A v \in us : v = cmds[1].user /\ v = u
  OBVIOUS
<1>6. \A v \in Users : v \notin us => v # u
  OBVIOUS
<1> HIDE DEF us
<1>7. \A q \in RoomIds, v \in Users : v \notin us => members'[q][v] = members[q][v]
  BY <1>1, <1>6
<1>8. \A v \in Users : v \notin us => userRoom'[v] = userRoom[v]
  BY <1>2, <1>6
<1>9. \A v \in us : InRoom(v)'
  BY <1>3, <1>5 DEF InRoom
<1>10. Created \subseteq Created' /\ found' \in Seq(Pairs)
  BY <1>1 DEF CallsTypeOK
<1> QED
  BY <1>4, <1>5, <1>7, <1>8, <1>9, <1>10, TaskBegins

\* room_create
LEMMA HandleCreateInv == ASSUME CallsInv, HandleCreate PROVE CallsInv'
<1> USE DEF CallsInv
<1> DEFINE u == Head(cmds).user
<1>1. /\ TakeCommand("create") /\ UNCHANGED <<call, home, found, over, late, outrun>>
      /\ \/ CreateRoom(u) /\ StartTask("command", {u}) /\ UNCHANGED <<cmds, answer>>
         \/ Done("error") /\ UNCHANGED <<members, presence, userRoom, task, unbound, claimed>>
  BY DEF HandleCreate, gameVars, historyVars, roomVars
<1>2. /\ cmds # <<>> /\ ShardFree /\ Head(cmds).type = "create" /\ u \in Users
      /\ Head(cmds) = cmds[1] /\ 1 \in DOMAIN cmds
  BY <1>1, CommandTaken
<1> HIDE DEF u
<1>3. CASE CreateRoom(u) /\ StartTask("command", {u}) /\ UNCHANGED <<cmds, answer>>
  <2>1. RoomsInv' /\ FreshRoom \in RoomIds /\ Enter(FreshRoom, u, "white")
    BY <1>2, <1>3, CreateRoomKeepsBooks DEF CreateRoom, RoomLeft
  <2>2. Enters(cmds[1]) /\ u = cmds[1].user
    BY <1>2 DEF Enters, u
  <2> QED
    BY <1>1, <1>2, <1>3, <2>1, <2>2, EntryInv
<1>4. CASE Done("error") /\ UNCHANGED <<members, presence, userRoom, task, unbound, claimed>>
  <2>1. RoomsInv'
    BY <1>4, OtherStepsKeepBooks DEF RoomsInv, RoomsTypeOK
  <2> QED
    BY <1>1, <1>2, <1>4, <2>1, CommandDone DEF InRoom, Members, Players
<1> QED
  BY <1>1, <1>3, <1>4

\* room_join
LEMMA HandleJoinInv == ASSUME CallsInv, HandleJoin PROVE CallsInv'
<1> USE DEF CallsInv
<1> DEFINE u == Head(cmds).user
           r == Head(cmds).room
           role == JoinRole(r)
<1>1. /\ TakeCommand("join") /\ UNCHANGED <<call, home, found, over, late, outrun>>
      /\ \/ JoinRoom(r, u) /\ StartTask("command", {u}) /\ UNCHANGED <<cmds, answer>>
         \/ Done("error") /\ UNCHANGED <<members, presence, userRoom, task, unbound, claimed>>
  BY DEF HandleJoin, gameVars, historyVars, roomVars
<1>2. /\ cmds # <<>> /\ ShardFree /\ Head(cmds).type = "join" /\ u \in Users
      /\ Head(cmds) = cmds[1] /\ 1 \in DOMAIN cmds
  BY <1>1, CommandTaken
<1>3. Enters(cmds[1]) /\ u = cmds[1].user
  BY <1>2 DEF Enters
<1> HIDE DEF u, r, role
<1>4. CASE JoinRoom(r, u) /\ StartTask("command", {u}) /\ UNCHANGED <<cmds, answer>>
  <2>1. r \in RoomIds /\ Enter(r, u, role)
    BY <1>4 DEF JoinRoom, CanJoin, Created, role
  <2>2. RoomsInv'
    BY <1>2, <1>4, <2>1, JoinRoomKeepsBooks
  <2>3. role \in {"white", "black", "viewer"}
    BY DEF role, JoinRole
  <2> QED
    BY <1>1, <1>2, <1>3, <1>4, <2>1, <2>2, <2>3, EntryInv
<1>5. CASE Done("error") /\ UNCHANGED <<members, presence, userRoom, task, unbound, claimed>>
  <2>1. RoomsInv'
    BY <1>5, OtherStepsKeepBooks DEF RoomsInv, RoomsTypeOK
  <2> QED
    BY <1>1, <1>2, <1>5, <2>1, CommandDone DEF InRoom, Members, Players
<1> QED
  BY <1>1, <1>4, <1>5

\* create_match
LEMMA HandleCreateMatchInv == ASSUME CallsInv, CallersInv, HandleCreateMatch PROVE CallsInv'
<1> USE DEF CallsInv
<1>1. /\ found # <<>> /\ found \in Seq(Pairs) /\ found' = Tail(found) /\ ShardFree
      /\ UNCHANGED <<call, answer, cmds, home, over, late>>
  BY DEF HandleCreateMatch, CallsTypeOK, gatewayVars, gameVars
<1>2. Head(found) \in Pairs /\ found' \in Seq(Pairs)
  BY <1>1
<1>3. PICK a \in Users, b \in Users : a = Head(found)[1] /\ b = Head(found)[2] /\ a # b
  BY <1>2 DEF Pairs
<1>4. CASE /\ CreateMatchedRoom(a, b) /\ StartTask("match", {a, b})
           /\ outrun' = outrun \cup {u \in {a, b} : ~ online[u] \/ ~ NoNewsOf(u)}
  <2> DEFINE r == FreshRoom
             us == {a, b}
  <2>1. RoomsInv' /\ r \in RoomIds /\ r \notin Created
    BY <1>3, <1>4, CreateMatchedRoomKeepsBooks, FreshIsNew DEF CreateMatchedRoom
  <2>2. /\ members' = [members EXCEPT ![r] = [@ EXCEPT ![a] = "white", ![b] = "black"]]
        /\ userRoom' = [userRoom EXCEPT ![a] = r, ![b] = r]
    BY <1>4 DEF CreateMatchedRoom
  <2> HIDE DEF r
  <2>3. /\ \A q \in RoomIds, v \in Users : v \notin us => members'[q][v] = members[q][v]
        /\ \A v \in Users : v \notin us => userRoom'[v] = userRoom[v]
        /\ \A v \in us : userRoom'[v] = r /\ v \in Users
        /\ \A q \in RoomIds : q # r => members'[q] = members[q]
    BY <2>1, <2>2 DEF RoomsInv, RoomsTypeOK
  <2>4. \A v \in us : InRoom(v)'
    BY <2>1, <2>3, RoomsAssumption DEF InRoom, RoomIds
  <2>5. Created \subseteq Created'
    BY <2>1, <2>3 DEF Created, Members
  <2>6. \A v \in us : v \in outrun' \/ (call.type = "reconnect" => call.user # v)
    <3>1. \A v \in us : online[v] \/ v \in outrun'
      BY <1>4
    <3>2. call.type = "reconnect" => ~ online[call.user]
      BY DEF CallersInv
    <3> QED
      BY <3>1, <3>2
  <2>7. us \in SUBSET Users /\ StartTask(task', us) /\ task' = "match" /\ outrun \subseteq outrun'
    BY <1>4 DEF StartTask
  <2> HIDE DEF us
  <2> QED
    BY <1>1, <1>2, <2>1, <2>3, <2>4, <2>5, <2>6, <2>7, TaskBegins
<1>5. CASE UNCHANGED <<members, presence, userRoom, task, unbound, claimed, outrun>>
  <2>1. RoomsInv' /\ LiveIsClaimed' /\ LedHome'
    BY <1>1, <1>5, OtherStepsKeepBooks, NobodyEnters DEF RoomsInv, RoomsTypeOK, Created, Members, Players
  <2>2. TaskIsOpen'
    BY <1>1, <1>5, NoTask
  <2> QED
    BY <1>1, <1>2, <1>5, <2>1, <2>2, CallsStay DEF CallsTypeOK, InRoom
<1> QED
  BY <1>3, <1>4, <1>5 DEF HandleCreateMatch, roomVars

\* A binding, and the answer after the last of a command's
LEMMA BindNextInv == ASSUME CallsInv, NEW u \in Users, BindNext(u) PROVE CallsInv'
<1> USE DEF CallsInv
<1>1. /\ u \in unbound /\ home' = [home EXCEPT ![u] = userRoom[u]]
      /\ unbound' = unbound \ {u}
      /\ task' = IF unbound = {u} THEN "none" ELSE task
      /\ IF task = "command" THEN Done("ok") ELSE UNCHANGED <<cmds, answer>>
      /\ UNCHANGED <<members, presence, userRoom, call, found, claimed, over, late, outrun>>
  BY DEF BindNext, Bind, roomVars, gameVars, historyVars
<1>2. userRoom[u] \in RoomIds /\ home' \in [Users -> RoomIds \cup {NoRoom}]
  BY <1>1 DEF TaskIsOpen, InRoom, RoomsInv, RoomsTypeOK, CallsTypeOK
<1>3. RoomsInv'
  BY <1>1, OtherStepsKeepBooks DEF RoomsInv, RoomsTypeOK
<1>4. LiveIsClaimed'
  BY <1>1 DEF LiveIsClaimed, Created, Members
<1>5. LedHome'
  <2> SUFFICES ASSUME NEW r \in RoomIds, NEW v \in Users, Unfinished(r, v),
                      v \notin unbound' \cup outrun, <<v, "reconnect">> \notin late
               PROVE  home'[v] = r
    BY <1>1 DEF LedHome, Unfinished, Players
  <2>1. CASE v = u
    <3>1. u \in Members(r)
      BY <2>1 DEF Unfinished, Players, Members
    <3>2. userRoom[u] = r
      BY <3>1 DEF RoomsInv, MembershipAgrees
    <3> QED
      BY <1>1, <2>1, <3>2 DEF CallsTypeOK
  <2>2. CASE v # u
    <3>1. v \notin unbound
      BY <1>1, <2>2
    <3> QED
      BY <1>1, <2>2, <3>1 DEF LedHome, CallsTypeOK
  <2> QED
    BY <2>1, <2>2
<1>6. /\ cmds' \in Seq(Command) /\ answer' \in {"none", "ok", "error"}
      /\ CallOrder' /\ RefusedIsOut'
  <2>1. CASE task = "command"
    <3>1. 1 \in DOMAIN cmds /\ Enters(cmds[1]) /\ cmds # <<>>
      <4>1. 1 \in DOMAIN cmds /\ Enters(cmds[1])
        BY <2>1 DEF TaskIsOpen
      <4> QED
        BY <4>1
    <3>2. Head(cmds).type # "reconnect"
      BY <3>1, First DEF CallsTypeOK, Enters
    <3> QED
      BY <1>1, <2>1, <3>1, <3>2, TakenKeepsRefused DEF InRoom
  <2>2. CASE task # "command"
    BY <1>1, <1>2, <2>2, CallsStay DEF CallsTypeOK, InRoom
  <2> QED
    BY <2>1, <2>2
<1>7. CallsTypeOK'
  BY <1>1, <1>2, <1>6 DEF CallsTypeOK
<1>8. TaskIsOpen'
  <2>1. CASE task = "command"
    BY <1>1, <2>1 DEF TaskIsOpen
  <2>2. CASE task # "command"
    BY <1>1, <2>2 DEF TaskIsOpen, InRoom
  <2> QED
    BY <2>1, <2>2
<1> QED
  BY <1>3, <1>4, <1>5, <1>6, <1>7, <1>8

\* player_reconnect
LEMMA HandleReconnectInv == ASSUME CallsInv, HandleReconnect PROVE CallsInv'
<1> USE DEF CallsInv
<1> DEFINE u == Head(cmds).user
           result == IF InRoom(u) THEN "ok" ELSE "error"
<1>1. /\ TakeCommand("reconnect") /\ UNCHANGED <<call, home, claimed, over, late, outrun, found, task, unbound>>
      /\ Reconnect(u) /\ Done(result)
  BY DEF HandleReconnect, directoryVars, gameVars, historyVars, shardVars
<1>2. u \in Users /\ cmds # <<>> /\ ShardFree
  BY <1>1, CommandTaken
<1> HIDE DEF u
<1>3. RoomsInv' /\ UNCHANGED <<members, userRoom>>
  BY <1>1, <1>2, ReconnectKeepsBooks DEF Reconnect, roomVars
<1>4. result \in {"ok", "error"} /\ (result = "ok" \/ userRoom'[u] = NoRoom)
  BY <1>3 DEF InRoom
<1> HIDE DEF result
<1> QED
  BY <1>1, <1>2, <1>3, <1>4, CommandDone DEF InRoom, Members, Players, u

\* Who is marked as gone leaves his room at most, and that as a viewer.
LEMMA MarkedRoom ==
  ASSUME RoomsInv, NEW u \in Users, MarkDisconnected(u)
  PROVE  /\ \A v \in Users : InRoom(v)' => InRoom(v)
         /\ \A r \in RoomIds : Players(r)' \subseteq Players(r) /\ Members(r)' \subseteq Members(r)
<1>1. CASE UNCHANGED <<members, userRoom>>
  BY <1>1 DEF InRoom, Players, Members
<1>2. CASE /\ members' = [members EXCEPT ![userRoom[u]][u] = "none"]
           /\ userRoom' = [userRoom EXCEPT ![u] = NoRoom]
  BY <1>2 DEF InRoom, Players, Members, RoomsInv, RoomsTypeOK
<1> QED
  BY <1>1, <1>2 DEF MarkDisconnected, roomVars

\* player_disconnected
LEMMA HandleDisconnectedInv == ASSUME CallsInv, HandleDisconnected PROVE CallsInv'
<1> DEFINE u == Head(cmds).user
<1>1. /\ TakeCommand("disconnected") /\ UNCHANGED <<call, home, claimed, over, late, outrun, found, task, unbound>>
      /\ MarkDisconnected(u) /\ Done("ok")
  BY DEF HandleDisconnected, directoryVars, gameVars, historyVars, shardVars
<1>2. u \in Users /\ cmds # <<>> /\ ShardFree /\ Head(cmds).type # "reconnect"
  BY <1>1, CommandTaken
<1> HIDE DEF u
<1>3. RoomsInv'
  BY <1>1, <1>2, MarkDisconnectedKeepsBooks DEF CallsInv
<1> QED
  BY <1>1, <1>2, <1>3, MarkedRoom, CommandDone DEF CallsInv

-----------------------------------------------------------------------------
\* The runtime's steps.

\* The players of the games that are over are in no other room.
LEMMA FinishInv ==
  ASSUME CallsInv, RoomsInv', NEW R \in SUBSET RoomIds, Finish(R),
         ShardFree, UNCHANGED <<members, userRoom, call, answer, cmds, late, outrun, found, task, unbound>>
  PROVE  CallsInv'
<1> USE DEF CallsInv
<1> DEFINE done == {r \in R : TwoPlayers(r)}
<1>1. /\ over' = over \cup R /\ claimed' = claimed \ done /\ done \subseteq R
      /\ home' = [v \in Users |-> IF \E r \in done : v \in Players(r) THEN NoRoom ELSE home[v]]
  BY DEF Finish
<1> HIDE DEF done
<1>2. CallsTypeOK' /\ CallOrder' /\ RefusedIsOut'
  <2>1. home' \in [Users -> RoomIds \cup {NoRoom}]
    BY <1>1 DEF CallsTypeOK
  <2> QED
    BY <2>1, CallsStay DEF InRoom, CallsTypeOK
<1>3. LiveIsClaimed'
  BY <1>1 DEF LiveIsClaimed, Created, Members
<1>4. ASSUME NEW q \in RoomIds, NEW v \in Users, Unfinished(q, v)',
             v \notin unbound \cup outrun, <<v, "reconnect">> \notin late
      PROVE  home'[v] = q
  <2>1. v \in Players(q) /\ q \notin over /\ q \notin R
    BY <1>1, <1>4 DEF Unfinished, Players
  <2>2. home[v] = q
    BY <1>4, <2>1 DEF LedHome, Unfinished
  <2>3. \A r \in RoomIds : v \in Players(r) => r = q
    <3>1. \A r \in RoomIds : v \in Players(r) => v \in Members(r)
      BY DEF Players, Members
    <3> QED
      BY <2>1, <3>1 DEF RoomsInv, MembershipAgrees
  <2>4. ~ \E r \in done : v \in Players(r)
    BY <1>1, <2>1, <2>3
  <2> QED
    BY <1>1, <2>2, <2>4
<1>5. LedHome'
  BY <1>4 DEF LedHome
<1>6. TaskIsOpen'
  BY NoTask
<1> QED
  BY <1>2, <1>3, <1>5, <1>6

\* A game ends, or is rated late.
LEMMA GameEndsInv ==
  ASSUME CallsInv, NEW r \in RoomIds, GameEnds(r) \/ RateLater(r)
  PROVE  CallsInv'
<1>1. /\ Finish({r}) /\ {r} \in SUBSET RoomIds /\ ShardFree
      /\ UNCHANGED <<members, presence, userRoom, call, answer, cmds, late, outrun, found, task, unbound>>
  BY DEF GameEnds, RateLater, roomVars, gatewayVars, historyVars, shardVars
<1>2. RoomsInv'
  BY <1>1, OtherStepsKeepBooks DEF CallsInv, RoomsInv, RoomsTypeOK
<1> QED
  BY <1>1, <1>2, FinishInv

\* Time passes a deadline.
LEMMA DeadlinePassesInv ==
  ASSUME CallsInv, NEW r \in RoomIds, NEW u \in Users, DeadlinePasses(r, u)
  PROVE  CallsInv'
<1>1. /\ UNCHANGED <<members, userRoom, call, answer, cmds, home, claimed, over, late, outrun>>
      /\ UNCHANGED <<found, task, unbound>>
  BY DEF DeadlinePasses, GraceRunsOut, gatewayVars, directoryVars, gameVars, historyVars, shardVars
<1>2. RoomsInv'
  BY DeadlinesKeepBooks DEF CallsInv, DeadlinePasses
<1>3. LiveIsClaimed' /\ LedHome'
  BY <1>1, NobodyEnters DEF Created, Members, Players
<1>4. TaskIsOpen'
  BY <1>1, TaskStays DEF InRoom
<1> QED
  BY <1>1, <1>2, <1>3, <1>4, CallsStay DEF CallsInv, CallsTypeOK, InRoom

\* The games of those past their deadline are over.
LEMMA GracePassInv == ASSUME CallsInv, GracePass PROVE CallsInv'
<1> DEFINE R == {e[1] : e \in ExpiredDisconnects} \ over
<1>1. /\ Finish(R) /\ ShardFree
      /\ UNCHANGED <<members, userRoom, call, answer, cmds, late, outrun, found, task, unbound>>
      /\ presence' \in [RoomIds -> [Users -> Presences]]
  BY DEF GracePass, gatewayVars, historyVars, shardVars, CallsInv, RoomsInv, RoomsTypeOK, Presences
<1>2. R \in SUBSET RoomIds
  BY DEF ExpiredDisconnects
<1> HIDE DEF R
<1>3. RoomsInv'
  BY <1>1, OtherStepsKeepBooks DEF CallsInv
<1> QED
  BY <1>1, <1>2, <1>3, FinishInv

-----------------------------------------------------------------------------
\* The gateway asks one thing at a time, and no socket ends or begins meanwhile.
LEMMA CallersNext == CallsInv /\ CallersInv /\ [Next]_vars => CallersInv'
<1> SUFFICES ASSUME CallsInv, CallersInv, [Next]_vars PROVE CallersInv'
  OBVIOUS
<1> USE DEF CallersInv
<1>1. CASE UNCHANGED <<online, call>>
  BY <1>1
<1>2. ASSUME NEW type \in Calls, NEW u \in Users, NEW r, CallShard(type, u, r),
             type = "reconnect" <=> ~ online[u], online' = online
      PROVE  CallersInv'
  <2>1. call'.type = type /\ call'.user = u
    BY <1>2 DEF CallShard
  <2> QED
    BY <1>2, <2>1
<1>3. ASSUME NEW u \in Users, LogIn(u) \/ Create(u) \/ Leave(u) PROVE CallersInv'
  <2>1. CASE Create(u)
    BY <1>2, <2>1 DEF Create, Calls
  <2>2. CASE LogIn(u)
    <3>1. CASE CallShard("reconnect", u, home[u]) /\ online' = online
      BY <1>2, <2>2, <3>1 DEF LogIn, Calls
    <3>2. CASE GatewayFree /\ call' = call /\ online' = [online EXCEPT ![u] = TRUE]
      BY <3>2 DEF GatewayFree, NoCall
    <3> QED
      BY <2>2, <3>1, <3>2 DEF LogIn
  <2>3. CASE Leave(u)
    BY <2>3 DEF Leave, GatewayFree, NoCall
  <2> QED
    BY <1>3, <2>1, <2>2, <2>3
<1>4. ASSUME NEW u \in Users, NEW r \in RoomIds, Join(u, r) PROVE CallersInv'
  BY <1>2, <1>4 DEF Join, Calls
<1>5. CASE Return
  <2>1. call' = NoCall /\ online' \in [Users -> BOOLEAN]
    BY <1>5 DEF Return
  <2> QED
    BY <2>1 DEF NoCall
<1>6. CASE Gateway
  <2>1. TimesOut => UNCHANGED <<online, call>>
    BY DEF TimesOut
  <2>2. \A u \in Users : TellDisconnected(u) => UNCHANGED <<online, call>>
    BY DEF TellDisconnected
  <2> QED
    BY <1>1, <1>3, <1>4, <1>5, <1>6, <2>1, <2>2 DEF Gateway
<1>7. CASE Shard \/ Runtime \/ (\E a, b \in Users : Match(a, b)) \/ UNCHANGED vars
  <2>1. CommandLoop \/ HandleCreateMatch => UNCHANGED <<online, call>>
    BY DEF CommandLoop, HandleCreate, HandleJoin, HandleReconnect, HandleDisconnected,
           HandleCreateMatch, gatewayVars
  <2>2. \A u \in Users : BindNext(u) => UNCHANGED <<online, call>>
    BY DEF BindNext
  <2>3. Runtime => UNCHANGED <<online, call>>
    BY DEF Runtime, GracePass, GameEnds, RateLater, DeadlinePasses, gatewayVars
  <2>4. \A a, b \in Users : Match(a, b) => UNCHANGED <<online, call>>
    BY DEF Match, gatewayVars
  <2>5. UNCHANGED vars => UNCHANGED <<online, call>>
    BY DEF vars, gatewayVars
  <2> QED
    BY <1>1, <1>7, <2>1, <2>2, <2>3, <2>4, <2>5 DEF Shard
<1> QED
  BY <1>6, <1>7 DEF Next

\* At first nothing is under way.
LEMMA CallsInitially == Init => CallsInv /\ CallersInv
<1> SUFFICES ASSUME Init PROVE CallsInv /\ CallersInv
  OBVIOUS
<1>1. RoomsInv
  BY RoomsInitially DEF Init
<1>2. \A r \in RoomIds : Members(r) = {} /\ Players(r) = {}
  BY DEF Init, RoomsInit, Members, Players
<1>3. CallsTypeOK /\ CallOrder /\ RefusedIsOut /\ TaskIsOpen
  BY DEF Init, CallsTypeOK, CallOrder, RefusedIsOut, TaskIsOpen
<1>4. LiveIsClaimed /\ LedHome
  BY <1>2 DEF LiveIsClaimed, LedHome, Created, Unfinished
<1>5. CallersInv
  BY DEF Init, CallersInv, NoCall
<1> QED
  BY <1>1, <1>3, <1>4, <1>5 DEF CallsInv

\* Every step keeps the invariant.
LEMMA CallsNext == CallsInv /\ CallersInv /\ [Next]_vars => CallsInv'
<1> SUFFICES ASSUME CallsInv, CallersInv, [Next]_vars PROVE CallsInv'
  OBVIOUS
<1>1. ASSUME NEW u \in Users, LogIn(u) \/ Create(u) \/ Leave(u) \/ TellDisconnected(u)
      PROVE  CallsInv'
  <2>1. CASE Create(u)
    BY <2>1, CallShardInv DEF Create, Calls
  <2> QED
    BY <1>1, <2>1, LogInInv, LeaveInv, TellDisconnectedInv
<1>2. ASSUME NEW u \in Users, NEW r \in RoomIds, Join(u, r) PROVE CallsInv'
  BY <1>2, CallShardInv DEF Join, Calls
<1>3. CASE Gateway
  BY <1>1, <1>2, <1>3, ReturnInv, TimesOutInv DEF Gateway
<1>4. CASE Shard \/ \E a, b \in Users : Match(a, b)
  BY <1>4, HandleCreateInv, HandleJoinInv, HandleReconnectInv, HandleDisconnectedInv,
     HandleCreateMatchInv, BindNextInv, MatchInv DEF Shard, CommandLoop
<1>5. CASE Runtime
  BY <1>5, GracePassInv, GameEndsInv, DeadlinePassesInv DEF Runtime
<1>6. CASE UNCHANGED vars
  <2>1. /\ UNCHANGED <<members, presence, userRoom, call, answer, cmds, home, claimed, over, late, outrun>>
        /\ UNCHANGED <<found, task, unbound>>
    BY <1>6 DEF vars, roomVars, gatewayVars, directoryVars, gameVars, historyVars, shardVars
  <2>2. RoomsInv' /\ LiveIsClaimed' /\ LedHome'
    BY <2>1, OtherStepsKeepBooks, NobodyEnters
    DEF CallsInv, RoomsInv, RoomsTypeOK, Created, Members, Players
  <2>3. TaskIsOpen'
    BY <2>1, TaskStays DEF InRoom
  <2> QED
    BY <2>1, <2>2, <2>3, CallsStay DEF CallsInv, CallsTypeOK, InRoom
<1> QED
  BY <1>3, <1>4, <1>5, <1>6 DEF Next

\* While a game goes on the directory leads each of its players to it from his binding
\* on, unless a login of his has timed out or a match took him by surprise, whatever
\* else timed out or was carried out late.
THEOREM DirectoryIsRight == Spec => []DirectoryLeadsHome
<1>1. Spec => [](CallsInv /\ CallersInv)
  BY CallsInitially, CallsNext, CallersNext, PTL DEF Spec
<1>2. CallsInv => DirectoryLeadsHome
  BY DEF CallsInv, DirectoryLeadsHome, LedHome, LiveIsClaimed, Unfinished, Created, Members, Players
<1> QED
  BY <1>1, <1>2, PTL

\* The shard's rooms and its users agree, whatever the list brings.
THEOREM ShardBooksAgree == Spec => []MembershipAgrees
<1>1. Spec => [](CallsInv /\ CallersInv)
  BY CallsInitially, CallsNext, CallersNext, PTL DEF Spec
<1>2. CallsInv => MembershipAgrees
  BY DEF CallsInv, RoomsInv
<1> QED
  BY <1>1, <1>2, PTL
-----------------------------------------------------------------------------
(***************************************************************************)
(* The shard learns who is there from the order of its list alone.  For    *)
(* any numbers of users, rooms, commands and timeouts: whoever has a       *)
(* socket is present to the shard, whatever went before, and whoever has   *)
(* none is absent to it or will be, by news that is still on its way; save *)
(* those whose own call timed out, whose login overtook old news, or whom  *)
(* a match took by surprise.                                               *)
(*                                                                         *)
(* A socket is bound only after the shard has answered the login, and the  *)
(* answer says that all the news put into the list before the login has    *)
(* been taken out of it (NewsIsBefore).  Who has left is told of only if   *)
(* the directory leads to his shard, and it does once he is bound; who is  *)
(* in a room and not yet bound has not left (UnboundAreThere).             *)
(***************************************************************************)

Clean(u) == ~ TimedOut(u) /\ u \notin overtaken \cup outrun

\* The user has a socket, or will be given one when the call returns.
Present(u) == online[u] \/ (call.type = "reconnect" /\ call.user = u /\ answer # "none")

\* A call that nobody waits for any more has timed out; one that is waited for is
\* in the list.
CallsAreListed ==
  /\ \A i \in DOMAIN cmds : cmds[i].type # "disconnected" /\ ~ cmds[i].asked => TimedOut(cmds[i].user)
  /\ call # NoCall /\ answer = "none" => \E i \in DOMAIN cmds : cmds[i].asked

\* News of a disconnect behind a call of the same user is overtaken.
NewsIsBefore ==
  \A i, j \in DOMAIN cmds :
    cmds[i].asked /\ i < j /\ cmds[j].user = cmds[i].user => cmds[j].user \in overtaken

PresentIsKnown ==
  \A r \in RoomIds, u \in Users :
    Present(u) /\ Clean(u) /\ Unfinished(r, u) => presence[r][u] = "connected" /\ NoNewsOf(u)

AbsentIsTold ==
  \A r \in RoomIds, u \in Users :
    ~ online[u] /\ call.user # u /\ Clean(u) /\ Unfinished(r, u) =>
      presence[r][u] # "connected" \/ leaving[u] > 0 \/ ~ NoNewsOf(u)

UnboundAreThere == \A u \in unbound : Clean(u) => online[u]

PresenceInv ==
  /\ CallersInv
  /\ leaving \in [Users -> Nat]
  /\ CallsAreListed /\ NewsIsBefore
  /\ PresentIsKnown /\ AbsentIsTold /\ UnboundAreThere

-----------------------------------------------------------------------------
\* Steps of the shard's runtime: games end, deadlines pass and are cleared.
LEMMA RuntimePresence ==
  ASSUME PresenceInv, CallersInv', UNCHANGED <<gatewayVars, cmds, historyVars>>, unbound' \subseteq unbound,
         \A r \in RoomIds, u \in Users : Unfinished(r, u)' => Unfinished(r, u),
         \A r \in RoomIds, u \in Users : presence'[r][u] = "connected" <=> presence[r][u] = "connected"
  PROVE  PresenceInv'
<1>1. UNCHANGED <<online, leaving, call, answer, cmds, late, overtaken, outrun>>
  BY DEF gatewayVars, historyVars
<1>2. CallsAreListed' /\ NewsIsBefore'
  BY <1>1 DEF PresenceInv, CallsAreListed, NewsIsBefore, TimedOut
<1>3. \A u \in Users : (Present(u)' <=> Present(u)) /\ (Clean(u)' <=> Clean(u)) /\ (NoNewsOf(u)' <=> NoNewsOf(u))
  BY <1>1 DEF Present, Clean, NoNewsOf, TimedOut
<1>4. PresentIsKnown' /\ AbsentIsTold' /\ UnboundAreThere'
  <2>1. PresentIsKnown' /\ AbsentIsTold'
    BY <1>1, <1>3 DEF PresenceInv, PresentIsKnown, AbsentIsTold
  <2>2. UnboundAreThere'
    BY <1>1 DEF PresenceInv, UnboundAreThere, Clean, TimedOut
  <2> QED
    BY <2>1, <2>2
<1> QED
  BY <1>1, <1>2, <1>4 DEF PresenceInv

\* A pass over the deadlines, the end of a game, a late rating, a deadline
LEMMA RuntimeStepPresence ==
  ASSUME CallsInv, PresenceInv, CallersInv', Runtime
  PROVE  PresenceInv'
<1>1. ASSUME NEW R, Finish(R), members' = members
      PROVE  \A r \in RoomIds, u \in Users : Unfinished(r, u)' => Unfinished(r, u)
  BY <1>1 DEF Finish, Unfinished, Players
<1>2. CASE GracePass
  <2>1. \A r \in RoomIds, u \in Users : presence'[r][u] = "connected" <=> presence[r][u] = "connected"
    BY <1>2 DEF GracePass, ExpiredDisconnects
  <2> QED
    BY <1>1, <1>2, <2>1, RuntimePresence DEF GracePass, shardVars
<1>3. ASSUME NEW r \in RoomIds, GameEnds(r) \/ RateLater(r) PROVE PresenceInv'
  <2>1. /\ Finish({r}) /\ members' = members /\ presence' = presence
        /\ UNCHANGED <<gatewayVars, cmds, historyVars>> /\ unbound' = unbound
    BY <1>3 DEF GameEnds, RateLater, roomVars, shardVars
  <2> QED
    BY <1>1, <2>1, RuntimePresence
<1>4. ASSUME NEW r \in RoomIds, NEW u \in Users, DeadlinePasses(r, u) PROVE PresenceInv'
  <2>1. /\ members' = members /\ over' = over
        /\ UNCHANGED <<gatewayVars, cmds, historyVars>> /\ unbound' = unbound
        /\ \A q \in RoomIds, v \in Users : presence'[q][v] = "connected" <=> presence[q][v] = "connected"
    BY <1>4 DEF DeadlinePasses, GraceRunsOut, gameVars, shardVars, CallsInv, RoomsInv, RoomsTypeOK
  <2> QED
    BY <2>1, RuntimePresence DEF Unfinished, Players
<1> QED
  BY <1>2, <1>3, <1>4 DEF Runtime

-----------------------------------------------------------------------------
\* The gateway's steps.

\* A call is put behind all the news there is.
LEMMA CallShardPresence ==
  ASSUME CallsInv, PresenceInv, CallersInv', NEW type \in Calls, NEW u \in Users, NEW r \in RoomIds \cup {NoRoom},
         CallShard(type, u, r), type = "reconnect" <=> ~ online[u],
         UNCHANGED <<roomVars, online, answer, leaving, shardVars, gameVars, historyVars>>
  PROVE  PresenceInv'
<1> DEFINE c == [type |-> type, user |-> u, room |-> r, asked |-> TRUE]
<1>1. /\ c \in Command /\ c.type = type /\ c.user = u /\ c.asked
      /\ cmds' = Append(cmds, c) /\ call' = [type |-> type, user |-> u]
      /\ call = NoCall /\ answer = "none" /\ cmds \in Seq(Command)
      /\ type \in {"reconnect", "create", "join"}
  BY DEF CallShard, Command, GatewayFree, CallsInv, CallOrder, CallsTypeOK, Calls
<1> HIDE DEF c
<1>2. /\ \A i \in DOMAIN cmds' : (i \in DOMAIN cmds /\ cmds'[i] = cmds[i]) \/ (cmds'[i] = c /\ i = Len(cmds) + 1)
      /\ \A i \in DOMAIN cmds : i \in DOMAIN cmds' /\ cmds'[i] = cmds[i] /\ i < Len(cmds) + 1
      /\ Len(cmds) + 1 \in DOMAIN cmds' /\ cmds'[Len(cmds) + 1] = c
      /\ Len(cmds) \in Nat /\ DOMAIN cmds \subseteq Nat
  BY <1>1 DEF Command
<1>3. UNCHANGED <<members, presence, over, late, overtaken, outrun, unbound>>
  BY DEF roomVars, gameVars, historyVars, shardVars
<1>4. \A i \in DOMAIN cmds : ~ cmds[i].asked
  <2> SUFFICES ASSUME NEW i \in DOMAIN cmds, cmds[i].asked PROVE FALSE
    OBVIOUS
  <2>1. cmds[i] \in Command
    BY <1>1, <1>2
  <2>2. call.user = cmds[i].user
    BY DEF CallsInv, CallOrder
  <2> QED
    BY <1>1, <2>1, <2>2, CallsAssumption DEF NoCall, Command
<1>5. UnboundAreThere'
  BY <1>3 DEF PresenceInv, UnboundAreThere, Clean, TimedOut
<1>6. CallsAreListed'
  BY <1>1, <1>2, <1>3 DEF PresenceInv, CallsAreListed, TimedOut
<1>7. NewsIsBefore'
  <2>1. \A i \in DOMAIN cmds' : cmds'[i].asked => i = Len(cmds) + 1
    BY <1>2, <1>4
  <2>2. \A j \in DOMAIN cmds' : j \in Nat /\ j <= Len(cmds) + 1
    BY <1>2
  <2> QED
    BY <1>2, <2>1, <2>2 DEF NewsIsBefore
<1>8. \A v \in Users : /\ Present(v)' => online[v]
                       /\ NoNewsOf(v)' <=> NoNewsOf(v)
                       /\ Clean(v)' <=> Clean(v)
                       /\ call.user # v
  <2>1. call.user \notin Users
    BY <1>1, CallsAssumption DEF NoCall
  <2> QED
    BY <1>1, <1>2, <1>3, <2>1 DEF Present, NoNewsOf, Clean, TimedOut
<1>9. PresentIsKnown' /\ AbsentIsTold'
  BY <1>3, <1>8 DEF PresenceInv, PresentIsKnown, AbsentIsTold, Present, Unfinished, Players
<1> QED
  BY <1>5, <1>6, <1>7, <1>9 DEF PresenceInv

\* A user without a room needs no answer.
LEMMA LogInPresence ==
  ASSUME CallsInv, PresenceInv, CallersInv', NEW u \in Users, LogIn(u)
  PROVE  PresenceInv'
<1>1. CASE home[u] # NoRoom /\ CallShard("reconnect", u, home[u]) /\ UNCHANGED online
  BY <1>1, CallShardPresence DEF LogIn, CallsInv, CallsTypeOK, Calls
<1>2. CASE /\ home[u] = NoRoom \/ home[u] \notin claimed
           /\ online' = [online EXCEPT ![u] = TRUE]
           /\ GatewayFree /\ UNCHANGED <<call, cmds>>
  <2>1. UNCHANGED <<members, presence, call, cmds, answer, leaving, over, late, overtaken, outrun, unbound>>
    BY <1>2 DEF LogIn, roomVars, gameVars, historyVars, shardVars
  <2>2. /\ online' \in [Users -> BOOLEAN]
        /\ \A v \in Users : v # u => online'[v] = online[v]
        /\ online'[u]
    BY <1>2 DEF PresenceInv, CallersInv
  <2>3. CallsAreListed' /\ NewsIsBefore'
    BY <1>2, <2>1 DEF PresenceInv, CallsAreListed, NewsIsBefore, TimedOut, GatewayFree, NoCall
  <2>4. ASSUME NEW q \in RoomIds, Clean(u), Unfinished(q, u) PROVE FALSE
    <3>1. home[u] = q /\ q \in claimed
      <4>1. u \notin unbound \cup outrun
        BY <2>4 DEF LogIn, PresenceInv, UnboundAreThere, Clean
      <4> QED
        BY <2>4, <4>1 DEF CallsInv, LedHome, LiveIsClaimed, Unfinished, Created, Members, Players, Clean, TimedOut, Calls
    <3> QED
      BY <1>2, <3>1, RoomsAssumption DEF RoomIds
  <2>5. \A v \in Users : /\ v # u => (Present(v)' <=> Present(v))
                         /\ NoNewsOf(v)' <=> NoNewsOf(v)
                         /\ Clean(v)' <=> Clean(v)
    BY <2>1, <2>2 DEF Present, NoNewsOf, Clean, TimedOut
  <2>6. PresentIsKnown' /\ AbsentIsTold'
    BY <2>1, <2>2, <2>4, <2>5 DEF PresenceInv, PresentIsKnown, AbsentIsTold, Unfinished, Players
  <2>7. UnboundAreThere'
    BY <2>1, <2>2, <2>5 DEF PresenceInv, UnboundAreThere, CallsInv, CallsTypeOK
  <2> QED
    BY <2>1, <2>2, <2>3, <2>6, <2>7 DEF PresenceInv
<1> QED
  BY <1>1, <1>2 DEF LogIn

\* The call returns, and who was as good as present is.
LEMMA ReturnPresence ==
  ASSUME CallsInv, PresenceInv, CallersInv', Return
  PROVE  PresenceInv'
<1>1. /\ answer # "none" /\ call' = NoCall /\ answer' = "none"
      /\ UNCHANGED <<members, presence, cmds, leaving, over, late, overtaken, outrun, unbound>>
  BY DEF Return, roomVars, gameVars, historyVars, shardVars
<1>2. /\ call \in [type : Calls, user : Users] /\ call.user \in Users
      /\ call.type \in {"reconnect", "create", "join"}
  <2>1. call # NoCall
    BY <1>1 DEF CallsInv, CallOrder
  <2> QED
    BY <2>1 DEF CallsInv, CallsTypeOK, Calls
<1>3. /\ online' \in [Users -> BOOLEAN]
      /\ \A v \in Users : /\ online'[v] => Present(v)
                          /\ online[v] => online'[v]
                          /\ call.user = v => online'[v]
  BY <1>2, <1>1 DEF Return, PresenceInv, Present, CallersInv
<1>4. CallsAreListed' /\ NewsIsBefore'
  BY <1>1 DEF PresenceInv, CallsAreListed, NewsIsBefore, TimedOut, NoCall
<1>5. \A v \in Users : /\ Present(v)' => Present(v)
                       /\ NoNewsOf(v)' <=> NoNewsOf(v)
                       /\ Clean(v)' <=> Clean(v)
  BY <1>1, <1>3 DEF Present, NoNewsOf, Clean, TimedOut, NoCall
<1>6. PresentIsKnown' /\ AbsentIsTold'
  BY <1>1, <1>3, <1>5 DEF PresenceInv, PresentIsKnown, AbsentIsTold, Unfinished, Players
<1>7. UnboundAreThere'
  BY <1>1, <1>3, <1>5 DEF PresenceInv, UnboundAreThere, CallsInv, CallsTypeOK
<1> QED
  BY <1>1, <1>3, <1>4, <1>6, <1>7 DEF PresenceInv

\* Whose call times out is not clean.
LEMMA TimesOutPresence ==
  ASSUME CallsInv, PresenceInv, CallersInv', TimesOut
  PROVE  PresenceInv'
<1>1. /\ call # NoCall /\ answer' = "error"
      /\ cmds' = [i \in DOMAIN cmds |-> [cmds[i] EXCEPT !.asked = FALSE]]
      /\ late' = late \cup {<<call.user, call.type>>}
      /\ UNCHANGED <<members, presence, online, leaving, call, over, overtaken, outrun, unbound>>
  BY DEF TimesOut, roomVars, gameVars, GatewayFree, shardVars
<1>2. call.user \in Users /\ call.type \in Calls
  BY <1>1 DEF CallsInv, CallsTypeOK
<1>3. /\ DOMAIN cmds' = DOMAIN cmds
      /\ \A i \in DOMAIN cmds : /\ cmds'[i].type = cmds[i].type /\ cmds'[i].user = cmds[i].user
                                /\ ~ cmds'[i].asked
  <2>1. \A i \in DOMAIN cmds : cmds[i] \in Command
    BY DEF CallsInv, CallsTypeOK
  <2> QED
    BY <1>1, <2>1 DEF Command
<1>4. TimedOut(call.user)' /\ \A v : TimedOut(v) => TimedOut(v)'
  BY <1>1, <1>2 DEF TimedOut
<1>5. NewsIsBefore'
  BY <1>1, <1>3 DEF PresenceInv, NewsIsBefore
<1>6. CallsAreListed'
  BY <1>1, <1>3, <1>4 DEF PresenceInv, CallsAreListed, CallsInv, CallOrder
<1>7. \A v \in Users : /\ Clean(v)' => Clean(v) /\ v # call.user
                       /\ NoNewsOf(v)' <=> NoNewsOf(v)
  BY <1>1, <1>3, <1>4 DEF Clean, NoNewsOf
<1>8. PresentIsKnown' /\ AbsentIsTold'
  BY <1>1, <1>7 DEF PresenceInv, PresentIsKnown, AbsentIsTold, Present, Unfinished, Players
<1>9. UnboundAreThere'
  BY <1>1, <1>7 DEF PresenceInv, UnboundAreThere, CallsInv, CallsTypeOK
<1> QED
  BY <1>1, <1>5, <1>6, <1>8, <1>9 DEF PresenceInv

\* The end of a socket starts the news, if there is a game it matters to.
LEMMA LeavePresence ==
  ASSUME CallsInv, PresenceInv, CallersInv', NEW u \in Users, Leave(u)
  PROVE  PresenceInv'
<1>1. /\ UNCHANGED <<members, presence, call, answer, cmds, over, late, overtaken, unbound>>
      /\ call = NoCall
      /\ online' = [online EXCEPT ![u] = FALSE]
      /\ outrun \subseteq outrun' /\ (u \in unbound => u \in outrun')
  BY DEF Leave, roomVars, gameVars, shardVars, GatewayFree
<1>2. /\ online' \in [Users -> BOOLEAN] /\ leaving' \in [Users -> Nat]
      /\ ~ online'[u]
      /\ \A v \in Users : v # u => online'[v] = online[v] /\ leaving'[v] = leaving[v]
  BY <1>1 DEF Leave, PresenceInv, CallersInv
<1>3. CallsAreListed' /\ NewsIsBefore'
  BY <1>1 DEF PresenceInv, CallsAreListed, NewsIsBefore, TimedOut, NoCall
<1>4. ASSUME NEW q \in RoomIds, Clean(u)', Unfinished(q, u) PROVE leaving'[u] > 0
  <2>2. ~ TimedOut(u) /\ u \notin unbound \cup outrun
    BY <1>1, <1>4 DEF Clean, TimedOut
  <2>1. home[u] = q /\ q \in claimed /\ q # NoRoom
    BY <1>4, <2>2, RoomsAssumption
    DEF CallsInv, LedHome, LiveIsClaimed, Unfinished, Created, Members, Players, Clean, TimedOut, Calls, RoomIds
  <2> QED
    BY <2>1 DEF Leave, HasShard, PresenceInv
<1>5. \A v \in Users : /\ Present(v)' => v # u /\ Present(v)
                       /\ NoNewsOf(v)' <=> NoNewsOf(v)
                       /\ Clean(v)' => Clean(v)
  BY <1>1, <1>2 DEF Present, NoNewsOf, Clean, TimedOut, NoCall
<1>6. PresentIsKnown' /\ AbsentIsTold'
  BY <1>1, <1>2, <1>4, <1>5 DEF PresenceInv, PresentIsKnown, AbsentIsTold, Unfinished, Players
<1>7. UnboundAreThere'
  BY <1>1, <1>2 DEF PresenceInv, UnboundAreThere, Clean, TimedOut, CallsInv, CallsTypeOK
<1> QED
  BY <1>2, <1>3, <1>6, <1>7 DEF PresenceInv

\* The news goes into the list; if its user is back by now, it was overtaken.
LEMMA TellDisconnectedPresence ==
  ASSUME CallsInv, PresenceInv, CallersInv', NEW u \in Users, TellDisconnected(u)
  PROVE  PresenceInv'
<1> DEFINE c == [type |-> "disconnected", user |-> u, room |-> NoRoom, asked |-> FALSE]
<1>1. /\ UNCHANGED <<members, presence, online, call, answer, over, late, outrun, unbound>>
      /\ cmds' = Append(cmds, c) /\ cmds \in Seq(Command)
      /\ c \in Command /\ c.type = "disconnected" /\ c.user = u /\ ~ c.asked
      /\ overtaken' = IF online[u] \/ call.user = u THEN overtaken \cup {u} ELSE overtaken
  BY DEF TellDisconnected, roomVars, gameVars, shardVars, Command, CallsInv, CallsTypeOK
<1> HIDE DEF c
<1>2. /\ \A i \in DOMAIN cmds' : (i \in DOMAIN cmds /\ cmds'[i] = cmds[i]) \/ (cmds'[i] = c /\ i = Len(cmds) + 1)
      /\ \A i \in DOMAIN cmds : i \in DOMAIN cmds' /\ cmds'[i] = cmds[i] /\ i < Len(cmds) + 1
      /\ Len(cmds) + 1 \in DOMAIN cmds' /\ cmds'[Len(cmds) + 1] = c
      /\ Len(cmds) \in Nat /\ DOMAIN cmds \subseteq Nat
  BY <1>1 DEF Command
<1>3. leaving' \in [Users -> Nat] /\ \A v \in Users : v # u => leaving'[v] = leaving[v]
  BY DEF TellDisconnected, PresenceInv
<1>4. CallsAreListed'
  BY <1>1, <1>2 DEF PresenceInv, CallsAreListed, TimedOut
<1>5. NewsIsBefore'
  <2> SUFFICES ASSUME NEW i \in DOMAIN cmds', NEW j \in DOMAIN cmds',
                      cmds'[i].asked, i < j, cmds'[j].user = cmds'[i].user
               PROVE  cmds'[j].user \in overtaken'
    BY DEF NewsIsBefore
  <2>1. i \in DOMAIN cmds /\ cmds'[i] = cmds[i]
    BY <1>1, <1>2
  <2>2. CASE j \in DOMAIN cmds /\ cmds'[j] = cmds[j]
    BY <1>1, <2>1, <2>2 DEF PresenceInv, NewsIsBefore
  <2>3. CASE cmds'[j] = c
    BY <1>1, <2>1, <2>3 DEF CallsInv, CallOrder
  <2> QED
    BY <1>2, <2>2, <2>3
<1>6. \A v \in Users : /\ Present(v)' <=> Present(v)
                       /\ Clean(v)' => Clean(v)
                       /\ v # u => (NoNewsOf(v)' <=> NoNewsOf(v))
  BY <1>1, <1>2 DEF Present, NoNewsOf, Clean, TimedOut
<1>7. ~ NoNewsOf(u)' /\ (Present(u) => ~ Clean(u)')
  BY <1>1, <1>2 DEF Present, NoNewsOf, Clean
<1>8. PresentIsKnown' /\ AbsentIsTold'
  BY <1>1, <1>3, <1>6, <1>7 DEF PresenceInv, PresentIsKnown, AbsentIsTold, Unfinished, Players
<1>9. UnboundAreThere'
  BY <1>1, <1>6 DEF PresenceInv, UnboundAreThere, CallsInv, CallsTypeOK
<1> QED
  BY <1>1, <1>3, <1>4, <1>5, <1>8, <1>9 DEF PresenceInv

-----------------------------------------------------------------------------
\* The shard's steps.

\* What the first command of the list does to its user, if he is clean and his game
\* goes on: news makes him absent, a call leaves him present.
Heard(r, u) ==
  \/ Head(cmds).type = "disconnected" /\ Unfinished(r, u) /\ presence'[r][u] # "connected"
  \/ Head(cmds).type = "reconnect" /\ presence'[r][u] = "connected"
  \/ Head(cmds).type \in {"create", "join"} /\ Unfinished(r, u) /\ presence'[r][u] = presence[r][u]

\* A command is taken and its caller answered: everybody else is as before.
LEMMA TakenPresence ==
  ASSUME CallsInv, PresenceInv, CallersInv', cmds # <<>>, NEW result \in {"ok", "error"},
         Done(result), UNCHANGED <<online, call, leaving, late, overtaken, outrun>>,
         unbound' \subseteq unbound,
         NEW u \in Users, u = Head(cmds).user,
         \A r \in RoomIds, v \in Users : v # u =>
           (Unfinished(r, v)' => Unfinished(r, v)) /\ presence'[r][v] = presence[r][v],
         \A r \in RoomIds : Unfinished(r, u)' => Heard(r, u)
  PROVE  PresenceInv'
<1>1. /\ Head(cmds) \in Command /\ Head(cmds) = cmds[1] /\ 1 \in DOMAIN cmds
      /\ \A i \in DOMAIN cmds' : i + 1 \in DOMAIN cmds /\ i \in Nat /\ 1 < i + 1 /\ cmds'[i] = cmds[i + 1]
      /\ answer' = IF cmds[1].asked THEN result ELSE answer
  BY First, Taken DEF CallsInv, CallsTypeOK, Done
<1>2. \A i \in DOMAIN cmds : i = 1 \/ (i - 1 \in DOMAIN cmds' /\ cmds'[i - 1] = cmds[i])
  <2>1. /\ cmds' = Tail(cmds) /\ cmds # <<>> /\ cmds \in Seq(Command)
        /\ DOMAIN cmds = 1 .. Len(cmds) /\ Len(cmds) \in Nat
    BY DEF Done, CallsInv, CallsTypeOK
  <2>2. /\ Len(cmds') = Len(cmds) - 1 /\ DOMAIN cmds' = 1 .. Len(cmds')
        /\ \A k \in 1 .. Len(cmds) - 1 : cmds'[k] = cmds[k + 1]
    BY <2>1
  <2>3. \A i \in 1 .. Len(cmds) : i = 1 \/ (i - 1 \in 1 .. Len(cmds) - 1 /\ (i - 1) + 1 = i)
    BY <2>1
  <2> QED
    BY <2>1, <2>2, <2>3
<1>3. cmds[1].asked =>
        /\ call.type = cmds[1].type /\ call.user = u /\ answer = "none"
        /\ cmds[1].type # "disconnected"
        /\ \A i \in DOMAIN cmds' : cmds'[i].user = u => u \in overtaken
  <2>1. cmds[1].asked => \A i \in DOMAIN cmds' : cmds'[i].user = u => u \in overtaken
    BY <1>1 DEF PresenceInv, NewsIsBefore
  <2> QED
    BY <1>1, <2>1 DEF CallsInv, CallOrder
<1>4. u = cmds[1].user
  BY <1>1
<1>5. UnboundAreThere'
  BY DEF PresenceInv, UnboundAreThere, Clean, TimedOut
<1>6. CallsAreListed'
  <2>1. \A v : TimedOut(v)' <=> TimedOut(v)
    BY DEF TimedOut
  <2>3. (\A i \in DOMAIN cmds : cmds[i].type # "disconnected" /\ ~ cmds[i].asked => TimedOut(cmds[i].user))'
    BY <1>1, <2>1 DEF PresenceInv, CallsAreListed
  <2>2. ASSUME call # NoCall, answer' = "none" PROVE \E i \in DOMAIN cmds' : cmds'[i].asked
    <3>1. ~ cmds[1].asked /\ answer = "none"
      BY <1>1, <2>2
    <3>2. PICK i \in DOMAIN cmds : cmds[i].asked
      BY <2>2, <3>1 DEF PresenceInv, CallsAreListed
    <3> QED
      BY <1>2, <3>1, <3>2
  <2> QED
    BY <2>2, <2>3 DEF CallsAreListed
<1>7. NewsIsBefore'
  <2>1. ASSUME NEW i \in DOMAIN cmds', NEW j \in DOMAIN cmds',
               cmds'[i].asked, i < j, cmds'[j].user = cmds'[i].user
        PROVE  cmds'[j].user \in overtaken'
    <3>1. i + 1 < j + 1
      BY <1>1, <2>1
    <3> QED
      BY <1>1, <2>1, <3>1 DEF PresenceInv, NewsIsBefore
  <2> QED
    BY <2>1 DEF NewsIsBefore
<1>8. \A v \in Users : v # u =>
        /\ Present(v)' => Present(v)
        /\ NoNewsOf(v)' <=> NoNewsOf(v)
  <2>1. ASSUME NEW v \in Users, v # u, Present(v)' PROVE Present(v)
    BY <1>1, <1>3, <2>1 DEF Present
  <2>2. ASSUME NEW v \in Users, v # u, NoNewsOf(v) PROVE NoNewsOf(v)'
    BY <1>1, <2>2 DEF NoNewsOf
  <2>3. ASSUME NEW v \in Users, v # u, NoNewsOf(v)' PROVE NoNewsOf(v)
    BY <1>2, <1>4, <2>3 DEF NoNewsOf
  <2> QED
    BY <2>1, <2>2, <2>3
<1>9. \A v \in Users : Clean(v)' <=> Clean(v)
  BY DEF Clean, TimedOut
<1>10. ASSUME NEW r \in RoomIds, Clean(u), Unfinished(r, u)'
       PROVE  /\ Present(u)' => presence'[r][u] = "connected" /\ NoNewsOf(u)'
              /\ ~ online[u] /\ call.user # u => presence'[r][u] # "connected"
  <2>1. Heard(r, u)
    BY <1>10
  <2>2. CASE cmds[1].type = "disconnected"
    <3>1. Unfinished(r, u) /\ presence'[r][u] # "connected"
      BY <1>1, <2>1, <2>2 DEF Heard
    <3>2. ~ NoNewsOf(u)
      BY <1>1, <1>4, <2>2 DEF NoNewsOf
    <3>3. ~ Present(u)
      BY <1>1, <1>4, <1>10, <3>1, <3>2 DEF PresenceInv, PresentIsKnown
    <3>4. answer' = answer
      BY <1>1, <1>3, <2>2
    <3>5. ~ Present(u)'
      BY <3>3, <3>4 DEF Present
    <3> QED
      BY <3>1, <3>5
  <2>3. CASE cmds[1].type # "disconnected"
    <3>1. cmds[1].asked
      BY <1>1, <1>4, <1>10, <2>3 DEF PresenceInv, CallsAreListed, Clean
    <3>2. NoNewsOf(u)'
      BY <1>3, <1>10, <3>1 DEF NoNewsOf, Clean
    <3>3. Present(u)' => presence'[r][u] = "connected"
      <4>1. CASE presence'[r][u] = "connected"
        BY <4>1
      <4>2. CASE /\ cmds[1].type \in {"create", "join"} /\ Unfinished(r, u)
                 /\ presence'[r][u] = presence[r][u]
        <5>1. Present(u)
          BY <1>3, <3>1, <4>2 DEF PresenceInv, CallersInv, Present
        <5> QED
          BY <1>1, <1>10, <4>2, <5>1 DEF PresenceInv, PresentIsKnown
      <4> QED
        BY <1>1, <2>1, <2>3, <4>1, <4>2 DEF Heard
    <3> QED
      BY <1>3, <3>1, <3>2, <3>3
  <2> QED
    BY <2>2, <2>3
<1>11. PresentIsKnown'
  <2> SUFFICES ASSUME NEW r \in RoomIds, NEW v \in Users, Present(v)', Clean(v)', Unfinished(r, v)'
               PROVE  presence'[r][v] = "connected" /\ NoNewsOf(v)'
    BY DEF PresentIsKnown
  <2>1. CASE v = u
    BY <1>9, <1>10, <2>1
  <2>2. CASE v # u
    BY <1>8, <1>9, <2>2 DEF PresenceInv, PresentIsKnown
  <2> QED
    BY <2>1, <2>2
<1>12. AbsentIsTold'
  <2> SUFFICES ASSUME NEW r \in RoomIds, NEW v \in Users, ~ online[v], call.user # v, Clean(v)', Unfinished(r, v)'
               PROVE  presence'[r][v] # "connected" \/ leaving[v] > 0 \/ ~ NoNewsOf(v)'
    BY DEF AbsentIsTold
  <2>1. CASE v = u
    BY <1>9, <1>10, <2>1
  <2>2. CASE v # u
    BY <1>8, <1>9, <2>2 DEF PresenceInv, AbsentIsTold
  <2> QED
    BY <2>1, <2>2
<1> QED
  BY <1>5, <1>6, <1>7, <1>11, <1>12 DEF PresenceInv

\* Whoever enters a room is present in it, and in no other.
LEMMA EntrantIsHeard ==
  ASSUME RoomsInv, RoomsInv', NEW r \in RoomIds, NEW u \in Users,
         NEW role \in {"white", "black", "viewer"}, Enter(r, u, role), over' = over
  PROVE  /\ \A q \in RoomIds, v \in Users : v # u =>
              (Unfinished(q, v)' => Unfinished(q, v)) /\ presence'[q][v] = presence[q][v]
         /\ \A q \in RoomIds : Unfinished(q, u)' => presence'[q][u] = "connected"
<1>1. \A q \in RoomIds, v \in Users :
        /\ members'[q][v] = IF q = r /\ v = u THEN role ELSE members[q][v]
        /\ presence'[q][v] = IF q = r /\ v = u THEN "connected" ELSE presence[q][v]
  BY DEF RoomsInv, RoomsTypeOK, Enter
<1>2. userRoom'[u] = r
  BY DEF RoomsInv, RoomsTypeOK, Enter
<1>3. \A q \in RoomIds : u \in Members(q)' => q = r
  BY <1>2 DEF RoomsInv, MembershipAgrees
<1> QED
  BY <1>1, <1>3 DEF Unfinished, Players, Members

\* A room is entered: everybody else is as before, and who enters has a socket and no
\* news behind him, or is not clean.
LEMMA TaskPresence ==
  ASSUME CallsInv, PresenceInv, CallersInv', NEW us \in SUBSET Users, unbound' = us,
         UNCHANGED <<online, call, answer, cmds, leaving, late, overtaken>>, outrun \subseteq outrun',
         \A r \in RoomIds, v \in Users : v \notin us /\ Unfinished(r, v)' =>
           Unfinished(r, v) /\ presence'[r][v] = presence[r][v],
         \A r \in RoomIds, v \in us : Unfinished(r, v)' => presence'[r][v] = "connected",
         \A v \in us : Clean(v)' => online[v] /\ NoNewsOf(v)
  PROVE  PresenceInv'
<1>1. CallsAreListed' /\ NewsIsBefore'
  BY DEF PresenceInv, CallsAreListed, NewsIsBefore, TimedOut
<1>2. \A v \in Users : (Present(v)' <=> Present(v)) /\ (NoNewsOf(v)' <=> NoNewsOf(v)) /\ (Clean(v)' => Clean(v))
  BY DEF Present, NoNewsOf, Clean, TimedOut
<1>3. PresentIsKnown'
  <2> SUFFICES ASSUME NEW r \in RoomIds, NEW v \in Users, Present(v)', Clean(v)', Unfinished(r, v)'
               PROVE  presence'[r][v] = "connected" /\ NoNewsOf(v)'
    BY DEF PresentIsKnown
  <2> QED
    BY <1>2 DEF PresenceInv, PresentIsKnown
<1>4. AbsentIsTold'
  <2> SUFFICES ASSUME NEW r \in RoomIds, NEW v \in Users, ~ online[v], call.user # v, Clean(v)', Unfinished(r, v)'
               PROVE  presence'[r][v] # "connected" \/ leaving[v] > 0 \/ ~ NoNewsOf(v)'
    BY DEF AbsentIsTold
  <2>1. v \notin us
    OBVIOUS
  <2> QED
    BY <1>2, <2>1 DEF PresenceInv, AbsentIsTold
<1>5. UnboundAreThere'
  BY DEF UnboundAreThere
<1> QED
  BY <1>1, <1>3, <1>4, <1>5 DEF PresenceInv

\* room_create and room_join
LEMMA HandleEntryPresence ==
  ASSUME CallsInv, PresenceInv, CallersInv', HandleCreate \/ HandleJoin
  PROVE  PresenceInv'
<1>1. PICK type \in {"create", "join"} : TakeCommand(type)
  BY DEF HandleCreate, HandleJoin
<1>2. /\ cmds # <<>> /\ Head(cmds).type = type /\ Head(cmds).user \in Users
      /\ Head(cmds) = cmds[1] /\ 1 \in DOMAIN cmds
  BY <1>1, CommandTaken
<1>3. PICK u \in Users : u = Head(cmds).user
  BY <1>2
<1>4. /\ UNCHANGED <<online, call, leaving, over, late, overtaken, outrun>>
      /\ \/ (CreateRoom(u) \/ JoinRoom(Head(cmds).room, u)) /\ unbound' = {u} /\ UNCHANGED <<cmds, answer>>
         \/ Done("error") /\ UNCHANGED <<members, presence, unbound>>
  BY <1>3 DEF HandleCreate, HandleJoin, StartTask, gameVars, historyVars, roomVars
<1>5. RoomsInv' /\ RoomsInv
  BY HandleCreateInv, HandleJoinInv DEF CallsInv
<1>6. ASSUME NEW r \in RoomIds, NEW role \in {"white", "black", "viewer"}, Enter(r, u, role),
             unbound' = {u}, UNCHANGED <<cmds, answer>>
      PROVE  PresenceInv'
  <2>1. /\ \A q \in RoomIds, v \in Users : v # u =>
             (Unfinished(q, v)' => Unfinished(q, v)) /\ presence'[q][v] = presence[q][v]
        /\ \A q \in RoomIds : Unfinished(q, u)' => presence'[q][u] = "connected"
    BY <1>4, <1>2, <1>5, <1>6, EntrantIsHeard
  <2>2. ASSUME Clean(u)' PROVE online[u] /\ NoNewsOf(u)
    <3>1. Clean(u)
      BY <1>4, <2>2 DEF Clean, TimedOut
    <3>2. cmds[1].asked
      BY <1>2, <1>3, <3>1 DEF PresenceInv, CallsAreListed, Clean
    <3>3. call.type \in {"create", "join"} /\ call.user = u
      BY <1>2, <1>3, <3>2 DEF CallsInv, CallOrder
    <3>4. \A i \in DOMAIN cmds : i = 1 \/ 1 < i
      BY DEF CallsInv, CallsTypeOK
    <3>5. \A i \in DOMAIN cmds : 1 < i => cmds[i].user # u
      BY <1>2, <1>3, <3>1, <3>2 DEF PresenceInv, NewsIsBefore, Clean
    <3>6. NoNewsOf(u)
      BY <1>2, <3>4, <3>5 DEF NoNewsOf
    <3> QED
      BY <3>3, <3>6 DEF PresenceInv, CallersInv
  <2> DEFINE us == {u}
  <2>3. us \in SUBSET Users /\ unbound' = us /\ \A v : v \in us <=> v = u
    BY <1>6
  <2> HIDE DEF us
  <2> QED
    BY <1>4, <1>6, <2>1, <2>2, <2>3, TaskPresence
<1>7. CASE CreateRoom(u) /\ unbound' = {u} /\ UNCHANGED <<cmds, answer>>
  BY <1>6, <1>7 DEF CreateRoom, RoomLeft
<1>8. CASE JoinRoom(Head(cmds).room, u) /\ unbound' = {u} /\ UNCHANGED <<cmds, answer>>
  <2>1. Head(cmds).room \in RoomIds /\ Enter(Head(cmds).room, u, JoinRole(Head(cmds).room))
    BY <1>8 DEF JoinRoom, CanJoin, Created
  <2>2. JoinRole(Head(cmds).room) \in {"white", "black", "viewer"}
    BY DEF JoinRole
  <2> QED
    BY <1>6, <1>8, <2>1, <2>2
<1>9. CASE Done("error") /\ UNCHANGED <<members, presence, unbound>>
  <2>1. \A q \in RoomIds, v \in Users :
          (Unfinished(q, v)' => Unfinished(q, v)) /\ presence'[q][v] = presence[q][v]
    BY <1>4, <1>9 DEF Unfinished, Players
  <2>2. \A q \in RoomIds : Unfinished(q, u)' => Heard(q, u)
    BY <1>2, <2>1 DEF Heard
  <2> QED
    BY <1>2, <1>3, <1>4, <1>9, <2>1, <2>2, TakenPresence
<1> QED
  BY <1>4, <1>7, <1>8, <1>9

\* create_match: whom it takes by surprise is not clean.
LEMMA HandleCreateMatchPresence ==
  ASSUME CallsInv, PresenceInv, CallersInv', HandleCreateMatch
  PROVE  PresenceInv'
<1>1. /\ found # <<>> /\ found \in Seq(Pairs) /\ ShardFree
      /\ UNCHANGED <<online, call, answer, cmds, leaving, over, late, overtaken>>
  BY DEF HandleCreateMatch, CallsInv, CallsTypeOK, gatewayVars, gameVars
<1>2. PICK a \in Users, b \in Users : a = Head(found)[1] /\ b = Head(found)[2] /\ a # b
  <2>1. Head(found) \in Pairs
    BY <1>1
  <2> QED
    BY <2>1 DEF Pairs
<1>3. CASE /\ CreateMatchedRoom(a, b) /\ StartTask("match", {a, b})
           /\ outrun' = outrun \cup {u \in {a, b} : ~ online[u] \/ ~ NoNewsOf(u)}
  <2> DEFINE r == FreshRoom
             us == {a, b}
  <2>1. RoomsInv /\ RoomsInv' /\ r \in RoomIds
    BY <1>2, <1>3, CreateMatchedRoomKeepsBooks, FreshIsNew DEF CreateMatchedRoom, CallsInv
  <2>2. /\ members' = [members EXCEPT ![r] = [@ EXCEPT ![a] = "white", ![b] = "black"]]
        /\ presence' = [presence EXCEPT ![r] = [u \in Users |-> "connected"]]
        /\ userRoom' = [userRoom EXCEPT ![a] = r, ![b] = r]
        /\ \A v \in Users : v \notin Members(r)
    <3>1. r \notin Created
      BY <1>3, FreshIsNew DEF CreateMatchedRoom, CallsInv
    <3> QED
      BY <1>3, <2>1, <3>1 DEF CreateMatchedRoom, Created
  <2> HIDE DEF r
  <2>3. \A v \in us : userRoom'[v] = r /\ v \in Users
    BY <2>1, <2>2 DEF RoomsInv, RoomsTypeOK
  <2>4. \A q \in RoomIds, v \in Users : v \notin us => members'[q][v] = members[q][v]
    BY <2>1, <2>2 DEF RoomsInv, RoomsTypeOK
  <2>5. \A q \in RoomIds, v \in Users : q # r => presence'[q][v] = presence[q][v]
    BY <2>1, <2>2 DEF RoomsInv, RoomsTypeOK
  <2>6. \A v \in Users : presence'[r][v] = "connected"
    BY <2>1, <2>2 DEF RoomsInv, RoomsTypeOK
  <2>7. \A v \in us : Clean(v)' => online[v] /\ NoNewsOf(v)
    BY <1>3 DEF Clean
  <2>8. us \in SUBSET Users /\ unbound' = us /\ outrun \subseteq outrun'
    BY <1>3 DEF StartTask
  <2> HIDE DEF us
  <2>9. ASSUME NEW q \in RoomIds, NEW v \in Users, v \notin us, Unfinished(q, v)'
        PROVE  Unfinished(q, v) /\ presence'[q][v] = presence[q][v]
    <3>1. Unfinished(q, v)
      BY <1>1, <2>4, <2>9 DEF Unfinished, Players
    <3>2. q # r
      BY <2>2, <3>1 DEF Unfinished, Players, Members
    <3> QED
      BY <2>5, <3>1, <3>2
  <2>10. ASSUME NEW q \in RoomIds, NEW v \in us, Unfinished(q, v)'
         PROVE  presence'[q][v] = "connected"
    <3>1. v \in Members(q)' /\ v \in Users
      BY <2>3, <2>10 DEF Unfinished, Players, Members
    <3>2. q = r
      BY <2>1, <2>3, <3>1 DEF RoomsInv, MembershipAgrees
    <3> QED
      BY <2>6, <3>1, <3>2
  <2> QED
    BY <1>1, <2>7, <2>8, <2>9, <2>10, TaskPresence
<1>4. CASE UNCHANGED <<members, presence, unbound, outrun>>
  <2>1. UNCHANGED <<gatewayVars, cmds, historyVars, over>>
    BY <1>1, <1>4 DEF HandleCreateMatch, historyVars
  <2> QED
    BY <1>4, <2>1, RuntimePresence DEF Unfinished, Players
<1> QED
  BY <1>2, <1>3, <1>4 DEF HandleCreateMatch, roomVars

\* A binding tells nobody anything; with the last of them the caller is answered.
LEMMA BindNextPresence ==
  ASSUME CallsInv, PresenceInv, CallersInv', NEW v \in Users, BindNext(v)
  PROVE  PresenceInv'
<1>1. /\ UNCHANGED <<members, presence, online, call, leaving, over, historyVars>>
      /\ unbound' \subseteq unbound
      /\ IF task = "command" THEN Done("ok") ELSE UNCHANGED <<cmds, answer>>
  BY DEF BindNext, roomVars, gameVars
<1>2. \A q \in RoomIds, w \in Users : Unfinished(q, w)' => Unfinished(q, w)
  BY <1>1 DEF Unfinished, Players
<1>3. CASE task = "command"
  <2>1. 1 \in DOMAIN cmds /\ Enters(cmds[1]) /\ cmds \in Seq(Command)
    BY <1>3 DEF CallsInv, TaskIsOpen, CallsTypeOK
  <2>2. cmds # <<>>
    BY <2>1
  <2>3. Head(cmds).type \in {"create", "join"} /\ Head(cmds) \in Command
    BY <2>1, <2>2, First DEF Enters
  <2>4. PICK u \in Users : u = Head(cmds).user
    BY <2>3 DEF Command
  <2>5. \A q \in RoomIds : Unfinished(q, u)' => Heard(q, u)
    BY <1>1, <1>2, <2>3 DEF Heard
  <2>6. UNCHANGED <<late, overtaken, outrun>>
    BY <1>1 DEF historyVars
  <2> QED
    BY <1>1, <1>2, <1>3, <2>2, <2>4, <2>5, <2>6, TakenPresence
<1>4. CASE task # "command"
  BY <1>1, <1>2, <1>4, RuntimePresence DEF gatewayVars
<1> QED
  BY <1>3, <1>4

\* player_reconnect
LEMMA HandleReconnectPresence ==
  ASSUME CallsInv, PresenceInv, CallersInv', HandleReconnect
  PROVE  PresenceInv'
<1>1. cmds # <<>> /\ Head(cmds).type = "reconnect" /\ Head(cmds).user \in Users
  BY CommandTaken DEF HandleReconnect
<1>2. PICK u \in Users : u = Head(cmds).user
  BY <1>1
<1> DEFINE result == IF InRoom(u) THEN "ok" ELSE "error"
<1>3. /\ UNCHANGED <<online, call, leaving, over, late, overtaken, outrun>> /\ unbound' \subseteq unbound
      /\ Reconnect(u) /\ Done(result)
  BY <1>2 DEF HandleReconnect, gameVars, historyVars, shardVars
<1>4. result \in {"ok", "error"}
  OBVIOUS
<1> HIDE DEF result
<1>5. members' = members
  BY <1>3 DEF Reconnect, roomVars
<1>6. \A q \in RoomIds, v \in Users :
        (Unfinished(q, v)' => Unfinished(q, v)) /\ (v # u => presence'[q][v] = presence[q][v])
  <2>1. \A q \in RoomIds, v \in Users : v # u => presence'[q][v] = presence[q][v]
    BY <1>3 DEF Reconnect, roomVars, CallsInv, RoomsInv, RoomsTypeOK, InRoom
  <2> QED
    BY <1>3, <1>5, <2>1 DEF Unfinished, Players
<1>7. ASSUME NEW q \in RoomIds, Unfinished(q, u)' PROVE presence'[q][u] = "connected"
  <2>1. u \in Members(q)
    BY <1>5, <1>7 DEF Unfinished, Players, Members
  <2>2. userRoom[u] = q /\ InRoom(u)
    BY <1>1, <2>1, RoomsAssumption DEF CallsInv, RoomsInv, MembershipAgrees, InRoom, RoomIds
  <2> QED
    BY <1>3, <1>1, <2>1, <2>2 DEF Reconnect, CallsInv, RoomsInv, RoomsTypeOK
<1>8. \A q \in RoomIds : Unfinished(q, u)' => Heard(q, u)
  BY <1>1, <1>7 DEF Heard
<1> QED
  BY <1>1, <1>3, <1>4, <1>6, <1>8, <1>2, TakenPresence

\* player_disconnected
LEMMA HandleDisconnectedPresence ==
  ASSUME CallsInv, PresenceInv, CallersInv', HandleDisconnected
  PROVE  PresenceInv'
<1>1. TakeCommand("disconnected")
  BY DEF HandleDisconnected
<1>2. cmds # <<>> /\ Head(cmds).user \in Users /\ Head(cmds).type = "disconnected"
  BY <1>1, CommandTaken
<1>3. PICK u \in Users : u = Head(cmds).user
  BY <1>2
<1>4. /\ UNCHANGED <<online, call, leaving, over, late, overtaken, outrun>> /\ unbound' \subseteq unbound
      /\ MarkDisconnected(u) /\ Done("ok")
  BY <1>3 DEF HandleDisconnected, gameVars, historyVars, shardVars
<1>5. RoomsInv
  BY DEF CallsInv
<1>6. \A q \in RoomIds, v \in Users :
        (Unfinished(q, v)' => Unfinished(q, v)) /\ (v # u => presence'[q][v] = presence[q][v])
  <2>1. \A q \in RoomIds, v \in Users : v # u => presence'[q][v] = presence[q][v]
    BY <1>4, <1>5 DEF MarkDisconnected, roomVars, RoomsInv, RoomsTypeOK, InRoom
  <2>2. \A q \in RoomIds : Players(q)' \subseteq Players(q)
    BY <1>4, <1>2, <1>5, MarkedRoom
  <2> QED
    BY <1>4, <2>1, <2>2 DEF Unfinished
<1>7. ASSUME NEW q \in RoomIds, Unfinished(q, u)' PROVE presence'[q][u] # "connected"
  <2>1. u \in Players(q) /\ u \in Members(q)
    BY <1>2, <1>6, <1>7 DEF Unfinished, Players, Members
  <2>2. userRoom[u] = q /\ InRoom(u)
    BY <1>2, <1>5, <2>1, RoomsAssumption DEF RoomsInv, MembershipAgrees, InRoom, RoomIds
  <2>3. presence' = [presence EXCEPT ![q][u] = "grace"]
    BY <1>4, <2>1, <2>2 DEF MarkDisconnected
  <2> QED
    BY <1>2, <1>5, <2>3 DEF RoomsInv, RoomsTypeOK
<1>8. \A q \in RoomIds : Unfinished(q, u)' => Heard(q, u)
  BY <1>2, <1>6, <1>7 DEF Heard
<1> QED
  BY <1>2, <1>4, <1>6, <1>8, <1>3, TakenPresence

-----------------------------------------------------------------------------
\* At first nobody plays.
LEMMA PresenceInitially == Init => PresenceInv
<1> SUFFICES ASSUME Init PROVE PresenceInv
  OBVIOUS
<1>1. \A r \in RoomIds, u \in Users : ~ Unfinished(r, u)
  BY DEF Init, RoomsInit, Unfinished, Players
<1>2. CallersInv /\ leaving \in [Users -> Nat]
  BY CallsInitially DEF Init
<1>3. CallsAreListed /\ NewsIsBefore /\ UnboundAreThere
  BY DEF Init, CallsAreListed, NewsIsBefore, UnboundAreThere, NoCall
<1> QED
  BY <1>1, <1>2, <1>3 DEF PresenceInv, PresentIsKnown, AbsentIsTold

\* Every step keeps the invariant.
LEMMA PresenceNext == CallsInv /\ PresenceInv /\ [Next]_vars => PresenceInv'
<1> SUFFICES ASSUME CallsInv, PresenceInv, [Next]_vars PROVE PresenceInv'
  OBVIOUS
<1>0. CallersInv'
  BY CallersNext DEF PresenceInv
<1>1. ASSUME NEW u \in Users, LogIn(u) \/ Create(u) \/ Leave(u) \/ TellDisconnected(u)
      PROVE  PresenceInv'
  <2>1. CASE Create(u)
    BY <1>0, <2>1, CallShardPresence DEF Create, Calls
  <2> QED
    BY <1>0, <1>1, <2>1, LogInPresence, LeavePresence, TellDisconnectedPresence
<1>2. ASSUME NEW u \in Users, NEW r \in RoomIds, Join(u, r) PROVE PresenceInv'
  BY <1>0, <1>2, CallShardPresence DEF Join, Calls
<1>3. CASE Gateway
  BY <1>0, <1>1, <1>2, <1>3, ReturnPresence, TimesOutPresence DEF Gateway
<1>4. CASE Shard
  BY <1>0, <1>4, HandleEntryPresence, HandleReconnectPresence, HandleDisconnectedPresence,
     HandleCreateMatchPresence, BindNextPresence DEF Shard, CommandLoop
<1>5. CASE Runtime
  BY <1>0, <1>5, RuntimeStepPresence
<1>7. ASSUME NEW a \in Users, NEW b \in Users, Match(a, b) PROVE PresenceInv'
  <2>1. UNCHANGED <<gatewayVars, cmds, historyVars, members, presence, over, unbound>>
    BY <1>7 DEF Match, roomVars, gameVars
  <2> QED
    BY <1>0, <2>1, RuntimePresence DEF Unfinished, Players
<1>6. CASE UNCHANGED vars
  <2>1. UNCHANGED <<gatewayVars, cmds, historyVars, members, presence, over, unbound>>
    BY <1>6 DEF vars, roomVars, gameVars, shardVars
  <2> QED
    BY <1>0, <2>1, RuntimePresence DEF Unfinished, Players
<1> QED
  BY <1>3, <1>4, <1>5, <1>6, <1>7 DEF Next

\* Both invariants hold throughout.
LEMMA PresenceAlways == Spec => [](CallsInv /\ PresenceInv)
<1> QED
  <2>1. CallsInv /\ PresenceInv /\ [Next]_vars => (CallsInv /\ PresenceInv)'
    BY CallsNext, PresenceNext DEF PresenceInv
  <2> QED
    BY <2>1, CallsInitially, PresenceInitially, PTL DEF Spec

\* Once everything is said and done the shard takes for present exactly those who
\* have a socket, save for the three exceptions the property names.
THEOREM QuietPresenceIsRight == Spec => []QuietPresenceIsTrue
<1>1. CallsInv /\ PresenceInv => QuietPresenceIsTrue
  <2> SUFFICES ASSUME CallsInv, PresenceInv, Quiet, NEW r \in RoomIds, NEW u \in Users,
                      Unfinished(r, u), ~ TimedOut(u), u \notin overtaken \cup outrun
               PROVE  presence[r][u] = "connected" <=> online[u]
    BY DEF QuietPresenceIsTrue
  <2>0. Clean(u)
    BY DEF Clean
  <2>1. call.user # u /\ NoNewsOf(u) /\ leaving[u] = 0
    BY CallsAssumption DEF Quiet, GatewayFree, NoCall, NoNewsOf
  <2>2. online[u] => presence[r][u] = "connected"
    BY <2>0 DEF PresenceInv, PresentIsKnown, Present
  <2>3. ~ online[u] => presence[r][u] # "connected"
    BY <2>0, <2>1 DEF PresenceInv, AbsentIsTold
  <2> QED
    BY <2>2, <2>3 DEF PresenceInv, CallersInv
<1> QED
  BY <1>1, PresenceAlways, PTL

\* Nobody who has a socket is forfeited, at any time, with the same exceptions.
THEOREM PresentPlayersPlayOn == Spec => PresentKeepsHisGame
<1>1. PresenceInv => ForfeitsTheAbsent
  BY DEF PresenceInv, PresentIsKnown, Present, Clean, ForfeitsTheAbsent
<1> QED
  BY <1>1, PresenceAlways, PTL DEF PresentKeepsHisGame
=============================================================================
