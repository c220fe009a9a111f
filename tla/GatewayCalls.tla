----------------------------- MODULE GatewayCalls -----------------------------
(***************************************************************************)
(* The split deployment's gateway and a game shard: gateway_main.py with   *)
(* messaging/remote_proxies.py and redis_room_rejoin.py on one side,       *)
(* game_main.py with RoomService (module Rooms) on the other, and between  *)
(* them the calls of messaging/game_bus.py, the matches the matchmaker has *)
(* published, and the directory of matchmaking/allocator.py, all in Redis. *)
(*                                                                         *)
(* A call is a command in the shard's list and a wait for the answer.      *)
(* Logging in, creating and joining call from the gateway's only loop, and *)
(* nothing else happens there until the answer or the timeout has come.    *)
(* The end of a socket is told by a thread, which gets to its command when *)
(* it is scheduled.  A call that times out leaves its command in the list, *)
(* and the shard carries it out all the same.                              *)
(*                                                                         *)
(* The shard has two loops in one thread, one for the list and one for the *)
(* matches.  Nothing they do waits, but each binding they write into the   *)
(* directory is a step of its own, and the gateway may look in between.    *)
(* (That a room has a shard nobody sees before one of its users is bound;  *)
(* it is part of the step that makes the room.)                            *)
(*                                                                         *)
(* One shard, and no restarts (module Matchmaker has several shards,       *)
(* restarts, and the matchmaker's own steps).  Moves and get_state change  *)
(* nothing here; a game ends by itself at any time.  A user has one socket *)
(* at a time (module Connections has several).                             *)
(***************************************************************************)
EXTENDS Rooms, Sequences, Functions

CONSTANTS
  NoUser,       \* whose call is under way when there is none
  MaxCommands,  \* bound: commands in the list and threads that have one to put there
  MaxTimeouts,  \* bound: calls that time out
  MaxMatches    \* bound: published matches the shard has not read

ASSUME CallsAssumption ==
  /\ NoUser \notin Users
  /\ MaxCommands \in Nat /\ MaxTimeouts \in Nat /\ MaxMatches \in Nat

VARIABLES
  online,    \* the registry's users: who has an authenticated socket
  call,      \* the call the gateway's loop waits for
  answer,    \* what has come back for it: "none", "ok" or "error"
  leaving,   \* threads of on_disconnect that have still to put their command, by user
  cmds,      \* the shard's list of commands, oldest first; the first is in it till answered
  found,     \* the create_match events the shard has not read, oldest first
  task,      \* what the shard is in the midst of: "none", a "command" or a "match"
  unbound,   \* users of that task who are in their room and not yet in the directory
  home,      \* user:room
  claimed,   \* the rooms that have a room:shard
  over,      \* rooms whose game is over
  rated,     \* room.elo_updated
  timeouts,  \* calls timed out so far
  late,      \* history: <<user, type>> of the calls that timed out
  overtaken, \* history: users whose disconnect came into the list after a later login
  outrun     \* history: users a match took into a room when they, or the news of it, left

gatewayVars   == <<online, call, answer, leaving>>
directoryVars == <<home, claimed>>
gameVars      == <<over, rated>>
shardVars     == <<found, task, unbound>>
historyVars   == <<timeouts, late, overtaken, outrun>>
vars == <<roomVars, gatewayVars, cmds, shardVars, directoryVars, gameVars, historyVars>>

Calls == {"reconnect", "create", "join"}
Command == [type : Calls \cup {"disconnected"}, user : Users, room : RoomIds \cup {NoRoom},
            asked : BOOLEAN]

Pairs == {p \in Users \X Users : p[1] # p[2]}

NoCall == [type |-> "none", user |-> NoUser]

TypeOK ==
  /\ RoomsTypeOK
  /\ online \in [Users -> BOOLEAN]
  /\ call = NoCall \/ call \in [type : Calls, user : Users]
  /\ answer \in {"none", "ok", "error"}
  /\ leaving \in [Users -> Nat]
  /\ cmds \in Seq(Command)
  /\ found \in Seq(Pairs)
  /\ task \in {"none", "command", "match"} /\ unbound \subseteq Users
  /\ home \in [Users -> RoomIds \cup {NoRoom}]
  /\ claimed \subseteq RoomIds /\ over \subseteq RoomIds /\ rated \subseteq RoomIds
  /\ timeouts \in Nat
  /\ late \subseteq Users \X Calls
  /\ overtaken \subseteq Users /\ outrun \subseteq Users

Init ==
  /\ RoomsInit
  /\ online = [u \in Users |-> FALSE]
  /\ call = NoCall /\ answer = "none"
  /\ leaving = [u \in Users |-> 0]
  /\ cmds = <<>> /\ found = <<>>
  /\ task = "none" /\ unbound = {}
  /\ home = [u \in Users |-> NoRoom]
  /\ claimed = {} /\ over = {} /\ rated = {}
  /\ timeouts = 0 /\ late = {} /\ overtaken = {} /\ outrun = {}

-----------------------------------------------------------------------------
\* The gateway's loop.

GatewayFree == call = NoCall

\* Bound: the gateway starts nothing while MaxCommands are under way.
MayCommand == Len(cmds) + FoldFunction(+, 0, leaving) < MaxCommands

\* GameCommandBus.call up to the wait for the answer.
CallShard(type, u, r) ==
  /\ GatewayFree /\ MayCommand
  /\ cmds' = Append(cmds, [type |-> type, user |-> u, room |-> r, asked |-> TRUE])
  /\ call' = [type |-> type, user |-> u]

\* Mutant: the socket is bound to the user before his room has been asked for.
LogInBound(u) ==
  /\ ~ online[u]
  /\ online' = [online EXCEPT ![u] = TRUE]
  /\ \/ /\ home[u] # NoRoom /\ home[u] \in claimed
        /\ CallShard("reconnect", u, home[u])
        /\ UNCHANGED home
     \/ /\ home[u] = NoRoom \/ home[u] \notin claimed
        /\ GatewayFree
        /\ home' = [home EXCEPT ![u] = NoRoom]
        /\ UNCHANGED <<call, cmds>>
  /\ UNCHANGED <<roomVars, answer, leaving, shardVars, claimed, gameVars, historyVars>>

\* SessionService over RedisRoomRejoinProxy.reconnect: a user without a room, or
\* with one no shard has, is in; the others' shard is called first.
LogIn(u) ==
  /\ ~ online[u]
  /\ \/ /\ home[u] # NoRoom /\ home[u] \in claimed
        /\ CallShard("reconnect", u, home[u])
        /\ UNCHANGED <<online, home>>
     \/ /\ home[u] = NoRoom \/ home[u] \notin claimed
        /\ GatewayFree
        /\ online' = [online EXCEPT ![u] = TRUE]
        /\ home' = [home EXCEPT ![u] = NoRoom]
        /\ UNCHANGED <<call, cmds>>
  /\ UNCHANGED <<roomVars, answer, leaving, shardVars, claimed, gameVars, historyVars>>

\* RemoteLobbyProxy.create_room and join_room.
Create(u) ==
  /\ online[u]
  /\ CallShard("create", u, NoRoom)
  /\ UNCHANGED <<roomVars, online, answer, leaving, shardVars, directoryVars, gameVars, historyVars>>

Join(u, r) ==
  /\ online[u] /\ r \in claimed
  /\ CallShard("join", u, r)
  /\ UNCHANGED <<roomVars, online, answer, leaving, shardVars, directoryVars, gameVars, historyVars>>

\* Mutant: the directory's entry goes also when the shard has the user.
ForgottenAlways(u) == NoRoom

\* What reconnect keeps of user:room.
Forgotten(u) == IF answer = "error" THEN NoRoom ELSE home[u]

\* The call returns: a login unbinds a user the shard has not taken back, and
\* binds his socket; the others pass the answer on.
Return ==
  /\ answer # "none"
  /\ call' = NoCall /\ answer' = "none"
  /\ \/ /\ call.type = "reconnect"
        /\ online' = [online EXCEPT ![call.user] = TRUE]
        /\ home' = [home EXCEPT ![call.user] = Forgotten(call.user)]
     \/ call.type # "reconnect" /\ UNCHANGED <<online, home>>
  /\ UNCHANGED <<roomVars, leaving, cmds, shardVars, claimed, gameVars, historyVars>>

\* blpop gives up: the caller is told it failed, the command stays.
TimesOut ==
  /\ ~ GatewayFree /\ answer = "none" /\ timeouts < MaxTimeouts
  /\ answer' = "error"
  /\ cmds' = [i \in DOMAIN cmds |-> [cmds[i] EXCEPT !.asked = FALSE]]
  /\ timeouts' = timeouts + 1
  /\ late' = late \cup {<<call.user, call.type>>}
  /\ UNCHANGED <<roomVars, online, call, leaving, shardVars, directoryVars, gameVars, overtaken, outrun>>

\* shard_for_user
HasShard(u) == home[u] # NoRoom /\ home[u] \in claimed

\* The socket's end: the registry forgets it, and on_disconnect starts a thread
\* if the directory leads to a shard.
Leave(u) ==
  /\ GatewayFree /\ online[u] /\ MayCommand
  /\ online' = [online EXCEPT ![u] = FALSE]
  /\ leaving' = IF HasShard(u) THEN [leaving EXCEPT ![u] = @ + 1] ELSE leaving
  /\ outrun' = outrun \cup ({u} \cap unbound)
  /\ UNCHANGED <<roomVars, call, answer, cmds, shardVars, directoryVars, gameVars, timeouts, late, overtaken>>

\* The thread runs.  By now the user may have logged in again.
TellDisconnected(u) ==
  /\ leaving[u] > 0
  /\ leaving' = [leaving EXCEPT ![u] = @ - 1]
  /\ cmds' = Append(cmds, [type |-> "disconnected", user |-> u, room |-> NoRoom, asked |-> FALSE])
  /\ overtaken' = IF online[u] \/ call.user = u THEN overtaken \cup {u} ELSE overtaken
  /\ UNCHANGED <<roomVars, online, call, answer, shardVars, directoryVars, gameVars, timeouts, late, outrun>>

\* The worker reads the queue, and two users in it make a match.  They are there, since
\* whoever leaves takes his entry along; by the time the shard reads of it, after the
\* rest of the worker's pass, they may be gone.
Match(a, b) ==
  /\ a # b /\ online[a] /\ online[b]
  /\ Len(found) < MaxMatches
  /\ found' = Append(found, <<a, b>>)
  /\ UNCHANGED <<roomVars, gatewayVars, cmds, task, unbound, directoryVars, gameVars, historyVars>>

-----------------------------------------------------------------------------
\* The shard's two loops.

ShardFree == task = "none"

\* _cmd_loop takes the oldest command, and answers its caller when it is done.
TakeCommand(type) ==
  /\ ShardFree
  /\ cmds # <<>> /\ Head(cmds).type = type

Done(result) ==
  /\ cmds' = Tail(cmds)
  /\ answer' = IF Head(cmds).asked THEN result ELSE answer

\* The rooms the shard made have it in room:shard; their new users are to be bound.
StartTask(t, users) ==
  /\ task' = t /\ unbound' = users
  /\ claimed' = claimed \cup (Created' \ Created)

\* room_create.  Bound: the shard makes MaxRooms rooms, and refuses another.
HandleCreate ==
  LET u == Head(cmds).user
  IN  /\ TakeCommand("create")
      /\ \/ /\ CreateRoom(u)
            /\ StartTask("command", {u})
            /\ UNCHANGED <<cmds, answer>>
         \/ /\ InRoom(u) \/ ~ RoomLeft
            /\ Done("error")
            /\ UNCHANGED <<roomVars, task, unbound, claimed>>
      /\ UNCHANGED <<online, call, leaving, found, home, gameVars, historyVars>>

\* room_join
HandleJoin ==
  LET u == Head(cmds).user
      r == Head(cmds).room
  IN  /\ TakeCommand("join")
      /\ \/ /\ JoinRoom(r, u)
            /\ StartTask("command", {u})
            /\ UNCHANGED <<cmds, answer>>
         \/ /\ ~ CanJoin(r, u)
            /\ Done("error")
            /\ UNCHANGED <<roomVars, task, unbound, claimed>>
      /\ UNCHANGED <<online, call, leaving, found, home, gameVars, historyVars>>

\* The news that the user has gone is not in the list.
NoNewsOf(u) == \A i \in DOMAIN cmds : cmds[i].type = "disconnected" => cmds[i].user # u

\* _handle_create_match; within the bound MaxRooms.
HandleCreateMatch ==
  LET a == Head(found)[1]
      b == Head(found)[2]
  IN  /\ ShardFree /\ found # <<>>
      /\ found' = Tail(found)
      /\ \/ /\ CreateMatchedRoom(a, b)
            /\ StartTask("match", {a, b})
            /\ outrun' = outrun \cup {u \in {a, b} : ~ online[u] \/ ~ NoNewsOf(u)}
         \/ /\ ~ CanMatch(a, b) \/ ~ RoomLeft
            /\ UNCHANGED <<roomVars, task, unbound, claimed, outrun>>
      /\ UNCHANGED <<gatewayVars, cmds, home, gameVars, timeouts, late, overtaken>>

\* Mutant: only white is entered into the directory.
BindWhite(u) ==
  home' = IF members[userRoom[u]][u] = "white" THEN [home EXCEPT ![u] = userRoom[u]] ELSE home

\* bind_player
Bind(u) == home' = [home EXCEPT ![u] = userRoom[u]]

\* The task's users are bound, white before black; a command is then answered.
BindNext(u) ==
  /\ u \in unbound
  /\ \A v \in unbound : v = u \/ members[userRoom[v]][v] = "black"
  /\ Bind(u)
  /\ unbound' = unbound \ {u}
  /\ task' = IF unbound = {u} THEN "none" ELSE task
  /\ IF task = "command" THEN Done("ok") ELSE UNCHANGED <<cmds, answer>>
  /\ UNCHANGED <<roomVars, online, call, leaving, found, claimed, gameVars, historyVars>>

\* player_reconnect
HandleReconnect ==
  LET u == Head(cmds).user
  IN  /\ TakeCommand("reconnect")
      /\ Reconnect(u)
      /\ Done(IF InRoom(u) THEN "ok" ELSE "error")
      /\ UNCHANGED <<online, call, leaving, shardVars, directoryVars, gameVars, historyVars>>

\* player_disconnected; the thread that waits for the answer does nothing with it.
HandleDisconnected ==
  /\ TakeCommand("disconnected")
  /\ MarkDisconnected(Head(cmds).user)
  /\ Done("ok")
  /\ UNCHANGED <<online, call, leaving, shardVars, directoryVars, gameVars, historyVars>>

CommandLoop == HandleCreate \/ HandleJoin \/ HandleReconnect \/ HandleDisconnected

Shard == CommandLoop \/ HandleCreateMatch \/ \E u \in Users : BindNext(u)

-----------------------------------------------------------------------------
\* The shard's runtime loop.

TwoPlayers(r) == Cardinality(Players(r)) = 2

\* The games of R are over: _apply_elo rates those with two players, and
\* on_game_finished takes them out of the directory, whatever room their players
\* have there by now.
Finish(R) ==
  LET done == {r \in R : TwoPlayers(r)}
  IN  /\ over' = over \cup R
      /\ rated' = rated \cup done
      /\ claimed' = claimed \ done
      /\ home' = [u \in Users |-> IF \E r \in done : u \in Players(r) THEN NoRoom ELSE home[u]]

\* A king is taken.
GameEnds(r) ==
  /\ ShardFree /\ r \in Created \ over
  /\ Finish({r})
  /\ UNCHANGED <<roomVars, gatewayVars, cmds, shardVars, historyVars>>

\* tick_all: a game that ended with one player is rated once it has two.
RateLater(r) ==
  /\ ShardFree /\ r \in over \ rated /\ TwoPlayers(r)
  /\ Finish({r})
  /\ UNCHANGED <<roomVars, gatewayVars, cmds, shardVars, historyVars>>

DeadlinePasses(r, u) ==
  /\ GraceRunsOut(r, u)
  /\ UNCHANGED <<gatewayVars, cmds, shardVars, directoryVars, gameVars, historyVars>>

\* _process_disconnect_grace; nothing in it waits.
GracePass ==
  /\ ShardFree /\ ExpiredDisconnects # {}
  /\ Finish({e[1] : e \in ExpiredDisconnects} \ over)
  /\ presence' = [r \in RoomIds |-> [u \in Users |->
                    IF <<r, u>> \in ExpiredDisconnects THEN "gone" ELSE presence[r][u]]]
  /\ UNCHANGED <<members, userRoom, gatewayVars, cmds, shardVars, historyVars>>

-----------------------------------------------------------------------------
Gateway ==
  \/ Return \/ TimesOut
  \/ \E u \in Users : LogIn(u) \/ Create(u) \/ Leave(u) \/ TellDisconnected(u)
  \/ \E u \in Users, r \in RoomIds : Join(u, r)

Runtime ==
  \/ GracePass
  \/ \E r \in RoomIds : GameEnds(r) \/ RateLater(r)
  \/ \E r \in RoomIds, u \in Users : DeadlinePasses(r, u)

Next == Gateway \/ (\E a, b \in Users : Match(a, b)) \/ Shard \/ Runtime

Spec == Init /\ [][Next]_vars

\* Answers are taken, threads run, the shard's loops go on, and time passes.
\* Nobody has to log in, to play or to leave, and no call has to time out.
FairSpec ==
  /\ Spec
  /\ WF_vars(Return) /\ WF_vars(CommandLoop) /\ WF_vars(GracePass)
  /\ \A u \in Users :
       /\ WF_vars(BindNext(u))
       /\ WF_vars(TellDisconnected(u))
       /\ WF_vars(\E r \in RoomIds : DeadlinePasses(r, u))

-----------------------------------------------------------------------------
\* Safety.

\* Everything the gateway has to say to the shard is said and done.
Quiet == GatewayFree /\ cmds = <<>> /\ \A u \in Users : leaving[u] = 0

TimedOut(u) == \E type \in Calls : <<u, type>> \in late

Unfinished(r, u) == u \in Players(r) /\ r \notin over

\* Once the list is empty the shard takes a player for present exactly when his
\* socket is there, however logins, matches, ends of sockets and deadlines followed
\* each other, except for those whose own call timed out, whose login overtook the
\* news of their disconnect, or whom a match took by surprise: they, or that news, were
\* on their way when it made their room.  Nobody else's timeout reaches them.
QuietPresenceIsTrue ==
  Quiet => \A r \in RoomIds, u \in Users :
             Unfinished(r, u) /\ ~ TimedOut(u) /\ u \notin overtaken \cup outrun =>
               (presence[r][u] = "connected" <=> online[u])

\* While his game goes on the directory leads to a player's room, at every step from
\* his binding on, also when the call that made or entered it timed out; only a login
\* that timed out, or was under way when a match was made, takes it away.  (The
\* comment there says the room is gone.)
DirectoryLeadsHome ==
  \A r \in RoomIds, u \in Users :
    Unfinished(r, u) /\ u \notin unbound \cup outrun /\ <<u, "reconnect">> \notin late =>
      home[u] = r /\ r \in claimed

-----------------------------------------------------------------------------
\* Action property.

\* Who has a socket is not forfeited, though the news of it has to pass the list
\* behind the news that he was gone; with the same three exceptions.
ForfeitsTheAbsent ==
  \A r \in RoomIds, u \in Users :
    Unfinished(r, u) /\ presence[r][u] = "expired" /\ presence'[r][u] = "gone" =>
      ~ online[u] \/ TimedOut(u) \/ u \in overtaken \cup outrun

PresentKeepsHisGame == [][ForfeitsTheAbsent]_vars

-----------------------------------------------------------------------------
\* Liveness, under FairSpec.

\* A player with a game going on, who is away (no call of his timed out, and no match
\* took him by surprise: then nobody tells the shard that he is away).
Awaited(u) ==
  /\ ~ online[u] /\ ~ TimedOut(u) /\ u \notin outrun
  /\ \E r \in RoomIds : Unfinished(r, u)

\* A player who stays away loses his game, through the thread, the list, the
\* deadline and the grace pass.
AbsenceIsDecided ==
  \A u \in Users : Awaited(u) ~> ~ Awaited(u)
=============================================================================
