----------------------------- MODULE GameServer -----------------------------
(***************************************************************************)
(* The games of the one-process server and how they end:                   *)
(* Server/application/game_service.py and server_runtime.py over the rooms *)
(* of room_service.py.                                                     *)
(*                                                                         *)
(* One coroutine, ServerRuntime.run, ticks every game, rates the finished  *)
(* ones and forfeits those whose player stayed away.  It shares a thread   *)
(* with the handlers of the clients' messages, which run only where it     *)
(* awaits.  The match pass that opens a tick is module Matchmaking's; here *)
(* it is MatchPair, while the loop is at its sleep.                        *)
(*                                                                         *)
(* An engine (module GameEngine) is reduced to what the service asks of    *)
(* it: is the game over, who won, is anything in flight.                   *)
(***************************************************************************)
EXTENDS Rooms

CONSTANTS
  SlowSends,   \* does a send ever suspend the loop, so that requests come in?
  DbFailures   \* bound: how often the user store raises in one run

ASSUME GameServerAssumption == SlowSends \in BOOLEAN /\ DbFailures \in Nat

VARIABLES
  over,        \* engine.game_over
  winner,      \* engine.winner
  flying,      \* engine.has_active_motion()
  stale,       \* did the board change since the room was last sent a state?
  rated,       \* room.elo_updated
  applied,     \* how often set_elo was called for a room's white and black
  failures,    \* how often the user store has raised
  pc,          \* where the server's loop is
  room, limit, \* the position and the end of tick_all's list of rooms
  doomed,      \* what is left of the list expired_disconnects returned
  connected,   \* has the user a socket?
  returned,    \* history: users of that list who logged in since it was read
  ghosts       \* history: users matched while away, and not back since

gameVars == <<over, winner, flying, stale>>
ratingVars == <<rated, applied, failures>>
listVars == <<doomed, returned>>
loopVars == <<pc, room, limit, doomed>>
userVars == <<connected, ghosts>>
vars == <<roomVars, gameVars, ratingVars, loopVars, returned, userVars>>

Sides == {"white", "black"}

Other(side) == IF side = "white" THEN "black" ELSE "white"

\* The loop sleeps, or a send of its waits for a slow socket.
AtAwait ==
  \/ pc = "sleep"
  \/ SlowSends /\ pc \in {"state_sent", "rating_sent", "countdown_sent", "forfeit_sent"}

TypeOK ==
  /\ RoomsTypeOK
  /\ over \in [RoomIds -> BOOLEAN] /\ flying \in [RoomIds -> BOOLEAN]
  /\ stale \in [RoomIds -> BOOLEAN] /\ rated \in [RoomIds -> BOOLEAN]
  /\ winner \in [RoomIds -> Sides \cup {"none"}]
  /\ applied \in [RoomIds -> [Sides -> Nat]]
  /\ failures \in 0 .. DbFailures
  /\ pc \in {"sleep", "games", "state_sent", "judge", "rating_sent", "grace",
             "countdown_sent", "forfeit", "punish", "forfeit_sent"}
  /\ room \in 1 .. MaxRooms + 1 /\ limit \in 0 .. MaxRooms
  /\ doomed \subseteq RoomIds \X Users
  /\ connected \in [Users -> BOOLEAN]
  /\ returned \subseteq Users /\ ghosts \subseteq Users

Init ==
  /\ RoomsInit
  /\ over = [r \in RoomIds |-> FALSE]
  /\ winner = [r \in RoomIds |-> "none"]
  /\ flying = [r \in RoomIds |-> FALSE]
  /\ stale = [r \in RoomIds |-> FALSE]
  /\ rated = [r \in RoomIds |-> FALSE]
  /\ applied = [r \in RoomIds |-> [s \in Sides |-> 0]]
  /\ failures = 0
  /\ pc = "sleep"
  /\ room = 1 /\ limit = 0
  /\ doomed = {}
  /\ connected = [u \in Users |-> FALSE]
  /\ returned = {} /\ ghosts = {}

-----------------------------------------------------------------------------
\* Requests.

\* A new room's engine is made by on_room_created, its game as in Init.
EnterRoom(u) ==
  /\ AtAwait /\ connected[u]
  /\ CreateRoom(u) \/ \E r \in RoomIds : JoinRoom(r, u)
  /\ UNCHANGED <<gameVars, ratingVars, loopVars, returned, userVars>>

\* The match pass looks at no socket.  Who leaves is taken out of the queue, but a send
\* of the expiry pass that suspends puts him back (see module Matchmaking).
MatchPair(a, b) ==
  /\ pc = "sleep" /\ a # b
  /\ SlowSends \/ (connected[a] /\ connected[b])
  /\ CreateMatchedRoom(a, b)
  /\ ghosts' = ghosts \cup {u \in {a, b} : ~ connected[u]}
  /\ UNCHANGED <<gameVars, ratingVars, loopVars, returned, connected>>

\* GameService.submit_move, when the engine accepts the move.  It needs no
\* opponent.
SubmitMove(u) ==
  LET r == userRoom[u]
  IN  /\ AtAwait /\ connected[u] /\ InRoom(u)
      /\ members[r][u] \in Sides
      /\ ~ over[r]
      /\ flying' = [flying EXCEPT ![r] = TRUE]
      /\ stale' = [stale EXCEPT ![r] = TRUE]
      /\ UNCHANGED <<roomVars, over, winner, ratingVars, loopVars, returned, userVars>>

\* ServerRuntime.on_client_disconnected
ClientDisconnected(u) ==
  /\ AtAwait /\ connected[u]
  /\ connected' = [connected EXCEPT ![u] = FALSE]
  /\ MarkDisconnected(u)
  /\ UNCHANGED <<gameVars, ratingVars, loopVars, returned, ghosts>>

\* SessionService.login or authenticate.  A late return, after the deadline, is
\* a return.
LogIn(u) ==
  /\ AtAwait /\ ~ connected[u]
  /\ connected' = [connected EXCEPT ![u] = TRUE]
  /\ Reconnect(u)
  /\ returned' = returned \cup {e[2] : e \in {d \in doomed : d[2] = u}}
  /\ ghosts' = ghosts \ {u}
  /\ UNCHANGED <<gameVars, ratingVars, loopVars>>

DeadlinePasses(r, u) ==
  /\ AtAwait
  /\ GraceRunsOut(r, u)
  /\ UNCHANGED <<gameVars, ratingVars, loopVars, returned, userVars>>

-----------------------------------------------------------------------------
\* Ending a game.

GameEnds(r, side) ==
  /\ over' = [over EXCEPT ![r] = TRUE]
  /\ winner' = [winner EXCEPT ![r] = side]

\* Mutants: a rated room is rated again; a rating that failed half-way is not
\* tried again.
CanRateAgain(r) == over[r] /\ Cardinality(Players(r)) = 2
CanRateFirst(r) ==
  over[r] /\ ~ rated[r] /\ Cardinality(Players(r)) = 2 /\ applied[r]["white"] = 0

\* _apply_elo reads the players from the store unless the room is rated.
ReadsPlayers(r) == over[r] /\ ~ rated[r]

\* It does nothing else for a room without two players.
CanRate(r) == ReadsPlayers(r) /\ Cardinality(Players(r)) = 2

\* Both ratings are written, the room is marked, and game_over is sent.
RateAndTell(r, next) ==
  /\ rated' = [rated EXCEPT ![r] = TRUE]
  /\ applied' = [applied EXCEPT ![r] = [s \in Sides |-> @[s] + 1]]
  /\ pc' = next
  /\ UNCHANGED <<failures, listVars>>

\* The user store raises, and run's handler ends the tick.
StoreRaises ==
  /\ failures < DbFailures
  /\ failures' = failures + 1
  /\ pc' = "sleep"
  /\ doomed' = {} /\ returned' = {}
  /\ UNCHANGED rated

\* It raises before the first write, also where there will be none, or between the two.
RatingRaises(r) ==
  /\ ReadsPlayers(r)
  /\ StoreRaises
  /\ \/ UNCHANGED applied
     \/ CanRate(r) /\ applied' = [applied EXCEPT ![r]["white"] = @ + 1]

-----------------------------------------------------------------------------
\* GameService.tick_all

StartTick ==
  /\ pc = "sleep"
  /\ pc' = "games"
  /\ room' = 1 /\ limit' = Cardinality(Created)
  /\ UNCHANGED <<roomVars, gameVars, ratingVars, listVars, userVars>>

\* update_game_clock has nothing to do.
QuietTick ==
  /\ pc = "games" /\ room <= limit
  /\ over[room] \/ ~ flying[room]
  /\ pc' = "judge"
  /\ UNCHANGED <<roomVars, gameVars, ratingVars, room, limit, listVars, userVars>>

\* Something stays in the air.
FlightTick ==
  /\ pc = "games" /\ room <= limit
  /\ ~ over[room] /\ flying[room]
  /\ \/ UNCHANGED <<over, winner>>
     \/ \E side \in Sides : GameEnds(room, side)
  /\ pc' = "judge"
  /\ UNCHANGED <<roomVars, flying, stale, ratingVars, room, limit, listVars, userVars>>

\* Mutant: had_motions is read after the clock update, and no state is sent.
LastLandingUntold(r) ==
  /\ flying' = [flying EXCEPT ![r] = FALSE]
  /\ UNCHANGED stale

LastLanding(r) ==
  /\ flying' = [flying EXCEPT ![r] = FALSE]
  /\ stale' = [stale EXCEPT ![r] = FALSE]

\* The last piece in the air lands, and the room is sent its state.
LandingTick ==
  /\ pc = "games" /\ room <= limit
  /\ ~ over[room] /\ flying[room]
  /\ LastLanding(room)
  /\ \/ UNCHANGED <<over, winner>>
     \/ \E side \in Sides : GameEnds(room, side)
  /\ pc' = "state_sent"
  /\ UNCHANGED <<roomVars, ratingVars, room, limit, listVars, userVars>>

StateSent ==
  /\ pc = "state_sent"
  /\ pc' = "judge"
  /\ UNCHANGED <<roomVars, gameVars, ratingVars, room, limit, listVars, userVars>>

RateRoom ==
  /\ pc = "judge"
  /\ (CanRate(room) /\ RateAndTell(room, "rating_sent")) \/ RatingRaises(room)
  /\ UNCHANGED <<roomVars, gameVars, room, limit, userVars>>

NextRoom ==
  /\ pc = "rating_sent" \/ (pc = "judge" /\ ~ CanRate(room))
  /\ pc' = "games"
  /\ room' = room + 1
  /\ UNCHANGED <<roomVars, gameVars, ratingVars, limit, listVars, userVars>>

-----------------------------------------------------------------------------
\* _process_disconnect_grace

GamesTicked ==
  /\ pc = "games" /\ room > limit
  /\ pc' = "grace"
  /\ room' = 1 /\ limit' = 0
  /\ UNCHANGED <<roomVars, gameVars, ratingVars, listVars, userVars>>

\* A countdown is sent for a deadline, unless that second was sent before.
SendCountdown ==
  /\ pc = "grace"
  /\ \E r \in RoomIds : \E u \in Players(r) : presence[r][u] \in {"grace", "expired"}
  /\ pc' = "countdown_sent"
  /\ UNCHANGED <<roomVars, gameVars, ratingVars, room, limit, listVars, userVars>>

ReadExpired ==
  /\ pc \in {"grace", "countdown_sent"}
  /\ doomed' = ExpiredDisconnects /\ returned' = {}
  /\ pc' = "forfeit"
  /\ UNCHANGED <<roomVars, gameVars, ratingVars, room, limit, userVars>>

\* The list is in the order of the rooms and, in a room, of its members.
IsFirst(e) ==
  /\ e \in doomed
  /\ \A d \in doomed : \/ e[1] < d[1]
                       \/ e[1] = d[1] /\ (d = e \/ members[e[1]][e[2]] = "white")

Clear(e) ==
  /\ ClearDisconnectDeadline(e[1], e[2])
  /\ doomed' = doomed \ {e}
  /\ pc' = "forfeit"

\* Mutant: a player without an opponent is let off.
ForfeitTooLateOrAlone(e) ==
  /\ pc = "forfeit" /\ IsFirst(e)
  /\ over[e[1]] \/ Cardinality(Players(e[1])) = 1
  /\ Clear(e)
  /\ UNCHANGED <<gameVars, ratingVars, room, limit, returned, userVars>>

\* force_forfeit on a game that is over
ForfeitTooLate(e) ==
  /\ pc = "forfeit" /\ IsFirst(e)
  /\ over[e[1]]
  /\ Clear(e)
  /\ UNCHANGED <<gameVars, ratingVars, room, limit, returned, userVars>>

\* force_forfeit reads the players from the store before it decides the game.
ForfeitRaises(e) ==
  /\ pc = "forfeit" /\ IsFirst(e)
  /\ ~ over[e[1]]
  /\ StoreRaises
  /\ UNCHANGED <<roomVars, gameVars, applied, room, limit, userVars>>

\* force_forfeit up to _apply_elo.  It does not look at the member again.
Forfeit(e) ==
  /\ pc = "forfeit" /\ IsFirst(e)
  /\ ~ over[e[1]]
  /\ GameEnds(e[1], Other(members[e[1]][e[2]]))
  /\ pc' = "punish"
  /\ UNCHANGED <<roomVars, flying, stale, ratingVars, room, limit, listVars, userVars>>

RateForfeit(e) ==
  /\ pc = "punish" /\ IsFirst(e)
  /\ (CanRate(e[1]) /\ RateAndTell(e[1], "forfeit_sent")) \/ RatingRaises(e[1])
  /\ UNCHANGED <<roomVars, gameVars, room, limit, userVars>>

ForfeitDone(e) ==
  /\ IsFirst(e)
  /\ pc = "forfeit_sent" \/ (pc = "punish" /\ ~ CanRate(e[1]))
  /\ Clear(e)
  /\ UNCHANGED <<gameVars, ratingVars, room, limit, returned, userVars>>

TickDone ==
  /\ pc = "forfeit" /\ doomed = {}
  /\ pc' = "sleep"
  /\ returned' = {}
  /\ UNCHANGED <<roomVars, gameVars, ratingVars, room, limit, doomed, userVars>>

-----------------------------------------------------------------------------
Loop ==
  \/ StartTick \/ QuietTick \/ FlightTick \/ LandingTick \/ StateSent \/ RateRoom \/ NextRoom
  \/ GamesTicked \/ SendCountdown \/ ReadExpired \/ TickDone
  \/ \E e \in doomed : ForfeitTooLate(e) \/ ForfeitRaises(e) \/ Forfeit(e) \/ RateForfeit(e) \/ ForfeitDone(e)

Request(u) ==
  EnterRoom(u) \/ SubmitMove(u) \/ ClientDisconnected(u) \/ LogIn(u)

Next ==
  \/ Loop
  \/ \E u \in Users : Request(u)
  \/ \E a, b \in Users : MatchPair(a, b)
  \/ \E r \in RoomIds, u \in Users : DeadlinePasses(r, u)

Spec == Init /\ [][Next]_vars

\* The loop's coroutine is run again and again.  (That a flight ends is
\* GameEngine's FlightEnds, and is not assumed here.)
FairSpec == Spec /\ WF_vars(Loop)

-----------------------------------------------------------------------------
\* Safety.

\* Every rating a game changes it changes once, both sides' alike, and only after
\* the game has a winner: however ticks, forfeits and late joiners interleave.
ResultOf(r) == IF over[r] THEN winner[r] ELSE "open"

Result == INSTANCE AbstractResult WITH
  Rooms <- RoomIds, result <- [r \in RoomIds |-> ResultOf(r)], changes <- applied

ImplementsAbstractResult == Result!Spec

\* What a raising user store costs: a retried rating starts again with white, so
\* white may be rated once more per failure, black never, and a room that is
\* marked was rated on both sides.
FailuresCostWhiteOnly ==
  \A r \in RoomIds :
    /\ applied[r]["white"] <= failures + (IF rated[r] THEN 1 ELSE 0)
    /\ rated[r] <=> applied[r]["black"] = 1
    /\ rated[r] => applied[r]["white"] >= 1

\* Between two ticks the clients' board is the server's, unless a piece is in the
\* air: no landing goes untold, whatever comes in while a state is being sent.
QuietRoomIsShown ==
  pc = "sleep" => \A r \in RoomIds : stale[r] => flying[r]

\* A forfeit hits a player who is away and whose deadline has passed, or who came back
\* after the loop had read the list he is on: nobody else, whatever the sends of the
\* forfeits before his let in.
ForfeitsOnlyTheAbsent ==
  [][\A e \in doomed : Forfeit(e) => presence[e[1]][e[2]] = "expired" \/ e[2] \in returned]_vars

\* The loop's own picture of who is there agrees with the sockets, but for users who
\* were matched after they had left: they are taken for present until they log in.
PresenceIsTrue ==
  \A r \in RoomIds : \A u \in Members(r) :
    presence[r][u] = "connected" <=> connected[u] \/ u \in ghosts

\* Nobody is left to a deadline that is never looked at again: a cleared deadline
\* belongs to a player whose game is over.
ClearedMeansOver ==
  \A r \in RoomIds : \A u \in Players(r) : presence[r][u] = "gone" => over[r]

-----------------------------------------------------------------------------
\* Liveness, under FairSpec.

\* The result of a game with two players is written and sent.
FinishedIsRated ==
  \A r \in RoomIds : over[r] /\ Cardinality(Players(r)) = 2 ~> rated[r]

\* A player who stays away loses his game.
AbsenceIsDecided ==
  \A r \in RoomIds, u \in Users :
    u \in Players(r) /\ presence[r][u] = "expired" ~> over[r] \/ connected[u]
=============================================================================
