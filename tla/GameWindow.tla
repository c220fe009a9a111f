----------------------------- MODULE GameWindow -----------------------------
(***************************************************************************)
(* A window (module GameClient), the server it talks to, and the game they *)
(* share (module GameEngine): transport/message_router.py with             *)
(* session_service.py, lobby_service.py and game_service.py, as one user   *)
(* of the one-process server meets them.                                   *)
(*                                                                         *)
(* The server here has one room, the user's or the one he may join.  The   *)
(* other players come, move, watch and go at any time.  A handler of the   *)
(* server, and a tick with the landings it settles, is one synchronous     *)
(* call; no send waits (GameServer has the sends that do), so what one     *)
(* handler sends arrives in order and without gaps.                        *)
(***************************************************************************)
EXTENDS GameClient, FiniteSets

CONSTANTS CellTime, JumpTime, ClockSteps, NoColor   \* as in GameEngine

VARIABLES
  grid, kind, status, motions, landing, score, gameOver, winner, \* the room's GameEngine
  ticking,    \* had_motions of the tick under way; FALSE between two ticks
  session,    \* ctx.authenticated of the window's socket
  queued,     \* the user waits for a match
  room,       \* the room has nobody, one player or two
  role,       \* the user's role in it
  away,       \* his seat's socket has gone, and the grace runs
  rated       \* room.elo_updated

engineVars == <<grid, kind, status, motions, landing, score, gameOver, winner>>
seatVars   == <<session, queued, room, role, away>>
serverVars == <<engineVars, ticking, seatVars, rated>>
vars == <<clientVars, serverVars>>

Engine == INSTANCE GameEngine

TypeOK ==
  /\ ClientTypeOK
  /\ Engine!TypeOK
  /\ ticking \in BOOLEAN /\ rated \in BOOLEAN
  /\ session \in BOOLEAN /\ queued \in BOOLEAN /\ away \in BOOLEAN
  /\ room \in {"none", "lone", "paired"}
  /\ role \in Colors \cup {"viewer", Nobody}

Init ==
  /\ ClientInit
  /\ Engine!Init
  /\ ticking = FALSE
  /\ session = FALSE /\ queued = FALSE
  /\ room = "none" /\ role = Nobody /\ away = FALSE
  /\ rated = FALSE

InRoom == role # Nobody

\* No call is under way in the server.
Idle == landing = {} /\ ~ ticking

\* Bound: the server says nothing while MaxEvents messages are under way.
WireHasRoom == Len(wire) + Len(events) < MaxEvents

\* The messages reach the window if it is logged in.
Tell(messages) ==
  /\ WireHasRoom
  /\ wire' = IF session THEN wire \o messages ELSE wire

TellIf(condition, messages) == IF condition THEN Tell(messages) ELSE UNCHANGED wire

\* snapshot_state
Snapshot == MakeState(grid, kind, gameOver)

NewGame ==
  /\ grid' = FileBoard /\ kind' = InitKind /\ status' = [p \in Pieces |-> "idle"]
  /\ motions' = {} /\ landing' = {} /\ score' = [c \in Colors |-> 0]
  /\ gameOver' = FALSE /\ winner' = NoColor
  /\ rated' = FALSE

NewSnapshot == MakeState(FileBoard, InitKind, FALSE)

-----------------------------------------------------------------------------
\* The message router.  Each handler takes the head of sent.

\* Mutant: somebody who is in a room is not led back to it.
RejoinNobody == <<>>

\* _apply_session after its first message.
Rejoin == IF InRoom THEN <<RejoinedRoom(role), Snapshot>> ELSE <<>>

\* _on_auth, also on a socket that is logged in already.
OnAuth ==
  /\ Head(sent) = MakeAuth
  /\ WireHasRoom
  /\ session' = TRUE /\ away' = FALSE
  /\ wire' = wire \o Rejoin
  /\ UNCHANGED <<queued, room, role, engineVars, rated>>

\* _on_login, with the right password or a wrong one.
OnLogin ==
  /\ Head(sent) = MakeLogin
  /\ WireHasRoom
  /\ \/ /\ ~ session
        /\ session' = TRUE /\ away' = FALSE
        /\ wire' = wire \o <<MakeLoginOk>> \o Rejoin
     \/ UNCHANGED <<session, away, wire>>
  /\ UNCHANGED <<queued, room, role, engineVars, rated>>

\* An error goes back.
Refuse == UNCHANGED <<wire, seatVars, engineVars, rated>>

\* _dispatch: everything else needs a session.
OnUnauthenticated ==
  /\ ~ session /\ Head(sent) \notin {MakeLogin, MakeAuth}
  /\ Refuse

\* LobbyService.play
OnPlay ==
  /\ session /\ Head(sent) = MakePlay
  /\ \/ InRoom /\ Refuse
     \/ /\ ~ InRoom
        /\ queued' = TRUE
        /\ UNCHANGED <<wire, session, room, role, away, engineVars, rated>>

\* LobbyService.cancel_play
OnCancelPlay ==
  /\ session /\ Head(sent) = MakeCancelPlay
  /\ queued' = FALSE
  /\ UNCHANGED <<wire, session, room, role, away, engineVars, rated>>

\* LobbyService.create_room.  A user who waits in the queue goes on waiting.
OnRoomCreate ==
  /\ session /\ Head(sent) = MakeRoomCreate
  /\ \/ InRoom /\ Refuse
     \/ /\ ~ InRoom
        /\ room' = "lone" /\ role' = "w"
        /\ NewGame
        /\ Tell(<<RoomCreated, NewSnapshot>>)
        /\ UNCHANGED <<session, queued, away>>

JoinRole == IF room = "lone" THEN "b" ELSE "viewer"

\* LobbyService.join_room and the state _send_command_outcome adds, or the
\* refusal of a user who is in a room or has the wrong room's name.
OnRoomJoin ==
  /\ session /\ Head(sent) = MakeRoomJoin
  /\ \/ Refuse
     \/ /\ ~ InRoom /\ room # "none"
        /\ role' = JoinRole /\ room' = "paired"
        /\ Tell(<<RoomJoined(JoinRole, IF JoinRole = "b" THEN "b" ELSE "w"), Snapshot>>)
        /\ UNCHANGED <<session, queued, away, engineVars, rated>>

\* try_player_move: the piece has to be the player's, whatever he clicked on.
MoveAccepted(color, s, e) ==
  /\ ~ gameOver
  /\ grid[s] # NoPiece
  /\ ColorOf[grid[s]] = color
  /\ status[grid[s]] = "idle"
  /\ Engine!IsMoveLegal(Engine!Board, s, e)

\* submit_move and the ack to everybody in the room.
OnMove ==
  /\ session /\ Head(sent).type = "move"
  /\ LET s == Head(sent).start
         e == Head(sent).end
     IN  \/ /\ role \in Colors /\ MoveAccepted(role, s, e)
            /\ Engine!HandleMoveRequest(s, e)
            /\ Tell(<<MakeAck(s, e)>>)
            /\ UNCHANGED <<seatVars, rated>>
         \/ /\ ~ (role \in Colors /\ MoveAccepted(role, s, e))
            /\ Refuse

HandleRaw ==
  /\ Idle /\ sent # <<>>
  /\ sent' = Tail(sent)
  /\ OnAuth \/ OnLogin \/ OnUnauthenticated \/ OnPlay \/ OnCancelPlay \/ OnRoomCreate
       \/ OnRoomJoin \/ OnMove
  /\ UNCHANGED <<starts, running, netVars, screen, gameVars, ticking>>

-----------------------------------------------------------------------------
\* The socket's end: on_client_disconnected.

MarkDisconnected ==
  /\ session' = FALSE /\ queued' = FALSE
  /\ role' = IF role = "viewer" THEN Nobody ELSE role
  /\ away' = (role \in Colors)
  /\ UNCHANGED <<room, engineVars, ticking, rated>>

Disconnect == Idle /\ Stop /\ MarkDisconnected

-----------------------------------------------------------------------------
\* The server's loop: a tick of the room's game.

\* update_game_clock; it has nothing to do when nothing flies, or when the game
\* is over.
Tick ==
  /\ Idle /\ room # "none" /\ motions # {}
  /\ \E ms \in ClockSteps : Engine!UpdateGameClock(ms)
  /\ ticking' = TRUE
  /\ UNCHANGED <<clientVars, seatVars, rated>>

SettleLanding ==
  /\ ticking /\ Engine!Settling
  /\ UNCHANGED <<clientVars, ticking, seatVars, rated>>

\* Mutant: the state is sent while other pieces are in the air, and not after.
MotionsDoneEarly == motions # {}

\* had_motions and no motion left.
MotionsDone == motions = {}

\* tick_all after the clock: the state of a board that has come to rest.
TickEnds ==
  /\ ticking /\ landing = {}
  /\ ticking' = FALSE
  /\ TellIf(MotionsDone /\ InRoom, <<Snapshot>>)
  /\ UNCHANGED <<starts, running, sent, netVars, screen, gameVars, engineVars, seatVars,
                 rated>>

\* _apply_elo: a game that is over is rated, once it has two players.  The tick
\* or the forfeit that ended it does so at its end; here it is a step of its
\* own, as it is in the code when the user store raises the first time.
Rate ==
  /\ Idle /\ gameOver /\ ~ rated /\ room = "paired"
  /\ rated' = TRUE
  /\ TellIf(InRoom, <<MakeGameOver>>)
  /\ UNCHANGED <<starts, running, sent, netVars, screen, gameVars, engineVars, ticking,
                 seatVars>>

-----------------------------------------------------------------------------
\* The other users.

Others(messages) ==
  /\ Idle
  /\ TellIf(InRoom /\ messages # <<>>, messages)
  /\ UNCHANGED <<starts, running, sent, netVars, screen, gameVars, ticking>>

\* Somebody opens a room this user may join.
OtherCreates ==
  /\ room = "none"
  /\ room' = "lone"
  /\ NewGame
  /\ Others(<<>>)
  /\ UNCHANGED <<session, queued, role, away>>

OtherJoins ==
  /\ room = "lone"
  /\ room' = "paired"
  /\ Others(<<>>)
  /\ UNCHANGED <<session, queued, role, away, engineVars, rated>>

\* The colors somebody else plays.
OtherColors ==
  {c \in Colors : /\ c # role
                  /\ room = "paired" \/ (room = "lone" /\ c = "w")}

OtherMoves ==
  /\ \E s, e \in Squares :
       /\ \E c \in OtherColors : MoveAccepted(c, s, e)
       /\ Engine!HandleMoveRequest(s, e)
       /\ Others(<<MakeAck(s, e)>>)
  /\ UNCHANGED <<seatVars, rated>>

\* force_forfeit of somebody who stayed away.
Forfeit ==
  /\ \E loser \in OtherColors \cup (IF away THEN {role} ELSE {}) :
       Engine!ForceForfeit(Engine!Enemy(loser))
  /\ Others(<<>>)
  /\ UNCHANGED <<seatVars, rated>>

\* notify_user of a match, or of the queue's timeout.  A user who has a room by
\* now is not matched (module Matchmaking says what happens instead).
Matched ==
  /\ Idle /\ queued /\ ~ InRoom
  /\ queued' = FALSE
  /\ room' = "paired"
  /\ role' \in Colors
  /\ NewGame
  /\ Tell(<<MatchFound(role'), NewSnapshot>>)
  /\ UNCHANGED <<starts, running, sent, netVars, screen, gameVars, ticking, session, away>>

TimedOut ==
  /\ Idle /\ queued
  /\ queued' = FALSE
  /\ UNCHANGED <<clientVars, engineVars, ticking, session, room, role, away, rated>>

-----------------------------------------------------------------------------
\* The window's own steps.  A tick is one call, so none of them needs to fall
\* between its landings.
Window == Idle /\ (Start \/ Player \/ Threads) /\ UNCHANGED serverVars

ServerLoop == Tick \/ SettleLanding \/ TickEnds \/ Rate

Next ==
  \/ Window \/ HandleRaw \/ Disconnect
  \/ ServerLoop
  \/ OtherCreates \/ OtherJoins \/ OtherMoves \/ Forfeit \/ Matched \/ TimedOut

Spec == Init /\ [][Next]_vars

\* The threads of a running window are scheduled, a login thread comes to an
\* end, and the server handles what it received and goes on ticking.  Nothing
\* is assumed of the player, nor of the other users.  (HandleRaw is only ever
\* held back by the bound MaxEvents, and never for good.)
FairSpec ==
  /\ Spec
  /\ WF_vars(Window /\ Receive) /\ WF_vars(Window /\ ProcessEvent)
  /\ WF_vars(Window /\ (HttpAnswer \/ HttpFails)) /\ WF_vars(Window /\ SendAuth)
  /\ SF_vars(HandleRaw)
  /\ WF_vars(ServerLoop)

-----------------------------------------------------------------------------
\* Safety.

\* Everything the server said has reached the screen.
Caught == wire = <<>> /\ events = <<>>

\* A board at rest is the server's: once the last message is in and nothing
\* flies in the server, every piece stands where the server has it, as what the
\* server has it for, and nothing flies here; whatever the window's own clock
\* did to its board, in whichever order flights, acks, states and rejoins came.
\* (A game that ends in mid-air sends no last board.)
QuietBoardIsTrue ==
  Caught /\ Idle /\ motions = {} /\ ~ gameOver /\ InRoom /\ session /\ screen = "game" =>
    /\ flying = {}
    /\ board = grid
    /\ \A p \in Pieces : (\E s \in Squares : grid[s] = p) => types[p] = kind[p]

\* A player in a rated game is shown that it is over, also when he comes back
\* later: only then does the screen let him leave (README.md:159).
OverIsShown ==
  Caught /\ rated /\ InRoom /\ session /\ screen = "game" => overShown

\* While the game goes on, a player's window takes him for the color the server
\* has him for, and lets nobody select who only watches.
ColorIsMine ==
  Caught /\ ~ gameOver /\ InRoom /\ session /\ screen = "game" =>
    IF role = "viewer" THEN netRole = "viewer" \/ myColor = "viewer" ELSE myColor = role

-----------------------------------------------------------------------------
\* Liveness, under FairSpec.

\* Who is in a room comes to see it: the game screen appears, although a second
\* login that is answered late puts the lobby over a game, unless the
\* connection or the game ends first.
RoomIsShown ==
  InRoom /\ session ~> (screen = "game" \/ ~ running \/ gameOver)
=============================================================================
