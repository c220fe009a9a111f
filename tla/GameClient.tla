----------------------------- MODULE GameClient -----------------------------
(***************************************************************************)
(* One player's window: Design/board/network_client.py, the thread that    *)
(* talks to the server, and Design/board/game_controller.py, the thread    *)
(* that draws and takes clicks.                                            *)
(*                                                                         *)
(* The network thread turns each message into fields of the NetworkClient  *)
(* and an event in a queue; the screen's thread takes the events between   *)
(* two frames and reads the fields whenever it likes.  Each press of Login *)
(* starts a third thread that asks the HTTP API and then sends the token.  *)
(*                                                                         *)
(* The window has a board of its own.  An ack sets a piece flying there,   *)
(* the window's own clock lands it, with none of the server's rules, and a *)
(* state replaces the board.  Nothing tells which of the two clocks is     *)
(* ahead, so a local landing comes at any time.                            *)
(*                                                                         *)
(* The status line is left out, and with it the messages and the refusals  *)
(* that change nothing else.  A window that cannot connect, or loses its   *)
(* connection, can only be closed (nothing connects it again): here it is  *)
(* closed in the same step.                                                *)
(***************************************************************************)
EXTENDS PieceRules, Protocol, Sequences

CONSTANTS
  Pieces, ColorOf, InitKind, InitSquare,  \* the pieces of input.txt, as in GameEngine
  Nobody,      \* a color, role or square that is None
  MaxStarts,   \* bound: how often the program is started
  MaxLogins,   \* bound: presses of Login per start
  MaxCommands, \* bound: commands under way to the server
  MaxEvents    \* bound: messages under way to the window, those in its queue of events included

ASSUME NobodyAssumption == Nobody \notin Colors \cup {"viewer"}

VARIABLES
  \* the connection
  starts,     \* starts of the program so far
  running,    \* connected, and not stopped
  wire,       \* messages under way to the window
  sent,       \* commands under way to the server
  \* NetworkClient
  asking,     \* login threads that wait for the HTTP API
  bearing,    \* login threads that have put login_ok and have the token still to send
  presses,    \* presses of Login in this start
  netColor,   \* net.color
  netRole,    \* net.role
  events,     \* net.events
  \* ChessGameController
  screen,     \* self.screen
  board,      \* self.board: the piece on each square; without squares when None
  types,      \* piece.piece_type
  flying,     \* self.active_motions
  selected,   \* self.selected
  overShown,  \* self.game_over
  myColor     \* self.my_color

linkVars == <<starts, running, wire, sent>>
netVars  == <<asking, bearing, presses, netColor, netRole, events>>
gameVars == <<board, types, flying, selected, overShown, myColor>>
clientVars == <<linkVars, netVars, screen, gameVars>>

NoBoard == <<>>

\* load_board_from_file
FileBoard ==
  [s \in Squares |-> IF \E p \in Pieces : InitSquare[p] = s
                     THEN CHOOSE p \in Pieces : InitSquare[p] = s
                     ELSE NoPiece]

ClientTypeOK ==
  /\ starts \in 0 .. MaxStarts /\ running \in BOOLEAN
  /\ asking + bearing <= presses /\ presses <= MaxLogins
  /\ {netColor, netRole, myColor} \subseteq Colors \cup {"viewer", Nobody}
  /\ screen \in {"login", "lobby", "join", "game"}
  /\ board = NoBoard \/ board \in [Squares -> Pieces \cup {NoPiece}]
  /\ types \in [Pieces -> Kinds]
  /\ flying \subseteq [piece : Pieces, start : Squares, end : Squares]
  /\ selected \in Squares \cup {Nobody}
  /\ overShown \in BOOLEAN

\* The __init__ of both classes.
ClientInit ==
  /\ starts = 0 /\ running = FALSE
  /\ wire = <<>> /\ sent = <<>> /\ events = <<>>
  /\ asking = 0 /\ bearing = 0 /\ presses = 0
  /\ netColor = Nobody /\ netRole = Nobody
  /\ screen = "login"
  /\ board = NoBoard /\ types = InitKind /\ flying = {}
  /\ selected = Nobody /\ overShown = FALSE /\ myColor = Nobody

-----------------------------------------------------------------------------
\* The connection and its thread.

\* start and _amain
Start ==
  /\ ~ running /\ starts < MaxStarts
  /\ starts' = starts + 1
  /\ running' = TRUE
  /\ UNCHANGED <<wire, sent, netVars, screen, gameVars>>

\* ESC or the loss of the connection: run's finally, stop, and the end of the
\* process with all its threads.  The next start begins as ClientInit does.
Stop ==
  /\ running
  /\ running' = FALSE
  /\ wire' = <<>> /\ sent' = <<>> /\ events' = <<>>
  /\ asking' = 0 /\ bearing' = 0 /\ presses' = 0
  /\ netColor' = Nobody /\ netRole' = Nobody
  /\ screen' = "login"
  /\ board' = NoBoard /\ types' = InitKind /\ flying' = {}
  /\ selected' = Nobody /\ overShown' = FALSE /\ myColor' = Nobody
  /\ UNCHANGED starts

\* _send
Send(command) == sent' = Append(sent, command)

\* Bound: the player gives no command while MaxCommands are under way.
MayCommand == Len(sent) < MaxCommands

EnterMessages == {"room_created", "room_joined", "rejoined_room", "match_found"}

\* The fields a message sets.  rejoined_room says nothing of the role.
NetFields(m) ==
  /\ netColor' = IF m.type \in EnterMessages THEN m.color ELSE netColor
  /\ netRole' = CASE m.type = "room_joined" -> m.role
                  [] m.type \in {"room_created", "match_found"} -> m.color
                  [] OTHER -> netRole

\* _handle_raw and the _on_* methods: every message becomes one event, and the
\* four that put the user into a room are all "enter_game".
Receive ==
  /\ wire # <<>>
  /\ wire' = Tail(wire)
  /\ NetFields(Head(wire))
  /\ events' = Append(events, IF Head(wire).type \in EnterMessages
                              THEN [type |-> "enter_game"] ELSE Head(wire))
  /\ UNCHANGED <<starts, running, sent, asking, bearing, presses, screen, gameVars>>

-----------------------------------------------------------------------------
\* Logging in.

\* _try_login and login: each press starts a thread, also while another one is
\* waiting for its answer.
PressLogin ==
  /\ running /\ screen = "login" /\ presses < MaxLogins
  /\ presses' = presses + 1
  /\ asking' = asking + 1
  /\ UNCHANGED <<linkVars, bearing, netColor, netRole, events, screen, gameVars>>

\* The API answers with a token, or refuses.
HttpAnswer ==
  /\ asking > 0
  /\ asking' = asking - 1
  /\ \/ bearing' = bearing + 1 /\ events' = Append(events, MakeLoginOk)
     \/ UNCHANGED <<bearing, events>>
  /\ UNCHANGED <<linkVars, presses, netColor, netRole, screen, gameVars>>

\* The API is out of reach: the WebSocket is asked instead.
HttpFails ==
  /\ asking > 0
  /\ asking' = asking - 1
  /\ Send(MakeLogin)
  /\ UNCHANGED <<starts, running, wire, bearing, presses, netColor, netRole, events, screen, gameVars>>

SendAuth ==
  /\ bearing > 0
  /\ bearing' = bearing - 1
  /\ Send(MakeAuth)
  /\ UNCHANGED <<starts, running, wire, asking, presses, netColor, netRole, events, screen, gameVars>>

-----------------------------------------------------------------------------
\* The screen's thread takes an event.

\* Mutant: the color is not taken over.
EnterGameColorless ==
  /\ screen' = "game"
  /\ board' = FileBoard /\ types' = InitKind /\ flying' = {}
  /\ selected' = Nobody /\ overShown' = FALSE
  /\ UNCHANGED myColor

\* _enter_game: the board of input.txt, and the color net has by now.
EnterGame ==
  /\ screen' = "game"
  /\ board' = FileBoard /\ types' = InitKind /\ flying' = {}
  /\ selected' = Nobody /\ overShown' = FALSE
  /\ myColor' = netColor

\* Mutant: a state does not say that the game is over.
ApplyStateOpen(m) ==
  /\ board' = m.pieces /\ types' = m.kinds /\ flying' = {}
  /\ UNCHANGED <<screen, selected, myColor, overShown>>

\* _apply_state: whatever is flying here is dropped; what was selected stays so.
ApplyState(m) ==
  /\ board' = m.pieces /\ types' = m.kinds /\ flying' = {}
  /\ overShown' = m.over
  /\ UNCHANGED <<screen, selected, myColor>>

Flies(p) == \E f \in flying : f.piece = p

\* Nothing flies off an empty square, or twice.
CanFly(s) == board # NoBoard /\ board[s] # NoPiece /\ ~ Flies(board[s])

\* _apply_ack
ApplyAck(m) ==
  /\ flying' = IF CanFly(m.start)
               THEN flying \cup {[piece |-> board[m.start], start |-> m.start, end |-> m.end]}
               ELSE flying
  /\ UNCHANGED <<screen, board, types, selected, overShown, myColor>>

\* _process_network_events, one event
ProcessEvent ==
  /\ events # <<>>
  /\ events' = Tail(events)
  /\ LET e == Head(events)
     IN  \/ e.type = "login_ok" /\ screen' = "lobby" /\ UNCHANGED gameVars
         \/ e.type = "enter_game" /\ EnterGame
         \/ e.type = "state" /\ ApplyState(e)
         \/ e.type = "ack" /\ ApplyAck(e)
         \/ /\ e.type = "game_over"
            /\ overShown' = TRUE
            /\ UNCHANGED <<screen, board, types, flying, selected, myColor>>
  /\ UNCHANGED <<linkVars, asking, bearing, presses, netColor, netRole>>

\* _update_motions: the window's clock lands a piece.  No rule is applied; what
\* stands on the square is overwritten, and no pawn is promoted.
LocalLanding ==
  /\ screen = "game"
  /\ \E f \in flying :
       /\ flying' = flying \ {f}
       /\ board' = [s \in Squares |->
                      IF s = f.end THEN f.piece
                      ELSE IF s = f.start /\ board[s] = f.piece THEN NoPiece ELSE board[s]]
  /\ UNCHANGED <<linkVars, netVars, screen, types, selected, overShown, myColor>>

-----------------------------------------------------------------------------
\* Clicks and keys.

\* The lobby's buttons, and Enter on the join screen, send a command and wait
\* for events; pressed again they send another one.
PressCommand ==
  /\ MayCommand
  /\ \/ screen = "lobby" /\ \E c \in {MakePlay, MakeCancelPlay, MakeRoomCreate} : Send(c)
     \/ screen = "join" /\ Send(MakeRoomJoin)
  /\ UNCHANGED <<starts, running, wire, netVars, screen, gameVars>>

\* BTN_JOIN, and BTN_BACK of the join screen.
SwitchScreen ==
  /\ \/ screen = "lobby" /\ screen' = "join"
     \/ screen = "join" /\ screen' = "lobby"
  /\ UNCHANGED <<linkVars, netVars, gameVars>>

\* _back_to_lobby with reset_game_session, offered once the game is over.
BackToLobby ==
  /\ screen = "game" /\ overShown
  /\ screen' = "lobby"
  /\ board' = NoBoard /\ types' = InitKind /\ flying' = {}
  /\ selected' = Nobody /\ overShown' = FALSE
  /\ netColor' = Nobody /\ netRole' = Nobody
  /\ UNCHANGED <<linkVars, asking, bearing, presses, events, myColor>>

\* The game screen takes clicks on the board.
BoardTakesClicks == screen = "game" /\ ~ overShown /\ netRole # "viewer"

\* A piece the player may select; without a color, any.
IsMine(p) == p # NoPiece /\ ~ Flies(p) /\ (myColor # Nobody => ColorOf[p] = myColor)

\* _handle_board_click, the clicks that send nothing: select, select another
\* own piece, or let go.
ClickSelects(s) ==
  /\ BoardTakesClicks
  /\ \/ selected = Nobody /\ IsMine(board[s]) /\ selected' = s
     \/ selected = s /\ selected' = Nobody
     \/ /\ selected \notin {Nobody, s}
        /\ IsMine(board[s]) /\ myColor # Nobody
        /\ selected' = s
  /\ UNCHANGED <<linkVars, netVars, screen, board, types, flying, overShown, myColor>>

\* _handle_board_click, the click on a target.  What stands on the selected
\* square is not looked at again.
ClickSends(s) ==
  /\ BoardTakesClicks /\ MayCommand
  /\ selected \notin {Nobody, s}
  /\ ~ (IsMine(board[s]) /\ myColor # Nobody)
  /\ Send(MakeMove(selected, s))
  /\ selected' = Nobody
  /\ UNCHANGED <<starts, running, wire, netVars, screen, board, types, flying, overShown, myColor>>

-----------------------------------------------------------------------------
Player ==
  \/ PressLogin \/ PressCommand \/ SwitchScreen \/ BackToLobby
  \/ \E s \in Squares : ClickSelects(s) \/ ClickSends(s)

\* What goes on without the player.
Threads == Receive \/ HttpAnswer \/ HttpFails \/ SendAuth \/ ProcessEvent \/ LocalLanding
=============================================================================
