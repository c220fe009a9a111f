------------------------------ MODULE Protocol ------------------------------
(***************************************************************************)
(* The messages between a window and the server, Server/protocol.py, one   *)
(* constructor per message class, with the fields something is decided by. *)
(* Names, ratings, tokens, room ids, scores and reasons are only shown.    *)
(* parse_* refuses malformed input; both ends build theirs with make_*, so *)
(* a message that is decoded is the message that was encoded.              *)
(*                                                                         *)
(* Left out are the messages a window does nothing with but change its     *)
(* status line: error, auth_ok, play_queued, play_cancelled,               *)
(* match_timeout, room_update and disconnect_countdown; and welcome, which *)
(* no server sends any more.                                               *)
(***************************************************************************)

\* From the window.
MakeLogin      == [type |-> "login"]
MakeAuth       == [type |-> "auth"]
MakePlay       == [type |-> "play"]
MakeCancelPlay == [type |-> "cancel_play"]
MakeRoomCreate == [type |-> "room_create"]
MakeRoomJoin   == [type |-> "room_join"]
MakeMove(s, e) == [type |-> "move", start |-> s, end |-> e]

\* From the server.
MakeLoginOk  == [type |-> "login_ok"]
MakeGameOver == [type |-> "game_over"]

\* The creator plays white.
RoomCreated           == [type |-> "room_created", color |-> "w"]
RoomJoined(r, color)  == [type |-> "room_joined", role |-> r, color |-> color]
RejoinedRoom(color)   == [type |-> "rejoined_room", color |-> color]
MatchFound(color)     == [type |-> "match_found", color |-> color]

MakeAck(s, e) == [type |-> "ack", start |-> s, end |-> e]

\* A board travels as the list of its pieces.  The status of a piece travels
\* too; board_from_state turns a piece in the air into a standing one, so it
\* makes no difference to a window.
MakeState(pieces, kinds, isOver) ==
  [type |-> "state", pieces |-> pieces, kinds |-> kinds, over |-> isOver]
=============================================================================
