--------------------------- MODULE ClickController ---------------------------
(***************************************************************************)
(* Playing with the mouse: controller/controller.py and board_mapper.py    *)
(* over one GameEngine, driven by the commands of texttests/script_runner. *)
(*                                                                         *)
(* A move takes two clicks, and the clock runs between them.  The          *)
(* controller keeps the square of the first click and not the piece, so    *)
(* what the second click launches is whatever stands there by then, of     *)
(* either colour; the controller has no players.                           *)
(***************************************************************************)
EXTENDS GameEngine

CONSTANTS
  CellSize,   \* pixels of a square's side (CELL_SIZE)
  Pixels,     \* bound: the coordinates clicks come from
  Nowhere     \* no selection (None)

ASSUME ClickAssumption ==
  /\ CellSize \in Nat \ {0}
  /\ Pixels \subseteq Int
  /\ Nowhere \notin Squares

VARIABLE selected   \* controller._selected

clickVars == <<vars, selected>>

ClickTypeOK == TypeOK /\ selected \in Squares \cup {Nowhere}

ClickInit == Init /\ selected = Nowhere

-----------------------------------------------------------------------------
\* BoardMapper.to_position, and whether it finds a square.
ToPosition(x, y) == <<y \div CellSize, x \div CellSize>>

\* The first click takes any piece there is, also one in the air.
SelectFirst(s) ==
  /\ selected = Nowhere
  /\ grid[s] # NoPiece
  /\ selected' = s
  /\ UNCHANGED vars

\* The engine's conditions on the piece it is asked to launch.
Answers(s) == ~ gameOver /\ grid[s] # NoPiece /\ status[grid[s]] = "idle"

\* A second click on the same square asks for a jump; the engine may refuse.
ClickJumps(s) ==
  /\ selected = s
  /\ selected' = Nowhere
  /\ \/ HandleJumpRequest(s)
     \/ ~ Answers(s) /\ UNCHANGED vars

SameColor(s) == grid[selected] # NoPiece /\ grid[s] # NoPiece /\ ColorOf[grid[selected]] = ColorOf[grid[s]]

\* A piece of the same colour is selected instead.
SelectOther(s) ==
  /\ selected \notin {Nowhere, s}
  /\ SameColor(s)
  /\ selected' = s
  /\ UNCHANGED vars

\* The move the two clicks ask for, if the engine grants it.  A selected square
\* that is empty by now is forgotten.
ClickMoves(s) ==
  /\ selected \notin {Nowhere, s}
  /\ ~ SameColor(s)
  /\ selected' = Nowhere
  /\ \/ HandleMoveRequest(selected, s)
     \/ ~ (Answers(selected) /\ IsMoveLegal(Board, selected, s)) /\ UNCHANGED vars

\* Controller.click.  A click beside the board does nothing, and neither does a
\* first click on an empty square.
Click(x, y) ==
  /\ landing = {}
  /\ ToPosition(x, y) \in Squares
  /\ LET s == ToPosition(x, y)
     IN  SelectFirst(s) \/ ClickJumps(s) \/ SelectOther(s) \/ ClickMoves(s)

\* ScriptRunner.run_script's commands: click, jump and wait.  Printing the board
\* changes nothing.
ScriptClick == \E x, y \in Pixels : Click(x, y)

ScriptJump ==
  /\ \E x, y \in Pixels : ToPosition(x, y) \in Squares /\ HandleJumpRequest(ToPosition(x, y))
  /\ UNCHANGED selected

ScriptWait ==
  /\ Clock \/ Settling
  /\ UNCHANGED selected

ClickNext == ScriptClick \/ ScriptJump \/ ScriptWait

ClickSpec == ClickInit /\ [][ClickNext]_clickVars

\* A script waits now and then, and a wait runs to its end.
ClickFairSpec ==
  /\ ClickSpec
  /\ WF_clickVars(Clock /\ UNCHANGED selected)
  /\ WF_clickVars(Settling /\ UNCHANGED selected)

-----------------------------------------------------------------------------
\* Whatever is clicked, the board sees a run of the engine: no click does what
\* no request could.
ImplementsEngine == Spec
=============================================================================
