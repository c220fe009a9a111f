------------------------------ MODULE PieceRules ------------------------------
(***************************************************************************)
(* The movement rules of KungFu Chess: rules/piece_rules.py, the static    *)
(* generators of each piece's squares, and rules/rule_engine.py, the test  *)
(* the engine applies to every requested move.                             *)
(*                                                                         *)
(* The rules read a board and change nothing.  A board is a function from  *)
(* squares to what stands there: NoPiece, or a record with the colour, the *)
(* type and the status of the piece.  A square is a pair <<row, col>>; row *)
(* 0 is black's home row, and white pawns move towards it.                 *)
(***************************************************************************)
EXTENDS Integers

CONSTANTS
  NumRows,   \* board.num_rows
  NumCols,   \* board.num_cols
  NoPiece    \* what get_piece returns for an empty square

ASSUME BoardSizeAssumption == NumRows \in Nat \ {0} /\ NumCols \in Nat \ {0}

Colors   == {"w", "b"}
Kinds    == {"k", "q", "r", "b", "n", "p"}
Statuses == {"idle", "moving", "jumping", "captured"}

Squares == (0 .. NumRows - 1) \X (0 .. NumCols - 1)

Occupant == [color : Colors, kind : Kinds, status : Statuses]

ASSUME NoPieceAssumption == NoPiece \notin Occupant

-----------------------------------------------------------------------------
\* Sliding pieces.

Straight == {<<0, 1>>, <<0, -1>>, <<1, 0>>, <<-1, 0>>}
Diagonal == {<<1, 1>>, <<1, -1>>, <<-1, 1>>, <<-1, -1>>}

\* The n-th square the walk from start in direction dir reaches.
StepFrom(start, dir, n) == <<start[1] + n * dir[1], start[2] + n * dir[2]>>

\* Mutant: a jumping piece does not block the way.
WalksOverJumpers(board, s) == board[s] = NoPiece \/ board[s].status # "idle"

\* The walk goes on past an empty square and past the origin of a piece that
\* moves; every other piece ends it, one that jumps too.
WalksOver(board, s) == board[s] = NoPiece \/ board[s].status = "moving"

EnemyAt(board, s, color) == board[s] # NoPiece /\ board[s].color # color

\* The squares of one ray: every step before the last was walked over, and
\* the last one is walked over too or holds an enemy.
RayMoves(board, start, dir) ==
  LET Reached(n) == StepFrom(start, dir, n)
  IN  { Reached(n) : n \in { m \in 1 .. NumRows + NumCols :
          /\ Reached(m) \in Squares
          /\ \A k \in 1 .. m - 1 : WalksOver(board, Reached(k))
          /\ WalksOver(board, Reached(m)) \/ EnemyAt(board, Reached(m), board[start].color) } }

GetStraightMoves(board, start) == UNION { RayMoves(board, start, d) : d \in Straight }
GetDiagonalMoves(board, start) == UNION { RayMoves(board, start, d) : d \in Diagonal }

-----------------------------------------------------------------------------
\* Knight, king and pawn.

KnightOffsets == { o \in (-2 .. 2) \X (-2 .. 2) : o[1] * o[1] + o[2] * o[2] = 5 }
KingOffsets   == ((-1 .. 1) \X (-1 .. 1)) \ {<<0, 0>>}

\* One step by an offset.  The status of what stands on the target is not
\* looked at: the origin of a friend in flight still blocks.
StepMoves(board, start, offsets) ==
  { s \in Squares :
      /\ \E o \in offsets : s = StepFrom(start, o, 1)
      /\ board[s] = NoPiece \/ EnemyAt(board, s, board[start].color) }

GetKnightMoves(board, start) == StepMoves(board, start, KnightOffsets)
GetKingMoves(board, start)   == StepMoves(board, start, KingOffsets)

PawnDirection(color) == IF color = "w" THEN -1 ELSE 1
PawnStartRow(color)  == IF color = "w" THEN NumRows - 2 ELSE 1

\* A pawn pushes only over squares nothing is registered on, and captures
\* diagonally only where an enemy is registered.
GetPawnMoves(board, start) ==
  LET color == board[start].color
      dir   == PawnDirection(color)
      one   == <<start[1] + dir, start[2]>>
      two   == <<start[1] + 2 * dir, start[2]>>
  IN  { s \in Squares :
          \/ s = one /\ board[s] = NoPiece
          \/ /\ s = two
             /\ start[1] = PawnStartRow(color)
             /\ board[one] = NoPiece
             /\ board[s] = NoPiece
          \/ /\ s \in {<<start[1] + dir, start[2] - 1>>, <<start[1] + dir, start[2] + 1>>}
             /\ EnemyAt(board, s, color) }

-----------------------------------------------------------------------------
\* RuleEngine.is_move_legal

MovesOf(board, start) ==
  LET kind == board[start].kind
  IN  CASE kind = "r" -> GetStraightMoves(board, start)
        [] kind = "b" -> GetDiagonalMoves(board, start)
        [] kind = "q" -> GetStraightMoves(board, start) \cup GetDiagonalMoves(board, start)
        [] kind = "n" -> GetKnightMoves(board, start)
        [] kind = "k" -> GetKingMoves(board, start)
        [] kind = "p" -> GetPawnMoves(board, start)

IsMoveLegal(board, start, end) ==
  /\ start # end
  /\ board[start] # NoPiece
  /\ ~ (board[end] # NoPiece /\ board[end].color = board[start].color)
  /\ end \in MovesOf(board, start)
=============================================================================
