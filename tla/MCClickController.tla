-------------------------- MODULE MCClickController --------------------------
(***************************************************************************)
(* Small boards for ClickController and the engine under it, and the       *)
(* property that adds up points.                                           *)
(***************************************************************************)
EXTENDS ClickController, FiniteSetsExt, TLC

CONSTANTS wK, wR, bK, bP

\* 4x1: a pawn between an enemy rook and the enemy king, its own king behind the
\* rook.  Both kings can fall in one update; ways are of one square and of more,
\* also head-on; the pawn steps twice, is promoted and is captured after that.
ColumnPieces == {wK, wR, bK, bP}
ColumnColor  == (wK :> "w") @@ (wR :> "w") @@ (bK :> "b") @@ (bP :> "b")
ColumnKind   == (wK :> "k") @@ (wR :> "r") @@ (bK :> "k") @@ (bP :> "p")
ColumnSquare == (wK :> <<0, 0>>) @@ (bP :> <<1, 0>>) @@ (wR :> <<2, 0>>) @@ (bK :> <<3, 0>>)

\* Every square, its edges, and one pixel beside the board on each side.
ColumnPixels == -1 .. NumRows * CellSize

-----------------------------------------------------------------------------
\* A side's points are the values of the enemies it captured, each counted once
\* and at what it was worth when it fell.
ScoreMatchesCaptures ==
  \A c \in Colors :
    score[c] = MapThenSumSet(LAMBDA p : PieceValue(kind[p]),
                             {p \in Pieces : status[p] = "captured" /\ ColorOf[p] # c})
=============================================================================
