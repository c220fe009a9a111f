---------------------------- MODULE MCGameWindow ----------------------------
(***************************************************************************)
(* A small board for GameWindow: a white pawn one step from promotion, and *)
(* the black king it may take on the way.                                  *)
(***************************************************************************)
EXTENDS GameWindow, TLC

CONSTANTS wP, bK

WindowPieces == {wP, bK}
WindowColor  == (wP :> "w") @@ (bK :> "b")
WindowKind   == (wP :> "p") @@ (bK :> "k")
WindowSquare == (wP :> <<1, 0>>) @@ (bK :> <<2, 0>>)

\* A lone king that cannot move, for what has nothing to do with the board.
OnePieces == {bK}
OneColor  == (bK :> "b")
OneKind   == (bK :> "k")
OneSquare == (bK :> <<0, 0>>)
=============================================================================
