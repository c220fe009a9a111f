---------------------------- MODULE RulesReference ----------------------------
(***************************************************************************)
(* The rules of movement a second time, for comparison with PieceRules.    *)
(*                                                                         *)
(* PieceRules walks: it steps along rays and stops at what blocks them, as *)
(* the code's loops do.  The reference never walks: it looks at the        *)
(* difference of the two squares and at the squares of the segment between *)
(* them.                                                                   *)
(***************************************************************************)
EXTENDS PieceRules

Distance(a, b) == IF a < b THEN b - a ELSE a - b

Within(x, a, b) == (a <= x /\ x <= b) \/ (b <= x /\ x <= a)

\* The squares strictly between s and e on the segment that joins them.
Between(s, e) ==
  { t \in Squares \ {s, e} :
      /\ (t[1] - s[1]) * (e[2] - s[2]) = (t[2] - s[2]) * (e[1] - s[1])
      /\ Within(t[1], s[1], e[1]) /\ Within(t[2], s[2], e[2]) }

Clear(board, s, e) ==
  \A t \in Between(s, e) : board[t] = NoPiece \/ board[t].status = "moving"

ReferenceLegal(board, s, e) ==
  LET rows    == Distance(s[1], e[1])
      cols    == Distance(s[2], e[2])
      straight == (rows = 0 \/ cols = 0) /\ Clear(board, s, e)
      diagonal == rows = cols /\ Clear(board, s, e)
      me      == board[s].color
      ahead   == IF me = "w" THEN s[1] - e[1] ELSE e[1] - s[1]
      home    == IF me = "w" THEN s[1] = NumRows - 2 ELSE s[1] = 1
      enemy   == board[e] # NoPiece
  IN  /\ s # e
      /\ board[e] = NoPiece \/ board[e].color # me
      /\ CASE board[s].kind = "r" -> straight
           [] board[s].kind = "b" -> diagonal
           [] board[s].kind = "q" -> straight \/ diagonal
           [] board[s].kind = "n" -> {rows, cols} = {1, 2}
           [] board[s].kind = "k" -> rows <= 1 /\ cols <= 1
           [] board[s].kind = "p" ->
                \/ cols = 0 /\ ahead = 1 /\ ~ enemy
                \/ cols = 1 /\ ahead = 1 /\ enemy
                \/ /\ cols = 0 /\ ahead = 2 /\ home /\ ~ enemy
                   /\ \A t \in Between(s, e) : board[t] = NoPiece
=============================================================================
