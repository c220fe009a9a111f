----------------------------- MODULE AbstractGame -----------------------------
(***************************************************************************)
(* What a game of KungFu Chess promises its players, with no board, no     *)
(* clock and no rules of movement: a piece stands, flies or is taken;      *)
(* every flight ends with the piece standing again, with the piece         *)
(* standing in the place of an enemy it took, or with the piece taken by   *)
(* an enemy in the air; nothing taken comes back; the game is decided by   *)
(* a taken king or by a forfeit, and nobody takes off afterwards.          *)
(*                                                                         *)
(* GameEngine implements this specification (AbstractGame's life is        *)
(* piece.status with moving and jumping made one).                         *)
(***************************************************************************)
CONSTANTS Pieces, ColorOf, Kings, Colors, NoColor

VARIABLES life, over, winner

avars == <<life, over, winner>>

Init ==
  /\ life = [p \in Pieces |-> "stands"]
  /\ over = FALSE
  /\ winner = NoColor

\* Others may be in the air: the code has no turns of any kind (tests/test_engine.py:12
\* asks for one; see MovesWaitTheirTurn of GameEngine).
Launch(p) ==
  /\ ~ over
  /\ life[p] = "stands"
  /\ life' = [life EXCEPT ![p] = "flies"]
  /\ UNCHANGED <<over, winner>>

\* Pieces already in the air when the game is decided may still come down.
Land(p) ==
  /\ life[p] = "flies"
  /\ life' = [life EXCEPT ![p] = "stands"]
  /\ UNCHANGED <<over, winner>>

\* The taker's side wins with a king.
Decide(victim, color) ==
  IF victim \in Kings
  THEN over' = TRUE /\ winner' = color
  ELSE UNCHANGED <<over, winner>>

LandAndTake(p, victim) ==
  /\ life[p] = "flies"
  /\ life[victim] = "stands"
  /\ ColorOf[victim] # ColorOf[p]
  /\ life' = [life EXCEPT ![p] = "stands", ![victim] = "taken"]
  /\ Decide(victim, ColorOf[p])

TakenInTheAir(p, taker) ==
  /\ life[p] = "flies"
  /\ life[taker] = "flies"
  /\ ColorOf[taker] # ColorOf[p]
  /\ life' = [life EXCEPT ![p] = "taken"]
  /\ Decide(p, ColorOf[taker])

Forfeit(c) ==
  /\ ~ over
  /\ over' = TRUE
  /\ winner' = c
  /\ UNCHANGED life

Next ==
  \/ \E p \in Pieces : Launch(p) \/ Land(p)
  \/ \E p, q \in Pieces : LandAndTake(p, q) \/ TakenInTheAir(p, q)
  \/ \E c \in Colors : Forfeit(c)

Spec == Init /\ [][Next]_avars
=============================================================================
