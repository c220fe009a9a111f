------------------------------ MODULE GameEngine ------------------------------
(***************************************************************************)
(* One game of KungFu Chess: engine/game_engine.py on top of               *)
(* realtime/real_time_arbiter.py, model/board.py and engine/scoreboard.py, *)
(* behind Server/infrastructure/game/engine_adapter.py.                    *)
(*                                                                         *)
(* There are no turns.  A player launches any of his standing pieces; the  *)
(* piece is in the air for one CellTime per square of the way, and a clock *)
(* update brings it down.  Several pieces of both colours are in the air   *)
(* at once, and one clock update may bring down several: the engine then   *)
(* settles them one after the other in a fixed order.                      *)
(*                                                                         *)
(* The engine's calls are synchronous and run on one thread, so a request  *)
(* never meets a half-settled update: requests and clock updates wait      *)
(* until landing, the rest of the update's loop, is empty.  A request the  *)
(* engine refuses changes nothing and has no action.                       *)
(***************************************************************************)
EXTENDS PieceRules, FiniteSets

CONSTANTS
  Pieces,      \* the Piece objects of the board
  ColorOf,     \* piece.color
  InitKind,    \* piece.piece_type at the start
  InitSquare,  \* where the board loader puts each piece
  CellTime,    \* clock units for one square of a move (MS_PER_CELL)
  JumpTime,    \* clock units a jump takes (game_engine.py: 1000 ms)
  ClockSteps,  \* what update_game_clock is called with (TICK_MS; a script's wait)
  NoColor      \* the winner of a game that is not decided (None)

ASSUME PiecesAssumption ==
  /\ IsFiniteSet(Pieces)
  /\ NoPiece \notin Pieces
  /\ NoColor \notin Colors
  /\ ColorOf \in [Pieces -> Colors]
  /\ InitKind \in [Pieces -> Kinds]
  /\ InitSquare \in [Pieces -> Squares]
  /\ \A p, q \in Pieces : InitSquare[p] = InitSquare[q] => p = q

ASSUME ClockAssumption ==
  /\ CellTime \in Nat \ {0}
  /\ JumpTime \in Nat \ {0}
  /\ ClockSteps \subseteq Nat \ {0}

VARIABLES
  grid,      \* board._grid: the piece registered on each square, or NoPiece
  kind,      \* piece.piece_type
  status,    \* piece.status
  motions,   \* arbiter._active_motions
  landing,   \* completed motions the current update has still to settle
  score,     \* scoreboard.plaier1_score, plaier2_score, by colour
  gameOver,  \* engine.game_over
  winner     \* engine.winner

vars == <<grid, kind, status, motions, landing, score, gameOver, winner>>

\* launch stands for motion_id: it orders the motions that can tie on
\* (remaining_time, original_duration), and is never looked at otherwise.
Motion == [piece : Pieces, start : Squares, end : Squares, jump : BOOLEAN,
           remaining : Int, duration : Nat, launch : Nat]

PieceValue(k) ==
  CASE k = "p" -> 1 [] k \in {"n", "b"} -> 3 [] k = "r" -> 5 [] k = "q" -> 9 [] k = "k" -> 0

Enemy(color) == IF color = "w" THEN "b" ELSE "w"

\* The board as the rules see it.
Board == [s \in Squares |->
            IF grid[s] = NoPiece
            THEN NoPiece
            ELSE [color |-> ColorOf[grid[s]], kind |-> kind[grid[s]], status |-> status[grid[s]]]]

TypeOK ==
  /\ grid \in [Squares -> Pieces \cup {NoPiece}]
  /\ kind \in [Pieces -> Kinds]
  /\ status \in [Pieces -> Statuses]
  /\ motions \subseteq Motion /\ IsFiniteSet(motions)
  /\ landing \subseteq Motion
  /\ score \in [Colors -> Nat]
  /\ gameOver \in BOOLEAN
  /\ winner \in Colors \cup {NoColor}

Init ==
  /\ grid = [s \in Squares |->
               IF \E p \in Pieces : InitSquare[p] = s
               THEN CHOOSE p \in Pieces : InitSquare[p] = s
               ELSE NoPiece]
  /\ kind = InitKind
  /\ status = [p \in Pieces |-> "idle"]
  /\ motions = {}
  /\ landing = {}
  /\ score = [c \in Colors |-> 0]
  /\ gameOver = FALSE
  /\ winner = NoColor

-----------------------------------------------------------------------------
\* Requests of the players.

Abs(n) == IF n < 0 THEN -n ELSE n
Sign(n) == IF n > 0 THEN 1 ELSE IF n < 0 THEN -1 ELSE 0
Chebyshev(s, e) ==
  LET dr == Abs(e[1] - s[1])
      dc == Abs(e[2] - s[2])
  IN  IF dr > dc THEN dr ELSE dc

NewMotion(p, s, e, jump, duration) ==
  [piece |-> p, start |-> s, end |-> e, jump |-> jump,
   remaining |-> duration, duration |-> duration,
   launch |-> Cardinality({m \in motions : m.remaining = duration /\ m.duration = duration})]

Heading(m) == <<Sign(m.end[1] - m.start[1]), Sign(m.end[2] - m.start[2])>>

\* _are_on_collision_course: the two head in opposite directions, and the newer
\* one, b, starts on a square of the older one's straight way.  Only the signs
\* of the directions count, also for a knight's.
OnCollisionCourse(a, b) ==
  LET dir   == Heading(a)
      reach == IF dir[1] # 0 THEN Abs(a.end[1] - a.start[1]) ELSE Abs(a.end[2] - a.start[2])
  IN  /\ dir # <<0, 0>>
      /\ Heading(b) = <<-dir[1], -dir[2]>>
      /\ \E n \in 1 .. reach : b.start = StepFrom(a.start, dir, n)

\* handle_jump_request
HandleJumpRequest(s) ==
  LET p == grid[s]
  IN  /\ landing = {} /\ ~ gameOver
      /\ p # NoPiece /\ status[p] = "idle"
      /\ status' = [status EXCEPT ![p] = "jumping"]
      /\ motions' = motions \cup {NewMotion(p, s, s, TRUE, JumpTime)}
      /\ UNCHANGED <<grid, kind, landing, score, gameOver, winner>>

\* Mutant: neither the piece's status nor the end of the game is looked at.
HandleMoveRequestUnchecked(s, e) ==
  LET p == grid[s]
  IN  /\ landing = {}
      /\ p # NoPiece
      /\ IsMoveLegal(Board, s, e)
      /\ status' = [status EXCEPT ![p] = "moving"]
      /\ motions' = motions \cup {NewMotion(p, s, e, FALSE, Chebyshev(s, e) * CellTime)}
      /\ UNCHANGED <<grid, kind, landing, score, gameOver, winner>>

\* handle_move_request with start_motion.  The piece leaves in status moving
\* even when the collision check drops its motion at once.
HandleMoveRequest(s, e) ==
  LET p == grid[s]
      m == NewMotion(p, s, e, FALSE, Chebyshev(s, e) * CellTime)
  IN  /\ landing = {} /\ ~ gameOver
      /\ p # NoPiece /\ status[p] = "idle"
      /\ IsMoveLegal(Board, s, e)
      /\ status' = [status EXCEPT ![p] = "moving"]
      /\ motions' = IF \E old \in motions : OnCollisionCourse(old, m)
                    THEN motions
                    ELSE motions \cup {m}
      /\ UNCHANGED <<grid, kind, landing, score, gameOver, winner>>

\* KungFuEngineAdapter.force_forfeit
ForceForfeit(c) ==
  /\ landing = {} /\ ~ gameOver
  /\ gameOver' = TRUE
  /\ winner' = c
  /\ UNCHANGED <<grid, kind, status, motions, landing, score>>

-----------------------------------------------------------------------------
\* The clock.

\* Mutant: a jump does not age.
AgedMoves(m, ms) == IF m.jump THEN m ELSE [m EXCEPT !.remaining = @ - ms]

Aged(m, ms) == [m EXCEPT !.remaining = @ - ms]

\* update_game_clock up to its loop: advance_time ages every motion and hands
\* out those whose time is up.
UpdateGameClock(ms) ==
  /\ landing = {} /\ ~ gameOver
  /\ LET aged == {Aged(m, ms) : m \in motions}
     IN  /\ landing' = {m \in aged : m.remaining <= 0}
         /\ motions' = {m \in aged : m.remaining > 0}
  /\ UNCHANGED <<grid, kind, status, score, gameOver, winner>>

\* Mutant: the sort key ends before motion_id.
SettlesBeforeOrTies(a, b) ==
  \/ a.remaining < b.remaining
  \/ a.remaining = b.remaining /\ a.duration < b.duration
  \/ a.remaining = b.remaining /\ a.duration = b.duration /\ ~ a.jump /\ b.jump

\* The sort key (remaining_time, original_duration, is_jump, -motion_id).
SettlesBefore(a, b) ==
  \/ a.remaining < b.remaining
  \/ /\ a.remaining = b.remaining
     /\ \/ a.duration < b.duration
        \/ /\ a.duration = b.duration
           /\ \/ ~ a.jump /\ b.jump
              \/ a.jump = b.jump /\ a.launch > b.launch

IsNext(m) == m \in landing /\ \A other \in landing \ {m} : SettlesBefore(m, other)

\* Mutant: the origin is not cleared.
LiftedNothing(m) == grid

\* The board after m.piece has left its origin.  Another piece may stand there
\* by now, and then it stays.
Lifted(m) == IF grid[m.start] = m.piece THEN [grid EXCEPT ![m.start] = NoPiece] ELSE grid

\* The loop body skips a motion whose piece is captured, and ends a jump where
\* it began.
SettleInPlace(m) ==
  /\ IsNext(m)
  /\ status[m.piece] = "captured" \/ m.jump
  /\ landing' = landing \ {m}
  /\ status' = IF status[m.piece] = "captured"
               THEN status
               ELSE [status EXCEPT ![m.piece] = "idle"]
  /\ UNCHANGED <<grid, kind, motions, score, gameOver, winner>>

MoveLands(m) == IsNext(m) /\ status[m.piece] # "captured" /\ ~ m.jump

\* Mutant: a jump protects nobody.
JumperAtNever(m) == FALSE

JumperAt(m) ==
  LET j == grid[m.end]
  IN  j # NoPiece /\ status[j] = "jumping" /\ ColorOf[j] # ColorOf[m.piece]

\* Mutant: the points of a capture are taken from the side that made it.
TakenForPenalty(p, c) ==
  /\ score' = [score EXCEPT ![c] = @ - PieceValue(kind[p])]
  /\ gameOver' = (gameOver \/ kind[p] = "k")
  /\ winner' = IF kind[p] = "k" THEN c ELSE winner

\* Mutant: the side that lost its king wins.
TakenKingWins(p, c) ==
  /\ score' = [score EXCEPT ![c] = @ + PieceValue(kind[p])]
  /\ gameOver' = (gameOver \/ kind[p] = "k")
  /\ winner' = IF kind[p] = "k" THEN ColorOf[p] ELSE winner

\* A king taken by the side c ends the game for c.
Taken(p, c) ==
  /\ score' = [score EXCEPT ![c] = @ + PieceValue(kind[p])]
  /\ gameOver' = (gameOver \/ kind[p] = "k")
  /\ winner' = IF kind[p] = "k" THEN c ELSE winner

\* The arriving piece meets a jumping enemy and is the one captured.
SettleOnJumper(m) ==
  /\ MoveLands(m)
  /\ JumperAt(m)
  /\ landing' = landing \ {m}
  /\ status' = [status EXCEPT ![m.piece] = "captured"]
  /\ grid' = Lifted(m)
  /\ Taken(m.piece, ColorOf[grid[m.end]])
  /\ UNCHANGED <<kind, motions>>

StandsAt(s) == grid[s] # NoPiece /\ status[grid[s]] = "idle"

\* Mutant: friends are captured too.
MayLandAnywhere(m) == TRUE

\* The target's square is free, or an enemy's.
MayLand(m) == StandsAt(m.end) => ColorOf[grid[m.end]] # ColorOf[m.piece]

\* A friend stands on the target: the arriving piece becomes idle where it is
\* registered, which may be nowhere by now.
SettleBlocked(m) ==
  /\ MoveLands(m)
  /\ ~ JumperAt(m)
  /\ ~ MayLand(m)
  /\ landing' = landing \ {m}
  /\ status' = [status EXCEPT ![m.piece] = "idle"]
  /\ UNCHANGED <<grid, kind, motions, score, gameOver, winner>>

PromotionRow(color) == IF color = "w" THEN 0 ELSE NumRows - 1

\* The kinds after p has arrived at end.
Promoted(p, end) ==
  IF kind[p] = "p" /\ end[1] = PromotionRow(ColorOf[p]) THEN [kind EXCEPT ![p] = "q"] ELSE kind

\* The arriving piece takes the square, an idle enemy on it is captured, and
\* whatever else is registered there is overwritten.
SettleArrive(m) ==
  LET p       == m.piece
      victim  == grid[m.end]
      capture == StandsAt(m.end)
      landed  == [status EXCEPT ![p] = "idle"]
  IN  /\ MoveLands(m)
      /\ ~ JumperAt(m)
      /\ MayLand(m)
      /\ landing' = landing \ {m}
      /\ status' = IF capture THEN [landed EXCEPT ![victim] = "captured"] ELSE landed
      /\ grid' = [Lifted(m) EXCEPT ![m.end] = p]
      /\ kind' = Promoted(p, m.end)
      /\ IF capture
         THEN Taken(victim, ColorOf[p])
         ELSE UNCHANGED <<score, gameOver, winner>>
      /\ UNCHANGED motions

Settle(m) ==
  \/ SettleInPlace(m)
  \/ SettleOnJumper(m)
  \/ SettleBlocked(m)
  \/ SettleArrive(m)

-----------------------------------------------------------------------------
Request ==
  \/ \E s \in Squares : HandleJumpRequest(s)
  \/ \E s, e \in Squares : HandleMoveRequest(s, e)
  \/ \E c \in Colors : ForceForfeit(c)

Clock == \E ms \in ClockSteps : UpdateGameClock(ms)

Settling == \E m \in landing : Settle(m)

Next == Request \/ Clock \/ Settling

Spec == Init /\ [][Next]_vars

\* The server's loop, and the screen's, keep calling the clock, and a call that
\* began runs to its end.  Nothing obliges a player to do anything.
FairSpec == Spec /\ WF_vars(Clock) /\ WF_vars(Settling)

-----------------------------------------------------------------------------
\* Safety.

InFlight == motions \cup landing

OnBoard(p) == \E s \in Squares : grid[s] = p

\* Every flight belongs to the engine's book-keeping: a piece has one motion at
\* most, of the sort its status says, a jumping piece has one, and a piece that
\* stands or is captured has none.  (handle_move_request and handle_jump_request
\* look at the status only, never at the list of motions.)
MotionDiscipline ==
  /\ \A m, n \in InFlight : m.piece = n.piece => m = n
  /\ \A m \in InFlight :
       /\ status[m.piece] = IF m.jump THEN "jumping" ELSE "moving"
       /\ m.jump => m.start = m.end
  /\ \A p \in Pieces :
       status[p] = "jumping" => \E m \in InFlight : m.piece = p /\ m.jump

\* A piece is registered on one square at most, although a flight leaves it on
\* its origin until it lands and another piece may take the origin meanwhile.
OnePlacePerPiece ==
  \A s, t \in Squares : grid[s] = grid[t] /\ grid[s] # NoPiece => s = t

\* A captured piece has left the board, so no square still shows it and no rule
\* is blocked by it.
CapturedIsGone == \A p \in Pieces : status[p] = "captured" => ~ OnBoard(p)

\* What the squares show is what is there: every piece once at most, and none
\* that was taken.
BoardShowsTheLiving == OnePlacePerPiece /\ CapturedIsGone

\* The loop over several landings goes on after a king is taken, and may take
\* the other king too: whatever it does, the game is over, and the winner is a
\* side whose enemy's king was taken.
KingTakenEndsGame ==
  \A p \in Pieces : kind[p] = "k" /\ status[p] = "captured" =>
     /\ gameOver
     /\ \E q \in Pieces :
          kind[q] = "k" /\ status[q] = "captured" /\ ColorOf[q] = Enemy(winner)

\* A game ends with a winner, and only then has one.
WinnerIffOver == gameOver <=> winner # NoColor

\* Two motions that come down in one update never tie: the order in which they
\* settle, and so who captures whom, is fixed by the times and the launches.
SettleOrderIsStrict ==
  \A a, b \in landing : a # b => (SettlesBefore(a, b) <=> ~ SettlesBefore(b, a))

-----------------------------------------------------------------------------
\* Action properties.

\* A piece that stands on the board is displaced by nothing but an enemy that
\* captures it there in the same step.
CapturedOrKept ==
  \A s \in Squares : StandsAt(s) /\ grid'[s] # grid[s] =>
    /\ status'[grid[s]] = "captured"
    /\ grid'[s] # NoPiece
    /\ ColorOf[grid'[s]] = Enemy(ColorOf[grid[s]])

StandingPieceSafe == [][CapturedOrKept]_vars

\* A jumping piece is out of its enemies' reach: no step captures it, and no
\* enemy takes its square.
NoEnemyTakesJumper ==
  \A s \in Squares :
    grid[s] # NoPiece /\ status[grid[s]] = "jumping" =>
      /\ status'[grid[s]] # "captured"
      /\ grid'[s] # NoPiece /\ ColorOf[grid'[s]] = ColorOf[grid[s]]

JumperOutOfReach == [][NoEnemyTakesJumper]_vars

\* A move is refused while something is in the air, as tests/test_engine.py:12-24 asks
\* for.  The engine looks at the piece it is to launch only, so this is not so.
MovesWaitTheirTurn == [][\A p \in Pieces : status[p] # "moving" /\ status'[p] = "moving" => motions = {}]_vars

-----------------------------------------------------------------------------
\* Liveness, under FairSpec.

\* What is in the air comes down, however many launches come in between, unless
\* the game ends first (the clock stops then).
FlightEnds ==
  \A p \in Pieces :
    (\E m \in InFlight : m.piece = p) ~> (gameOver \/ \A m \in InFlight : m.piece # p)

-----------------------------------------------------------------------------
\* The abstract game.

Kings == {p \in Pieces : InitKind[p] = "k"}

Life(st) ==
  CASE st = "idle" -> "stands" [] st \in {"moving", "jumping"} -> "flies" [] st = "captured" -> "taken"

AbsGame == INSTANCE AbstractGame WITH
             life <- [p \in Pieces |-> Life(status[p])], over <- gameOver

\* GameEngine implements AbstractGame: whatever lands in whatever order, pieces
\* are taken only by enemies, one flight takes one piece at most, nothing taken
\* comes back, and nobody takes off once the game is decided.
ImplementsAbstractGame == AbsGame!Spec

=============================================================================
