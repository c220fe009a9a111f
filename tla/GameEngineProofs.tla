--------------------------- MODULE GameEngineProofs ---------------------------
(***************************************************************************)
(* Proofs about GameEngine, ClickController and PieceRules, for every      *)
(* board, set of pieces and clock.                                         *)
(*                                                                         *)
(* The inductive invariant IInv adds to the checked invariants the fact    *)
(* HomeOrNowhere: while a piece is in the air the board shows it on its    *)
(* origin or not at all.  Without it nothing says that a piece captured on *)
(* arrival, which the code takes off its origin only, is not left standing *)
(* on some other square.                                                   *)
(***************************************************************************)
EXTENDS MCClickController, RulesReference, FiniteSetTheorems, TLAPS

\* A piece in the air is registered on the origin of its motion, or, when
\* another piece has landed there since, nowhere.
HomeOrNowhere ==
  \A m \in InFlight, s \in Squares : grid[s] = m.piece => s = m.start

\* A motion is either still counting down or waiting to be settled.
SeparateBooks == motions \cap landing = {}

IInv ==
  /\ TypeOK
  /\ SeparateBooks
  /\ MotionDiscipline
  /\ OnePlacePerPiece
  /\ CapturedIsGone
  /\ HomeOrNowhere
  /\ WinnerIffOver
  /\ KingTakenEndsGame

-----------------------------------------------------------------------------
\* Lemmas on the operators.

\* The distance of two squares, and so the duration of a move, is a natural number.
LEMMA DistanceNat ==
  ASSUME NEW s \in Squares, NEW e \in Squares
  PROVE  /\ Chebyshev(s, e) \in Nat
         /\ Chebyshev(s, e) * CellTime \in Nat
<1>1. s[1] \in Int /\ s[2] \in Int /\ e[1] \in Int /\ e[2] \in Int
  BY BoardSizeAssumption DEF Squares
<1>2. Abs(e[1] - s[1]) \in Nat /\ Abs(e[2] - s[2]) \in Nat
  BY <1>1 DEF Abs
<1>3. Chebyshev(s, e) \in Nat
  BY <1>2 DEF Chebyshev
<1> QED
  BY <1>3, ClockAssumption

\* A request creates a well-formed motion.
LEMMA NewMotionType ==
  ASSUME TypeOK, NEW p \in Pieces, NEW s \in Squares, NEW e \in Squares,
         NEW j \in BOOLEAN, NEW d \in Nat
  PROVE  NewMotion(p, s, e, j, d) \in Motion
<1> DEFINE Ties == {m \in motions : m.remaining = d /\ m.duration = d}
<1>1. IsFiniteSet(Ties)
  BY FS_Subset, Ties \subseteq motions DEF TypeOK
<1>2. Cardinality(Ties) \in Nat
  BY <1>1, FS_CardinalityType
<1> QED
  BY <1>2 DEF NewMotion, Motion

\* Every kind of piece has its points.
LEMMA PieceValueNat == ASSUME NEW k \in Kinds PROVE PieceValue(k) \in Nat
BY DEF Kinds, PieceValue

\* Two pieces of different colours are each other's enemies.
LEMMA EnemyIsOther ==
  ASSUME NEW c \in Colors, NEW d \in Colors, c # d
  PROVE  c = Enemy(d)
BY DEF Colors, Enemy

\* The board after a piece has left its origin differs from the board before at
\* that origin only, and only if the piece was still registered there.
LEMMA LiftedIs ==
  ASSUME TypeOK, NEW m \in Motion
  PROVE  /\ Lifted(m) \in [Squares -> Pieces \cup {NoPiece}]
         /\ \A s \in Squares :
              Lifted(m)[s] = IF s = m.start /\ grid[s] = m.piece THEN NoPiece ELSE grid[s]
BY DEF TypeOK, Motion, Lifted

-----------------------------------------------------------------------------
LEMMA InitIInv == Init => IInv
<1> SUFFICES ASSUME Init PROVE IInv
  OBVIOUS
<1> USE DEF Init
<1>1. \A s \in Squares : grid[s] # NoPiece => grid[s] \in Pieces /\ InitSquare[grid[s]] = s
  BY PiecesAssumption
<1>2. TypeOK
  <2>1. grid \in [Squares -> Pieces \cup {NoPiece}]
    BY PiecesAssumption
  <2>2. IsFiniteSet(motions)
    BY FS_EmptySet
  <2> QED
    BY <2>1, <2>2, PiecesAssumption DEF TypeOK, Statuses
<1>3. OnePlacePerPiece
  BY <1>1 DEF OnePlacePerPiece
<1>4. MotionDiscipline /\ CapturedIsGone /\ HomeOrNowhere /\ SeparateBooks
  BY DEF SeparateBooks, MotionDiscipline, CapturedIsGone, HomeOrNowhere, InFlight
<1>5. WinnerIffOver /\ KingTakenEndsGame
  BY DEF WinnerIffOver, KingTakenEndsGame
<1> QED
  BY <1>2, <1>3, <1>4, <1>5 DEF IInv

-----------------------------------------------------------------------------
\* Requests preserve the invariant.

\* What a launch does to the book-keeping, whether its motion stays (keep) or is
\* dropped by the collision check.
LEMMA LaunchIInv ==
  ASSUME IInv, landing = {}, ~ gameOver,
         NEW s \in Squares, grid[s] # NoPiece, status[grid[s]] = "idle",
         NEW m \in Motion, m.piece = grid[s], m.start = s, m.jump => m.end = s,
         status' = [status EXCEPT ![grid[s]] = IF m.jump THEN "jumping" ELSE "moving"],
         motions' = motions \cup {m} \/ (~ m.jump /\ motions' = motions),
         UNCHANGED <<grid, kind, landing, score, gameOver, winner>>
  PROVE  IInv'
<1> DEFINE p == grid[s]
<1> USE DEF IInv
<1>1. p \in Pieces
  BY DEF TypeOK
<1>2. \A n \in InFlight : n.piece # p
  BY DEF MotionDiscipline
<1>3. InFlight' \subseteq InFlight \cup {m} /\ InFlight \subseteq InFlight'
  BY DEF InFlight
<1>3a. m.jump => m \in InFlight'
  BY DEF InFlight
<1>4. TypeOK'
  <2>1. IsFiniteSet(motions \cup {m})
    BY FS_AddElement DEF TypeOK
  <2>2. status' \in [Pieces -> Statuses]
    BY <1>1 DEF TypeOK, Statuses
  <2> QED
    BY <2>1, <2>2 DEF TypeOK
<1>5. MotionDiscipline'
  <2>1. \A n \in InFlight : status'[n.piece] = status[n.piece]
    BY <1>1, <1>2 DEF TypeOK, InFlight, Motion
  <2>2. status'[p] = IF m.jump THEN "jumping" ELSE "moving"
    BY <1>1 DEF TypeOK
  <2>3. \A q \in Pieces : q # p => status'[q] = status[q]
    BY <1>1 DEF TypeOK
  <2>4. \A n, o \in InFlight' : n.piece = o.piece => n = o
    BY <1>2, <1>3 DEF MotionDiscipline
  <2>5. \A n \in InFlight' :
          /\ status'[n.piece] = IF n.jump THEN "jumping" ELSE "moving"
          /\ n.jump => n.start = n.end
    BY <1>3, <2>1, <2>2 DEF MotionDiscipline
  <2>6. \A q \in Pieces : status'[q] = "jumping" => \E n \in InFlight' : n.piece = q /\ n.jump
    BY <1>3, <1>3a, <2>2, <2>3 DEF MotionDiscipline
  <2> QED
    BY <2>4, <2>5, <2>6 DEF MotionDiscipline
<1>6. OnePlacePerPiece'
  BY DEF OnePlacePerPiece
<1>7. CapturedIsGone'
  BY <1>1 DEF CapturedIsGone, OnBoard, TypeOK
<1>8. HomeOrNowhere'
  BY <1>3 DEF HomeOrNowhere, OnePlacePerPiece
<1>9. WinnerIffOver' /\ KingTakenEndsGame' /\ SeparateBooks'
  BY <1>1 DEF SeparateBooks, WinnerIffOver, KingTakenEndsGame, TypeOK
<1> QED
  BY <1>4, <1>5, <1>6, <1>7, <1>8, <1>9

LEMMA JumpRequestIInv ==
  ASSUME IInv, NEW s \in Squares, HandleJumpRequest(s)
  PROVE  IInv'
<1> DEFINE m == NewMotion(grid[s], s, s, TRUE, JumpTime)
<1>1. grid[s] \in Pieces
  BY DEF HandleJumpRequest, IInv, TypeOK
<1>2. m \in Motion
  BY <1>1, NewMotionType, ClockAssumption DEF IInv
<1>3. m.piece = grid[s] /\ m.start = s /\ m.end = s /\ m.jump = TRUE
  BY DEF NewMotion
<1> QED
  BY <1>2, <1>3, LaunchIInv DEF HandleJumpRequest

LEMMA MoveRequestIInv ==
  ASSUME IInv, NEW s \in Squares, NEW e \in Squares, HandleMoveRequest(s, e)
  PROVE  IInv'
<1> DEFINE m == NewMotion(grid[s], s, e, FALSE, Chebyshev(s, e) * CellTime)
<1>1. grid[s] \in Pieces
  BY DEF HandleMoveRequest, IInv, TypeOK
<1>2. m \in Motion
  BY <1>1, NewMotionType, DistanceNat DEF IInv
<1>3. m.piece = grid[s] /\ m.start = s /\ m.jump = FALSE
  BY DEF NewMotion
<1>4. motions' = motions \cup {m} \/ motions' = motions
  BY DEF HandleMoveRequest
<1> QED
  BY <1>2, <1>3, <1>4, LaunchIInv DEF HandleMoveRequest

LEMMA ForfeitIInv ==
  ASSUME IInv, NEW c \in Colors, ForceForfeit(c)
  PROVE  IInv'
<1> USE DEF IInv, ForceForfeit
<1>1. TypeOK'
  BY DEF TypeOK
<1>2. MotionDiscipline' /\ HomeOrNowhere' /\ SeparateBooks'
  BY DEF SeparateBooks, MotionDiscipline, HomeOrNowhere, InFlight
<1>3. OnePlacePerPiece' /\ CapturedIsGone'
  BY DEF OnePlacePerPiece, CapturedIsGone, OnBoard
<1>4. WinnerIffOver' /\ KingTakenEndsGame'
  BY PiecesAssumption DEF WinnerIffOver, KingTakenEndsGame
<1> QED
  BY <1>1, <1>2, <1>3, <1>4

-----------------------------------------------------------------------------
\* The clock preserves the invariant: it ages motions and moves them over to
\* landing, and changes nothing else about them.
LEMMA ClockIInv ==
  ASSUME IInv, NEW ms \in ClockSteps, UpdateGameClock(ms)
  PROVE  IInv'
<1> DEFINE aged == {Aged(m, ms) : m \in motions}
<1> USE DEF IInv
<1>1. motions' = {m \in aged : m.remaining > 0} /\ landing' = {m \in aged : m.remaining <= 0}
  BY DEF UpdateGameClock
<1>2. UNCHANGED <<grid, kind, status, score, gameOver, winner>> /\ landing = {}
  BY DEF UpdateGameClock
<1>3. \A m \in motions :
        /\ Aged(m, ms) \in Motion
        /\ Aged(m, ms).piece = m.piece /\ Aged(m, ms).start = m.start
        /\ Aged(m, ms).end = m.end /\ Aged(m, ms).jump = m.jump
  BY ClockAssumption DEF Aged, Motion, TypeOK
<1>4. InFlight' = aged /\ InFlight = motions
  <2>1. \A m \in aged : m.remaining \in Int
    BY <1>3 DEF Motion
  <2> QED
    BY <1>1, <1>2, <2>1 DEF InFlight
<1>5. TypeOK'
  <2>1. IsFiniteSet(aged)
    <3> DEFINE f == [m \in motions |-> Aged(m, ms)]
    <3>1. f \in Surjection(motions, aged)
      BY DEF Surjection
    <3> HIDE DEF f
    <3> QED
      BY <3>1, FS_Surjection DEF TypeOK
  <2>2. IsFiniteSet(motions')
    BY <1>1, <2>1, FS_Subset, motions' \subseteq aged
  <2>3. aged \subseteq Motion
    BY <1>3
  <2> QED
    BY <1>1, <1>2, <2>2, <2>3 DEF TypeOK
<1>6. MotionDiscipline'
  <2>1. \A n, o \in InFlight' : n.piece = o.piece => n = o
    BY <1>3, <1>4 DEF MotionDiscipline
  <2>2. \A n \in InFlight' :
          /\ status'[n.piece] = IF n.jump THEN "jumping" ELSE "moving"
          /\ n.jump => n.start = n.end
    BY <1>2, <1>3, <1>4 DEF MotionDiscipline
  <2>3. \A q \in Pieces : status'[q] = "jumping" => \E n \in InFlight' : n.piece = q /\ n.jump
    BY <1>2, <1>3, <1>4 DEF MotionDiscipline
  <2> QED
    BY <2>1, <2>2, <2>3 DEF MotionDiscipline
<1>7. HomeOrNowhere'
  BY <1>2, <1>3, <1>4 DEF HomeOrNowhere
<1>8. OnePlacePerPiece' /\ CapturedIsGone' /\ WinnerIffOver' /\ KingTakenEndsGame'
  BY <1>2 DEF OnePlacePerPiece, CapturedIsGone, OnBoard, WinnerIffOver, KingTakenEndsGame
<1>9. SeparateBooks'
  <2>1. \A m \in aged : m.remaining \in Int
    BY <1>3 DEF Motion
  <2> QED
    BY <1>1, <2>1 DEF SeparateBooks
<1> QED
  BY <1>5, <1>6, <1>7, <1>8, <1>9

-----------------------------------------------------------------------------
\* Settling a motion preserves the invariant.

\* What every way of settling m does: the motion is gone, and no other piece has it.
LEMMA SettledFlight ==
  ASSUME IInv, NEW m \in landing, landing' = landing \ {m}, motions' = motions
  PROVE  /\ m \in Motion
         /\ m \in InFlight
         /\ InFlight' = InFlight \ {m}
         /\ \A n \in InFlight' : n \in Motion /\ n.piece # m.piece
         /\ \A s \in Squares : grid[s] = m.piece => s = m.start
         /\ SeparateBooks'
<1> USE DEF IInv
<1>1. m \in Motion /\ m \in InFlight
  BY DEF TypeOK, InFlight
<1>2. InFlight' = InFlight \ {m} /\ SeparateBooks'
  BY DEF InFlight, SeparateBooks
<1>3. \A n \in InFlight' : n \in Motion /\ n.piece # m.piece
  BY <1>1, <1>2 DEF InFlight, TypeOK, MotionDiscipline
<1>4. \A s \in Squares : grid[s] = m.piece => s = m.start
  BY <1>1 DEF HomeOrNowhere
<1> QED
  BY <1>1, <1>2, <1>3, <1>4

\* The book-keeping after m is settled, when its piece ends idle or captured and
\* at most one other piece, a standing one, changes its status, to captured.
LEMMA SettledDiscipline ==
  ASSUME IInv, NEW m \in landing, landing' = landing \ {m}, motions' = motions,
         status' \in [Pieces -> Statuses],
         status'[m.piece] \in {"idle", "captured"},
         \A q \in Pieces \ {m.piece} :
            \/ status'[q] = status[q]
            \/ status[q] = "idle" /\ status'[q] = "captured"
  PROVE  MotionDiscipline'
<1> USE DEF IInv
<1>1. /\ InFlight' = InFlight \ {m}
      /\ \A n \in InFlight' : n \in Motion /\ n.piece # m.piece
  BY SettledFlight
<1>2. \A n \in InFlight' : n.piece \in Pieces \ {m.piece}
  BY <1>1 DEF Motion
<1>3. \A n, o \in InFlight' : n.piece = o.piece => n = o
  BY <1>1 DEF MotionDiscipline
<1>4. ASSUME NEW n \in InFlight'
      PROVE  /\ status'[n.piece] = IF n.jump THEN "jumping" ELSE "moving"
             /\ n.jump => n.start = n.end
  <2>1. n \in InFlight
    BY <1>1
  <2>2. status[n.piece] = IF n.jump THEN "jumping" ELSE "moving"
    BY <2>1 DEF MotionDiscipline
  <2>3. status'[n.piece] = status[n.piece]
    BY <1>2, <2>2
  <2> QED
    BY <2>1, <2>2, <2>3 DEF MotionDiscipline
<1>5. ASSUME NEW q \in Pieces, status'[q] = "jumping"
      PROVE  \E n \in InFlight' : n.piece = q /\ n.jump
  <2>1. q # m.piece /\ status[q] = "jumping"
    BY <1>5
  <2>2. PICK n \in InFlight : n.piece = q /\ n.jump
    BY <2>1 DEF MotionDiscipline
  <2> QED
    BY <1>1, <2>1, <2>2
<1> QED
  BY <1>3, <1>4, <1>5 DEF MotionDiscipline

LEMMA SettleInPlaceIInv ==
  ASSUME IInv, NEW m \in landing, SettleInPlace(m)
  PROVE  IInv'
<1> USE DEF IInv
<1>1. /\ landing' = landing \ {m}
      /\ UNCHANGED <<grid, kind, motions, score, gameOver, winner>>
  BY DEF SettleInPlace
<1>2. m \in Motion /\ m.piece \in Pieces /\ m \in InFlight
  BY <1>1, SettledFlight DEF Motion
<1>3. /\ status' \in [Pieces -> Statuses]
      /\ status'[m.piece] \in {"idle", "captured"}
      /\ \A q \in Pieces \ {m.piece} : status'[q] = status[q]
      /\ \A q \in Pieces : status'[q] = "captured" => status[q] = "captured"
  BY <1>2 DEF SettleInPlace, TypeOK, Statuses
<1>4. \A q \in Pieces : status[q] = "captured" => status'[q] = "captured"
  BY <1>2, <1>3 DEF MotionDiscipline
<1>5. TypeOK'
  BY <1>1, <1>3 DEF TypeOK
<1>6. MotionDiscipline'
  BY <1>1, <1>3, SettledDiscipline
<1>7. SeparateBooks' /\ HomeOrNowhere'
  BY <1>1, SettledFlight DEF HomeOrNowhere
<1>8. OnePlacePerPiece' /\ CapturedIsGone'
  BY <1>1, <1>3 DEF OnePlacePerPiece, CapturedIsGone, OnBoard
<1>9. WinnerIffOver' /\ KingTakenEndsGame'
  BY <1>1, <1>3, <1>4 DEF WinnerIffOver, KingTakenEndsGame
<1> QED
  BY <1>5, <1>6, <1>7, <1>8, <1>9

LEMMA SettleBlockedIInv ==
  ASSUME IInv, NEW m \in landing, SettleBlocked(m)
  PROVE  IInv'
<1> USE DEF IInv
<1>1. /\ landing' = landing \ {m}
      /\ UNCHANGED <<grid, kind, motions, score, gameOver, winner>>
  BY DEF SettleBlocked, MayLand
<1>2. m \in Motion /\ m.piece \in Pieces /\ m \in InFlight
  BY <1>1, SettledFlight DEF Motion
<1>3. /\ status' \in [Pieces -> Statuses]
      /\ status'[m.piece] = "idle"
      /\ \A q \in Pieces \ {m.piece} : status'[q] = status[q]
  BY <1>2 DEF SettleBlocked, MayLand, TypeOK, Statuses
<1>4. \A q \in Pieces : status[q] = "captured" <=> status'[q] = "captured"
  BY <1>2, <1>3 DEF MotionDiscipline
<1>5. TypeOK'
  BY <1>1, <1>3 DEF TypeOK
<1>6. MotionDiscipline'
  BY <1>1, <1>3, SettledDiscipline
<1>7. SeparateBooks' /\ HomeOrNowhere'
  BY <1>1, SettledFlight DEF HomeOrNowhere
<1>8. OnePlacePerPiece' /\ CapturedIsGone'
  BY <1>1, <1>4 DEF OnePlacePerPiece, CapturedIsGone, OnBoard
<1>9. WinnerIffOver' /\ KingTakenEndsGame'
  BY <1>1, <1>4 DEF WinnerIffOver, KingTakenEndsGame
<1> QED
  BY <1>5, <1>6, <1>7, <1>8, <1>9

\* What taking q for the side c does to the score and to the decision, when the
\* colours differ and exactly q becomes captured.
LEMMA TakenDecides ==
  ASSUME IInv, NEW q \in Pieces, NEW c \in Colors, c # ColorOf[q], Taken(q, c),
         status' \in [Pieces -> Statuses], kind' \in [Pieces -> Kinds],
         status'[q] = "captured", kind'[q] = kind[q],
         \A r \in Pieces \ {q} : status'[r] = "captured" <=> status[r] = "captured",
         \A r \in Pieces : kind'[r] = "k" <=> kind[r] = "k"
  PROVE  /\ score' \in [Colors -> Nat]
         /\ gameOver' \in BOOLEAN
         /\ winner' \in Colors \cup {NoColor}
         /\ WinnerIffOver'
         /\ KingTakenEndsGame'
<1> USE DEF IInv
<1>1. score' \in [Colors -> Nat]
  <2>1. PieceValue(kind[q]) \in Nat
    BY PieceValueNat DEF TypeOK
  <2> HIDE DEF PieceValue
  <2> QED
    BY <2>1 DEF Taken, TypeOK
<1>2. gameOver' \in BOOLEAN /\ winner' \in Colors \cup {NoColor}
  BY DEF Taken, TypeOK
<1>3. WinnerIffOver'
  BY PiecesAssumption DEF WinnerIffOver, Taken
<1>4. CASE kind[q] = "k"
  <2>1. gameOver' /\ winner' = c
    BY <1>4 DEF Taken
  <2>2. ColorOf[q] = Enemy(c)
    BY EnemyIsOther, PiecesAssumption
  <2>3. kind'[q] = "k" /\ status'[q] = "captured" /\ ColorOf[q] = Enemy(winner')
    BY <1>4, <2>1, <2>2
  <2> QED
    BY <1>1, <1>2, <1>3, <2>1, <2>3 DEF KingTakenEndsGame
<1>5. CASE kind[q] # "k"
  <2>1. gameOver' = gameOver /\ winner' = winner
    BY <1>5 DEF Taken, TypeOK
  <2>2. \A r \in Pieces : kind'[r] = "k" /\ status'[r] = "captured" <=>
                           kind[r] = "k" /\ status[r] = "captured"
    BY <1>5
  <2> QED
    BY <1>1, <1>2, <1>3, <2>1, <2>2 DEF KingTakenEndsGame
<1> QED
  BY <1>4, <1>5

LEMMA SettleOnJumperIInv ==
  ASSUME IInv, NEW m \in landing, SettleOnJumper(m)
  PROVE  IInv'
<1> DEFINE p == m.piece
           j == grid[m.end]
<1> USE DEF IInv
<1>1. landing' = landing \ {m} /\ UNCHANGED <<kind, motions>>
  BY DEF SettleOnJumper
<1>2. m \in Motion /\ p \in Pieces /\ m.start \in Squares /\ m.end \in Squares
  BY <1>1, SettledFlight DEF Motion
<1>3. j \in Pieces /\ ColorOf[j] # ColorOf[p]
  BY <1>2 DEF SettleOnJumper, JumperAt, TypeOK
<1>4. /\ status' \in [Pieces -> Statuses]
      /\ status'[p] = "captured"
      /\ \A q \in Pieces \ {p} : status'[q] = status[q]
  BY <1>2 DEF SettleOnJumper, TypeOK, Statuses
<1>5. /\ grid' \in [Squares -> Pieces \cup {NoPiece}]
      /\ \A s \in Squares :
           grid'[s] = IF s = m.start /\ grid[s] = p THEN NoPiece ELSE grid[s]
  BY <1>2, LiftedIs DEF SettleOnJumper
<1>6. /\ score' \in [Colors -> Nat]
      /\ gameOver' \in BOOLEAN
      /\ winner' \in Colors \cup {NoColor}
      /\ WinnerIffOver'
      /\ KingTakenEndsGame'
  <2>1. ColorOf[j] \in Colors
    BY <1>3, PiecesAssumption
  <2>2. Taken(p, ColorOf[j])
    BY DEF SettleOnJumper
  <2>3. kind' \in [Pieces -> Kinds] /\ kind' = kind
    BY <1>1 DEF TypeOK
  <2> QED
    BY <1>2, <1>3, <1>4, <2>1, <2>2, <2>3, TakenDecides
<1>7. TypeOK'
  BY <1>1, <1>4, <1>5, <1>6 DEF TypeOK
<1>8. MotionDiscipline'
  BY <1>1, <1>4, SettledDiscipline
<1>9. SeparateBooks' /\ HomeOrNowhere'
  <2>1. \A n \in InFlight' : n \in InFlight /\ n.piece \in Pieces
    BY <1>1, SettledFlight DEF Motion
  <2> QED
    BY <1>1, <1>5, <2>1, SettledFlight, PiecesAssumption DEF HomeOrNowhere
<1>10. OnePlacePerPiece'
  BY <1>5, PiecesAssumption DEF OnePlacePerPiece
<1>11. CapturedIsGone'
  <2>1. \A s \in Squares : grid[s] = p => s = m.start
    BY <1>1, SettledFlight
  <2>2. \A s \in Squares : grid'[s] # p
    BY <1>2, <1>5, <2>1, PiecesAssumption
  <2>3. \A q \in Pieces, s \in Squares : grid'[s] = q => grid[s] = q
    BY <1>5, PiecesAssumption
  <2> QED
    BY <1>4, <2>2, <2>3 DEF CapturedIsGone, OnBoard
<1> QED
  BY <1>6, <1>7, <1>8, <1>9, <1>10, <1>11

LEMMA SettleArriveIInv ==
  ASSUME IInv, NEW m \in landing, SettleArrive(m)
  PROVE  IInv'
<1> DEFINE p == m.piece
           v == grid[m.end]
           capture == StandsAt(m.end)
<1> USE DEF IInv
<1>1. landing' = landing \ {m} /\ UNCHANGED motions
  BY DEF SettleArrive, MayLand, Promoted
<1>2. /\ m \in Motion /\ p \in Pieces /\ m \in InFlight
      /\ m.start \in Squares /\ m.end \in Squares
  BY <1>1, SettledFlight DEF Motion
<1>3. capture => v \in Pieces \ {p} /\ ColorOf[v] # ColorOf[p] /\ status[v] = "idle"
  BY <1>2 DEF SettleArrive, MayLand, Promoted, StandsAt, TypeOK
<1>4. /\ status' \in [Pieces -> Statuses]
      /\ status'[p] = "idle"
      /\ capture => status'[v] = "captured"
      /\ \A q \in Pieces \ {p} : (capture => q # v) => status'[q] = status[q]
  <2>1. CASE capture
    <3>1. status' = [[status EXCEPT ![p] = "idle"] EXCEPT ![v] = "captured"]
      BY <2>1 DEF SettleArrive, MayLand, Promoted
    <3> QED
      BY <1>2, <1>3, <2>1, <3>1 DEF TypeOK, Statuses
  <2>2. CASE ~ capture
    <3>1. status' = [status EXCEPT ![p] = "idle"]
      BY <2>2 DEF SettleArrive, MayLand, Promoted
    <3> QED
      BY <1>2, <2>2, <3>1 DEF TypeOK, Statuses
  <2> QED
    BY <2>1, <2>2
<1>5. status[p] # "captured"
  BY DEF SettleArrive, MayLand, Promoted, MoveLands
<1>6. /\ grid' \in [Squares -> Pieces \cup {NoPiece}]
      /\ \A s \in Squares :
           grid'[s] = IF s = m.end THEN p
                      ELSE IF s = m.start /\ grid[s] = p THEN NoPiece ELSE grid[s]
  <2>1. grid' = [Lifted(m) EXCEPT ![m.end] = p]
    BY DEF SettleArrive, MayLand, Promoted
  <2> QED
    BY <1>2, <2>1, LiftedIs
<1>7. \A s \in Squares : grid'[s] = p => s = m.end
  BY <1>1, <1>2, <1>6, SettledFlight, PiecesAssumption
<1>8. \A q \in Pieces \ {p}, s \in Squares : grid'[s] = q => grid[s] = q /\ s # m.end
  BY <1>2, <1>6, PiecesAssumption
<1>9. /\ kind' \in [Pieces -> Kinds]
      /\ \A q \in Pieces : kind'[q] = "k" <=> kind[q] = "k"
      /\ \A q \in Pieces \ {p} : kind'[q] = kind[q]
  BY <1>2 DEF SettleArrive, MayLand, Promoted, TypeOK, Kinds
<1>10. /\ score' \in [Colors -> Nat]
       /\ gameOver' \in BOOLEAN
       /\ winner' \in Colors \cup {NoColor}
       /\ WinnerIffOver'
       /\ KingTakenEndsGame'
  <2>1. CASE capture
    <3>1. Taken(v, ColorOf[p])
      BY <2>1 DEF SettleArrive, MayLand, Promoted
    <3>2. ColorOf[p] \in Colors
      BY <1>2, PiecesAssumption
    <3> QED
      BY <1>2, <1>3, <1>4, <1>5, <1>9, <2>1, <3>1, <3>2, TakenDecides
  <2>2. CASE ~ capture
    <3>1. UNCHANGED <<score, gameOver, winner>>
      BY <2>2 DEF SettleArrive, MayLand, Promoted
    <3>2. \A q \in Pieces : status'[q] = "captured" <=> status[q] = "captured"
      BY <1>4, <1>5, <2>2
    <3> QED
      BY <1>9, <3>1, <3>2 DEF TypeOK, WinnerIffOver, KingTakenEndsGame
  <2> QED
    BY <2>1, <2>2
<1>11. TypeOK'
  BY <1>1, <1>4, <1>6, <1>9, <1>10 DEF TypeOK
<1>12. MotionDiscipline'
  <2>1. \A q \in Pieces \ {p} :
          \/ status'[q] = status[q]
          \/ status[q] = "idle" /\ status'[q] = "captured"
    BY <1>3, <1>4
  <2> QED
    BY <1>1, <1>4, <2>1, SettledDiscipline
<1>13. SeparateBooks' /\ HomeOrNowhere'
  <2>1. \A n \in InFlight' : n \in InFlight /\ n.piece \in Pieces \ {p}
    BY <1>1, SettledFlight DEF Motion
  <2> QED
    BY <1>1, <1>8, <2>1, SettledFlight DEF HomeOrNowhere
<1>14. OnePlacePerPiece'
  <2> SUFFICES ASSUME NEW s \in Squares, NEW t \in Squares,
                      grid'[s] = grid'[t], grid'[s] # NoPiece
               PROVE  s = t
    BY DEF OnePlacePerPiece
  <2>1. CASE grid'[s] = p
    BY <1>7, <2>1
  <2>2. CASE grid'[s] # p
    <3>1. grid'[s] \in Pieces \ {p}
      BY <1>6, <2>2
    <3>2. grid[s] = grid'[s] /\ grid[t] = grid'[s]
      BY <1>8, <3>1
    <3> QED
      BY <3>1, <3>2, PiecesAssumption DEF OnePlacePerPiece
  <2> QED
    BY <2>1, <2>2
<1>15. CapturedIsGone'
  <2> SUFFICES ASSUME NEW q \in Pieces, status'[q] = "captured", NEW s \in Squares,
                      grid'[s] = q
               PROVE  FALSE
    BY DEF CapturedIsGone, OnBoard
  <2>1. q # p /\ grid[s] = q /\ s # m.end
    BY <1>4, <1>8
  <2>2. CASE capture /\ q = v
    BY <1>2, <2>1, <2>2, PiecesAssumption DEF OnePlacePerPiece
  <2>3. CASE ~ (capture /\ q = v)
    <3>1. status[q] = "captured"
      BY <1>4, <2>1, <2>3
    <3> QED
      BY <2>1, <3>1 DEF CapturedIsGone, OnBoard
  <2> QED
    BY <2>2, <2>3
<1> QED
  BY <1>10, <1>11, <1>12, <1>13, <1>14, <1>15

-----------------------------------------------------------------------------
LEMMA NextIInv == IInv /\ [Next]_vars => IInv'
<1> SUFFICES ASSUME IInv, [Next]_vars PROVE IInv'
  OBVIOUS
<1>1. CASE Request
  BY <1>1, JumpRequestIInv, MoveRequestIInv, ForfeitIInv DEF Request
<1>2. CASE Clock
  BY <1>2, ClockIInv DEF Clock
<1>3. CASE Settling
  BY <1>3, SettleInPlaceIInv, SettleOnJumperIInv, SettleBlockedIInv, SettleArriveIInv
  DEF Settling, Settle
<1>4. CASE UNCHANGED vars
  BY <1>4 DEF vars, IInv, TypeOK, SeparateBooks, MotionDiscipline, OnePlacePerPiece,
              CapturedIsGone, OnBoard, HomeOrNowhere, InFlight, WinnerIffOver,
              KingTakenEndsGame
<1> QED
  BY <1>1, <1>2, <1>3, <1>4 DEF Next

\* The invariant holds throughout every game.
THEOREM InductiveInvariant == Spec => []IInv
<1> QED
  BY InitIInv, NextIInv, PTL DEF Spec

\* The state of the engine keeps its types: no square holds anything but a piece
\* or nothing, and no score or motion leaves its range.
THEOREM TypeCorrect == Spec => []TypeOK
<1>1. IInv => TypeOK
  BY DEF IInv
<1> QED
  BY <1>1, InductiveInvariant, PTL

\* The engine launches by status alone, and still no piece ever has two motions,
\* and no motion belongs to a piece that stands or was captured.
THEOREM OneMotionPerPiece == Spec => []MotionDiscipline
<1>1. IInv => MotionDiscipline
  BY DEF IInv
<1> QED
  BY <1>1, InductiveInvariant, PTL

\* No sequence of flights, overwritten origins and captures puts a piece on two
\* squares, or leaves a captured one on any.
THEOREM BoardIsSound == Spec => []BoardShowsTheLiving
<1>1. IInv => BoardShowsTheLiving
  BY DEF IInv, BoardShowsTheLiving
<1> QED
  BY <1>1, InductiveInvariant, PTL

\* The game is over exactly when it has a winner; once a king is taken it is, and
\* the winner is a side that took one, whatever else landed in that update.
THEOREM WinnerIsJustified == Spec => [](WinnerIffOver /\ KingTakenEndsGame)
<1>1. IInv => WinnerIffOver /\ KingTakenEndsGame
  BY DEF IInv
<1> QED
  BY <1>1, InductiveInvariant, PTL

-----------------------------------------------------------------------------
\* What a step may never do.

\* How the settling steps change the board and the statuses.
LEMMA LandingEffect ==
  ASSUME IInv, NEW m \in landing, Settle(m)
  PROVE  /\ m.piece \in Pieces /\ m.start \in Squares /\ m.end \in Squares
         /\ status[m.piece] \in {"moving", "jumping"}
         /\ \/ /\ grid' = grid
               /\ status' = [status EXCEPT ![m.piece] = "idle"]
            \/ /\ ~ m.jump /\ JumperAt(m)
               /\ grid' = Lifted(m)
               /\ status' = [status EXCEPT ![m.piece] = "captured"]
            \/ /\ ~ m.jump /\ ~ JumperAt(m) /\ ~ StandsAt(m.end)
               /\ grid' = [Lifted(m) EXCEPT ![m.end] = m.piece]
               /\ status' = [status EXCEPT ![m.piece] = "idle"]
            \/ /\ ~ m.jump /\ StandsAt(m.end)
               /\ ColorOf[grid[m.end]] # ColorOf[m.piece]
               /\ grid' = [Lifted(m) EXCEPT ![m.end] = m.piece]
               /\ status' = [[status EXCEPT ![m.piece] = "idle"] EXCEPT ![grid[m.end]] = "captured"]
<1> USE DEF IInv
<1>1. m \in InFlight /\ m \in Motion
  BY DEF InFlight, TypeOK
<1>2. status[m.piece] \in {"moving", "jumping"}
  BY <1>1 DEF MotionDiscipline
<1>3. m.piece \in Pieces /\ m.start \in Squares /\ m.end \in Squares
  BY <1>1 DEF Motion
<1>4. CASE SettleInPlace(m)
  BY <1>2, <1>3, <1>4 DEF SettleInPlace
<1>5. CASE SettleOnJumper(m)
  BY <1>2, <1>3, <1>5 DEF SettleOnJumper, MoveLands
<1>6. CASE SettleBlocked(m)
  BY <1>2, <1>3, <1>6 DEF SettleBlocked, MayLand
<1>7. CASE SettleArrive(m)
  <2>1. CASE StandsAt(m.end)
    BY <1>2, <1>3, <1>7, <2>1 DEF SettleArrive, MayLand, Promoted, MoveLands
  <2>2. CASE ~ StandsAt(m.end)
    BY <1>2, <1>3, <1>7, <2>2 DEF SettleArrive, MayLand, Promoted, MoveLands
  <2> QED
    BY <2>1, <2>2
<1> QED
  BY <1>4, <1>5, <1>6, <1>7 DEF Settle

\* A standing piece is displaced by nothing but an enemy that captures it.
THEOREM StandingPiecesAreSafe == Spec => StandingPieceSafe
<1>1. IInv /\ Next => CapturedOrKept
  <2> SUFFICES ASSUME IInv, Next PROVE CapturedOrKept
    OBVIOUS
  <2> USE DEF IInv
  <2>1. CASE Request \/ Clock
    BY <2>1 DEF Request, Clock, HandleJumpRequest, HandleMoveRequest, ForceForfeit,
                UpdateGameClock, CapturedOrKept
  <2>2. ASSUME NEW m \in landing, Settle(m) PROVE CapturedOrKept
    <3> SUFFICES ASSUME NEW s \in Squares, StandsAt(s), grid'[s] # grid[s]
                 PROVE  /\ status'[grid[s]] = "captured"
                        /\ grid'[s] # NoPiece
                        /\ ColorOf[grid'[s]] = Enemy(ColorOf[grid[s]])
      BY DEF CapturedOrKept
    <3>1. grid[s] \in Pieces /\ status[grid[s]] = "idle"
      BY DEF StandsAt, TypeOK
    <3>2. m \in Motion /\ status[m.piece] # "idle" /\ m.piece \in Pieces
      BY <2>2, LandingEffect DEF TypeOK
    <3>3. \A t \in Squares : Lifted(m)[t] # grid[t] => grid[t] = m.piece
      BY <3>2, LiftedIs
    <3>4. Lifted(m) \in [Squares -> Pieces \cup {NoPiece}] /\ Lifted(m)[s] = grid[s]
      BY <3>1, <3>2, <3>3, LiftedIs
    <3>5. /\ s = m.end
          /\ ColorOf[grid[s]] # ColorOf[m.piece]
          /\ grid'[s] = m.piece
          /\ status'[grid[s]] = "captured"
      BY <2>2, <3>1, <3>2, <3>4, LandingEffect DEF TypeOK
    <3>6. ColorOf[m.piece] = Enemy(ColorOf[grid[s]])
      BY <3>1, <3>2, <3>5, EnemyIsOther, PiecesAssumption
    <3> QED
      BY <3>2, <3>5, <3>6, PiecesAssumption
  <2> QED
    BY <2>1, <2>2 DEF Next, Settling
<1> QED
  BY <1>1, InductiveInvariant, PTL DEF Spec, StandingPieceSafe

\* No enemy reaches a jumping piece: it is captured by nobody and gives up its
\* square to a friend at most.
THEOREM JumpersAreOutOfReach == Spec => JumperOutOfReach
<1>1. IInv /\ Next => NoEnemyTakesJumper
  <2> SUFFICES ASSUME IInv, Next PROVE NoEnemyTakesJumper
    OBVIOUS
  <2> USE DEF IInv
  <2> SUFFICES ASSUME NEW s \in Squares, grid[s] # NoPiece, status[grid[s]] = "jumping"
               PROVE  /\ status'[grid[s]] # "captured"
                      /\ grid'[s] # NoPiece /\ ColorOf[grid'[s]] = ColorOf[grid[s]]
    BY DEF NoEnemyTakesJumper
  <2>1. grid[s] \in Pieces
    BY DEF TypeOK
  <2>2. CASE Request \/ Clock
    BY <2>1, <2>2 DEF Request, Clock, HandleJumpRequest, HandleMoveRequest, ForceForfeit,
                      UpdateGameClock, TypeOK
  <2>3. ASSUME NEW m \in landing, Settle(m)
        PROVE  /\ status'[grid[s]] # "captured"
               /\ grid'[s] # NoPiece /\ ColorOf[grid'[s]] = ColorOf[grid[s]]
    <3>1. m \in Motion /\ m.piece \in Pieces
      BY <2>3, LandingEffect DEF TypeOK
    <3>2. grid[s] = m.piece => m.jump
      BY DEF MotionDiscipline, InFlight
    <3>3. CASE grid[s] = m.piece
      <4>1. grid' = grid /\ status' = [status EXCEPT ![m.piece] = "idle"]
        BY <2>3, <3>2, <3>3, LandingEffect
      <4> QED
        BY <2>1, <3>3, <4>1 DEF TypeOK
    <3>4. CASE grid[s] # m.piece
      <4>1. Lifted(m) \in [Squares -> Pieces \cup {NoPiece}] /\ Lifted(m)[s] = grid[s]
        BY <3>1, <3>4, LiftedIs
      <4>2. CASE s # m.end
        BY <2>1, <2>3, <3>1, <3>4, <4>1, <4>2, LandingEffect, PiecesAssumption
        DEF TypeOK, StandsAt
      <4>3. CASE s = m.end
        <5>1. ~ StandsAt(m.end) /\ (JumperAt(m) <=> ColorOf[grid[s]] # ColorOf[m.piece])
          BY <4>3 DEF StandsAt, JumperAt
        <5> QED
          BY <2>1, <2>3, <3>1, <3>4, <4>1, <4>3, <5>1, LandingEffect, PiecesAssumption
          DEF TypeOK
      <4> QED
        BY <4>2, <4>3
    <3> QED
      BY <3>3, <3>4
  <2> QED
    BY <2>2, <2>3 DEF Next, Settling
<1> QED
  BY <1>1, InductiveInvariant, PTL DEF Spec, JumperOutOfReach

-----------------------------------------------------------------------------
\* GameEngine implements AbstractGame.

\* Promotion makes queens of pawns only, so the kings are those of the start.
KingsFixed == \A p \in Pieces : kind[p] = "k" <=> p \in Kings

LEMMA KingsStay == Spec => []KingsFixed
<1>1. Init => KingsFixed
  BY DEF Init, KingsFixed, Kings
<1>2. IInv /\ KingsFixed /\ [Next]_vars => KingsFixed'
  <2> SUFFICES ASSUME IInv, KingsFixed, [Next]_vars PROVE KingsFixed'
    OBVIOUS
  <2>1. ASSUME NEW m \in landing, SettleArrive(m) PROVE KingsFixed'
    BY <2>1 DEF SettleArrive, MayLand, Promoted, KingsFixed, IInv, TypeOK, Motion
  <2>2. kind' = kind => KingsFixed'
    BY DEF KingsFixed
  <2>3. \/ kind' = kind
        \/ \E m \in landing : SettleArrive(m)
    BY DEF Next, Request, Clock, Settling, Settle, vars, HandleJumpRequest, HandleMoveRequest,
           ForceForfeit, UpdateGameClock, SettleInPlace, SettleOnJumper, SettleBlocked
  <2> QED
    BY <2>1, <2>2, <2>3
<1> QED
  BY <1>1, <1>2, InductiveInvariant, PTL DEF Spec

\* The abstract piece's life.
LifeOf == [p \in Pieces |-> Life(status[p])]

LEMMA LifeIs ==
  ASSUME TypeOK, NEW p \in Pieces
  PROVE  /\ LifeOf[p] = "stands" <=> status[p] = "idle"
         /\ LifeOf[p] = "flies" <=> status[p] \in {"moving", "jumping"}
         /\ LifeOf[p] = "taken" <=> status[p] = "captured"
<1>1. status[p] \in {"idle", "moving", "jumping", "captured"}
  BY DEF TypeOK, Statuses
<1>2. /\ Life("idle") = "stands" /\ Life("moving") = "flies"
      /\ Life("jumping") = "flies" /\ Life("captured") = "taken"
  BY DEF Life
<1> QED
  BY <1>1, <1>2 DEF LifeOf

\* What a change of one status does to the abstract lives.
LEMMA LifeChange ==
  ASSUME TypeOK, NEW p \in Pieces, NEW st \in Statuses,
         status' = [status EXCEPT ![p] = st]
  PROVE  LifeOf' = [LifeOf EXCEPT ![p] = Life(st)]
BY DEF LifeOf, TypeOK

\* Taking a piece in the engine decides the abstract game the same way.
LEMMA TakenIsDecide ==
  ASSUME TypeOK, KingsFixed, NEW q \in Pieces, NEW c, Taken(q, c)
  PROVE  AbsGame!Decide(q, c)
BY DEF TypeOK, KingsFixed, Taken, AbsGame!Decide

LEMMA SettleRefines ==
  ASSUME IInv, KingsFixed, NEW m \in landing, Settle(m)
  PROVE  AbsGame!Next
<1> DEFINE p == m.piece
           v == grid[m.end]
<1> USE DEF IInv
<1>1. /\ m \in InFlight /\ p \in Pieces /\ m.start \in Squares /\ m.end \in Squares
      /\ status[p] \in {"moving", "jumping"}
  BY LandingEffect DEF InFlight
<1>2. LifeOf[p] = "flies"
  BY <1>1, LifeIs
<1>3. /\ "idle" \in Statuses /\ "captured" \in Statuses
      /\ Life("idle") = "stands" /\ Life("captured") = "taken"
  BY DEF Statuses, Life
<1>4. ASSUME status' = [status EXCEPT ![p] = "idle"], UNCHANGED <<gameOver, winner>>
      PROVE  AbsGame!Land(p)
  <2>1. LifeOf' = [LifeOf EXCEPT ![p] = "stands"]
    BY <1>1, <1>3, <1>4, LifeChange
  <2> QED
    BY <1>2, <1>4, <2>1 DEF AbsGame!Land, LifeOf
<1>5. CASE SettleInPlace(m) \/ SettleBlocked(m)
  <2>1. status' = [status EXCEPT ![p] = "idle"] /\ UNCHANGED <<gameOver, winner>>
    BY <1>1, <1>5 DEF SettleInPlace, SettleBlocked, MayLand
  <2> QED
    BY <1>1, <1>4, <2>1 DEF AbsGame!Next
<1>6. CASE SettleOnJumper(m)
  <2>1. /\ v \in Pieces /\ ColorOf[v] # ColorOf[p] /\ status[v] = "jumping"
        /\ status' = [status EXCEPT ![p] = "captured"]
        /\ Taken(p, ColorOf[v])
    BY <1>1, <1>6 DEF SettleOnJumper, JumperAt, TypeOK
  <2>2. LifeOf' = [LifeOf EXCEPT ![p] = "taken"]
    BY <1>1, <1>3, <2>1, LifeChange
  <2>3. LifeOf[v] = "flies"
    BY <2>1, LifeIs
  <2>4. AbsGame!Decide(p, ColorOf[v])
    BY <1>1, <2>1, TakenIsDecide
  <2>5. AbsGame!TakenInTheAir(p, v)
    BY <1>2, <2>1, <2>2, <2>3, <2>4 DEF AbsGame!TakenInTheAir, LifeOf
  <2> QED
    BY <1>1, <2>1, <2>5 DEF AbsGame!Next
<1>7. CASE SettleArrive(m) /\ StandsAt(m.end)
  <2>1. /\ v \in Pieces /\ ColorOf[v] # ColorOf[p] /\ status[v] = "idle"
        /\ status' = [[status EXCEPT ![p] = "idle"] EXCEPT ![v] = "captured"]
        /\ Taken(v, ColorOf[p])
    BY <1>1, <1>7 DEF SettleArrive, MayLand, Promoted, StandsAt, TypeOK
  <2>2. LifeOf' = [[LifeOf EXCEPT ![p] = "stands"] EXCEPT ![v] = "taken"]
    <3>1. LifeOf' = [[LifeOf EXCEPT ![p] = Life("idle")] EXCEPT ![v] = Life("captured")]
      BY <1>1, <2>1 DEF LifeOf, TypeOK
    <3> QED
      BY <1>3, <3>1
  <2>3. LifeOf[v] = "stands"
    BY <2>1, LifeIs
  <2>4. AbsGame!Decide(v, ColorOf[p])
    BY <2>1, TakenIsDecide
  <2>5. AbsGame!LandAndTake(p, v)
    BY <1>2, <2>1, <2>2, <2>3, <2>4 DEF AbsGame!LandAndTake, LifeOf
  <2> QED
    BY <1>1, <2>1, <2>5 DEF AbsGame!Next
<1>8. CASE SettleArrive(m) /\ ~ StandsAt(m.end)
  <2>1. status' = [status EXCEPT ![p] = "idle"] /\ UNCHANGED <<gameOver, winner>>
    BY <1>8 DEF SettleArrive, MayLand, Promoted
  <2> QED
    BY <1>1, <1>4, <2>1 DEF AbsGame!Next
<1> QED
  BY <1>5, <1>6, <1>7, <1>8 DEF Settle

\* Every game the engine plays is a game of AbstractGame.
THEOREM Refinement == Spec => ImplementsAbstractGame
<1>1. Init => AbsGame!Init
  BY DEF Init, AbsGame!Init, Life
<1>2. IInv /\ KingsFixed /\ [Next]_vars => [AbsGame!Next]_AbsGame!avars
  <2> SUFFICES ASSUME IInv, KingsFixed, [Next]_vars PROVE [AbsGame!Next]_AbsGame!avars
    OBVIOUS
  <2> USE DEF IInv
  <2>1. ASSUME NEW s \in Squares, NEW st \in {"moving", "jumping"}, ~ gameOver,
               grid[s] # NoPiece, status[grid[s]] = "idle",
               status' = [status EXCEPT ![grid[s]] = st], UNCHANGED <<gameOver, winner>>
        PROVE  AbsGame!Next
    <3>1. grid[s] \in Pieces /\ st \in Statuses /\ Life(st) = "flies"
      BY <2>1 DEF TypeOK, Statuses, Life
    <3>2. LifeOf[grid[s]] = "stands" /\ LifeOf' = [LifeOf EXCEPT ![grid[s]] = "flies"]
      BY <2>1, <3>1, LifeIs, LifeChange
    <3>3. AbsGame!Launch(grid[s])
      BY <2>1, <3>2 DEF AbsGame!Launch, LifeOf
    <3> QED
      BY <3>1, <3>3 DEF AbsGame!Next
  <2>2. CASE Request
    <3>1. ASSUME NEW s \in Squares, HandleJumpRequest(s) PROVE AbsGame!Next
      BY <2>1, <3>1 DEF HandleJumpRequest
    <3>2. ASSUME NEW s \in Squares, NEW e \in Squares, HandleMoveRequest(s, e) PROVE AbsGame!Next
      BY <2>1, <3>2 DEF HandleMoveRequest
    <3>3. ASSUME NEW c \in Colors, ForceForfeit(c) PROVE AbsGame!Next
      BY <3>3 DEF ForceForfeit, AbsGame!Next, AbsGame!Forfeit
    <3> QED
      BY <2>2, <3>1, <3>2, <3>3 DEF Request
  <2>3. CASE Clock
    BY <2>3 DEF Clock, UpdateGameClock, AbsGame!avars
  <2>4. CASE Settling
    BY <2>4, SettleRefines DEF Settling
  <2>5. CASE UNCHANGED vars
    BY <2>5 DEF vars, AbsGame!avars
  <2> QED
    BY <2>2, <2>3, <2>4, <2>5 DEF Next
<1> QED
  BY <1>1, <1>2, InductiveInvariant, KingsStay, PTL
  DEF Spec, ImplementsAbstractGame, AbsGame!Spec
-----------------------------------------------------------------------------
\* The order of settling.

Ties(d) == {m \in motions : m.remaining = d /\ m.duration = d}

\* Motions that are as far on and as long differ in their launch, and those that
\* have not aged yet were counted before the next one is.
LaunchOrder ==
  /\ \A m \in motions : m.remaining <= m.duration
  /\ \A m, n \in InFlight :
       m.remaining = n.remaining /\ m.duration = n.duration /\ m.launch = n.launch => m = n
  /\ \A m \in motions : m.remaining = m.duration => m.launch < Cardinality(Ties(m.duration))

\* A launch, whose motion stays or is dropped, gets a number no tie has.
LEMMA LaunchNumbers ==
  ASSUME TypeOK, LaunchOrder, landing = {}, landing' = {},
         NEW p \in Pieces, NEW s \in Squares, NEW e \in Squares, NEW j \in BOOLEAN, NEW d \in Nat,
         motions' = motions \/ motions' = motions \cup {NewMotion(p, s, e, j, d)}
  PROVE  LaunchOrder'
<1> DEFINE x == NewMotion(p, s, e, j, d)
<1>1. /\ x \in Motion /\ x.remaining = d /\ x.duration = d
      /\ x.launch = Cardinality(Ties(d))
  BY NewMotionType DEF NewMotion, Ties
<1>2. motions' \subseteq motions \cup {x} /\ motions \subseteq Motion /\ motions \subseteq motions'
  BY DEF TypeOK
<1>3. \A c \in Nat : /\ IsFiniteSet(Ties(c)) /\ Cardinality(Ties(c)) \in Nat
                     /\ Cardinality(Ties(c)) <= Cardinality(Ties(c)')
                     /\ Cardinality(Ties(c)') \in Nat
  <2> TAKE c \in Nat
  <2>1. IsFiniteSet(motions) /\ Ties(c) \subseteq motions /\ Ties(c) \subseteq Ties(c)'
    BY <1>2 DEF TypeOK, Ties
  <2>2. Ties(c)' \subseteq motions \cup {x} /\ IsFiniteSet(motions \cup {x})
    BY <1>2, <2>1, FS_AddElement DEF Ties
  <2>3. IsFiniteSet(Ties(c)) /\ IsFiniteSet(Ties(c)')
    BY <2>1, <2>2, FS_Subset
  <2> QED
    BY <2>1, <2>3, FS_Subset, FS_CardinalityType
<1>4. ASSUME NEW m \in motions, m.remaining = d, m.duration = d PROVE m.launch < x.launch
  BY <1>1, <1>4 DEF LaunchOrder
<1>5. \A m \in motions' : m.remaining <= m.duration
  BY <1>1, <1>2 DEF LaunchOrder
<1>6. ASSUME NEW m \in InFlight', NEW n \in InFlight',
             m.remaining = n.remaining, m.duration = n.duration, m.launch = n.launch
      PROVE  m = n
  <2>1. m \in motions \cup {x} /\ n \in motions \cup {x}
    BY <1>2, <1>6 DEF InFlight
  <2>2. \A k \in motions : k.launch \in Nat
    BY <1>2 DEF Motion
  <2>3. CASE m \in motions /\ n \in motions
    BY <1>6, <2>3 DEF LaunchOrder, InFlight
  <2>4. CASE m = x /\ n # x
    BY <1>1, <1>4, <1>6, <2>1, <2>2, <2>4 DEF Motion
  <2>5. CASE n = x /\ m # x
    BY <1>1, <1>4, <1>6, <2>1, <2>2, <2>5 DEF Motion
  <2> QED
    BY <2>1, <2>3, <2>4, <2>5
<1>7. ASSUME NEW m \in motions', m.remaining = m.duration
      PROVE  m.launch < Cardinality(Ties(m.duration)')
  <2>1. CASE m \in motions
    <3>1. m.duration \in Nat /\ m.launch \in Nat /\ m.launch < Cardinality(Ties(m.duration))
      BY <1>2, <1>7, <2>1 DEF Motion, LaunchOrder
    <3> QED
      BY <1>3, <3>1
  <2>2. CASE m \notin motions
    <3>1. m = x /\ x \notin Ties(d) /\ motions' = motions \cup {x}
      BY <1>2, <2>2 DEF Ties
    <3>2. Ties(d)' = Ties(d) \cup {x}
      BY <1>1, <3>1 DEF Ties
    <3>3. Cardinality(Ties(d)') = Cardinality(Ties(d)) + 1
      BY <1>3, <3>1, <3>2, FS_AddElement
    <3> QED
      BY <1>1, <1>3, <3>1, <3>3
  <2> QED
    BY <2>1, <2>2
<1>8. \A m \in motions' : m.remaining = m.duration => m.launch < Cardinality(Ties(m.duration))'
  BY <1>7
<1> QED
  BY <1>5, <1>6, <1>8 DEF LaunchOrder

\* All flights age by the same time, and none of them is a fresh one any more.
LEMMA AgingKeepsNumbers ==
  ASSUME TypeOK, LaunchOrder, NEW ms \in ClockSteps, UpdateGameClock(ms)
  PROVE  LaunchOrder'
<1>1. landing = {} /\ motions \subseteq Motion
  BY DEF TypeOK, UpdateGameClock
<1>2. ms \in Nat \ {0}
  BY ClockAssumption
<1>3. ASSUME NEW m \in motions
      PROVE  /\ Aged(m, ms).remaining = m.remaining - ms
             /\ Aged(m, ms).duration = m.duration /\ Aged(m, ms).launch = m.launch
             /\ m.remaining \in Int /\ m.duration \in Nat /\ m.launch \in Nat
             /\ m.remaining <= m.duration
  BY <1>1 DEF Aged, Motion, LaunchOrder
<1>4. InFlight' = {Aged(m, ms) : m \in motions} /\ motions' \subseteq InFlight'
  <2>1. \A m \in motions : Aged(m, ms).remaining \in Int
    BY <1>2, <1>3
  <2> QED
    BY <2>1 DEF UpdateGameClock, InFlight
<1>5. \A n \in motions' : n.remaining < n.duration
  BY <1>2, <1>3, <1>4
<1>6. ASSUME NEW m \in InFlight', NEW n \in InFlight',
             m.remaining = n.remaining, m.duration = n.duration, m.launch = n.launch
      PROVE  m = n
  <2>1. PICK a \in motions, b \in motions : m = Aged(a, ms) /\ n = Aged(b, ms)
    BY <1>4, <1>6
  <2>2. a.remaining = b.remaining /\ a.duration = b.duration /\ a.launch = b.launch
    BY <1>2, <1>3, <1>6, <2>1
  <2> QED
    BY <2>1, <2>2 DEF LaunchOrder, InFlight
<1>7. \A n \in motions' : n.remaining \in Int /\ n.duration \in Nat
  BY <1>2, <1>3, <1>4
<1> QED
  BY <1>5, <1>6, <1>7 DEF LaunchOrder

\* Settling launches nothing and ages nothing.
LEMMA LandingKeepsNumbers ==
  ASSUME LaunchOrder, motions' = motions, landing' \subseteq landing
  PROVE  LaunchOrder'
BY DEF LaunchOrder, InFlight, Ties

\* Two motions that come down in one update never tie in the sort: what is
\* settled first, and so who captures whom, depends on the times and the
\* launches alone.
THEOREM SettleOrderIsFixed == Spec => []SettleOrderIsStrict
<1>1. Init => LaunchOrder
  BY DEF Init, LaunchOrder, InFlight
<1>2. TypeOK /\ LaunchOrder /\ [Next]_vars => LaunchOrder'
  <2> SUFFICES ASSUME TypeOK, LaunchOrder, [Next]_vars PROVE LaunchOrder'
    OBVIOUS
  <2>1. ASSUME NEW s \in Squares, HandleJumpRequest(s) PROVE LaunchOrder'
    <3>1. grid[s] \in Pieces /\ JumpTime \in Nat
      BY <2>1, ClockAssumption DEF HandleJumpRequest, TypeOK
    <3> QED
      BY <2>1, <3>1, LaunchNumbers DEF HandleJumpRequest
  <2>2. ASSUME NEW s \in Squares, NEW e \in Squares, HandleMoveRequest(s, e) PROVE LaunchOrder'
    <3>1. grid[s] \in Pieces /\ Chebyshev(s, e) * CellTime \in Nat
      BY <2>2, DistanceNat DEF HandleMoveRequest, TypeOK
    <3> QED
      BY <2>2, <3>1, LaunchNumbers DEF HandleMoveRequest
  <2>3. ASSUME NEW c \in Colors, ForceForfeit(c) PROVE LaunchOrder'
    BY <2>3, LandingKeepsNumbers DEF ForceForfeit
  <2>4. CASE Clock
    BY <2>4, AgingKeepsNumbers DEF Clock
  <2>5. ASSUME NEW m \in landing, Settle(m) PROVE LaunchOrder'
    BY <2>5, LandingKeepsNumbers
    DEF Settle, SettleInPlace, SettleOnJumper, SettleBlocked, SettleArrive
  <2>6. CASE UNCHANGED vars
    BY <2>6, LandingKeepsNumbers DEF vars
  <2> QED
    BY <2>1, <2>2, <2>3, <2>4, <2>5, <2>6 DEF Next, Request, Settling
<1>3. TypeOK /\ LaunchOrder => SettleOrderIsStrict
  <2> SUFFICES ASSUME TypeOK, LaunchOrder, NEW a \in landing, NEW b \in landing, a # b
               PROVE  SettlesBefore(a, b) <=> ~ SettlesBefore(b, a)
    BY DEF SettleOrderIsStrict
  <2>1. /\ a.remaining \in Int /\ a.duration \in Nat /\ a.launch \in Nat /\ a.jump \in BOOLEAN
        /\ b.remaining \in Int /\ b.duration \in Nat /\ b.launch \in Nat /\ b.jump \in BOOLEAN
    BY DEF TypeOK, Motion
  <2>2. a.remaining # b.remaining \/ a.duration # b.duration \/ a.launch # b.launch
    BY DEF LaunchOrder, InFlight
  <2> QED
    BY <2>1, <2>2 DEF SettlesBefore
<1> QED
  BY <1>1, <1>2, <1>3, TypeCorrect, PTL DEF Spec
-----------------------------------------------------------------------------
\* Playing with the mouse is playing: whatever the pixels, the size of a square
\* and the script, the board goes through a run of GameEngine, so everything
\* above holds of it.  The square kept between two clicks is always one of the
\* board's, though its piece may be gone.

\* A click does nothing to the board, or asks the engine for a jump or a move.
LEMMA ClickIsRequest ==
  ASSUME NEW x \in Pixels, NEW y \in Pixels, Click(x, y), selected \in Squares \cup {Nowhere}
  PROVE  [Next]_vars /\ selected' \in Squares \cup {Nowhere}
<1> DEFINE s == ToPosition(x, y)
<1>1. s \in Squares
  BY DEF Click
<1>2. CASE SelectFirst(s)
  BY <1>1, <1>2 DEF SelectFirst
<1>3. CASE ClickJumps(s)
  BY <1>1, <1>3 DEF ClickJumps, Next, Request
<1>4. CASE SelectOther(s)
  BY <1>1, <1>4 DEF SelectOther
<1>5. CASE ClickMoves(s)
  BY <1>1, <1>5 DEF ClickMoves, Next, Request
<1> QED
  BY <1>2, <1>3, <1>4, <1>5 DEF Click

\* The selection.
SelectionOnBoard == selected \in Squares \cup {Nowhere}

\* A click is a request to the engine, or none.
LEMMA ClickStep ==
  SelectionOnBoard /\ [ClickNext]_clickVars => [Next]_vars /\ SelectionOnBoard'
<1> SUFFICES ASSUME SelectionOnBoard, [ClickNext]_clickVars
             PROVE  [Next]_vars /\ SelectionOnBoard'
  OBVIOUS
<1> USE DEF SelectionOnBoard
<1>1. CASE ScriptClick
  BY <1>1, ClickIsRequest DEF ScriptClick
<1>2. CASE ScriptJump
  BY <1>2 DEF ScriptJump, Next, Request
<1>3. CASE ScriptWait
  BY <1>3 DEF ScriptWait, Next
<1>4. CASE UNCHANGED clickVars
  BY <1>4 DEF clickVars
<1> QED
  BY <1>1, <1>2, <1>3, <1>4 DEF ClickNext

\* No click, jump or wait of a script does to the board what no request to the
\* engine, and no tick of its clock, could have done.
THEOREM ClicksImplementEngine == ClickSpec => ImplementsEngine
<1>1. ClickInit => Init /\ SelectionOnBoard
  BY DEF ClickInit, SelectionOnBoard
<1> QED
  BY <1>1, ClickStep, PTL DEF ClickSpec, ImplementsEngine, Spec

\* The square kept from the first click is on the board, or there is none.
THEOREM SelectionIsOnBoard == ClickSpec => []ClickTypeOK
<1>1. ClickInit => SelectionOnBoard
  BY DEF ClickInit, SelectionOnBoard
<1>2. ClickSpec => []SelectionOnBoard
  BY <1>1, ClickStep, PTL DEF ClickSpec
<1>3. ClickSpec => []TypeOK
  BY ClicksImplementEngine, TypeCorrect, PTL DEF ImplementsEngine
<1>4. TypeOK /\ SelectionOnBoard => ClickTypeOK
  BY DEF ClickTypeOK, SelectionOnBoard
<1> QED
  BY <1>2, <1>3, <1>4, PTL

\* With the mouse, too, no piece stands on two squares, no captured one on any,
\* and a standing piece leaves its square only to an enemy that captures it.
THEOREM ClickedBoardIsSound == ClickSpec => []BoardShowsTheLiving /\ StandingPieceSafe
<1> QED
  BY ClicksImplementEngine, BoardIsSound, StandingPiecesAreSafe, PTL DEF ImplementsEngine

-----------------------------------------------------------------------------
\* Adding up over a finite set, in the order the community modules' fold takes.

AnyOf(s) == CHOOSE x \in s : TRUE

\* f gives every subset of S the sum of the values v of its elements.
Adds(f, v, S) ==
  f = [s \in SUBSET S |-> IF s = {} THEN 0 ELSE v[AnyOf(s)] + f[s \ {AnyOf(s)}]]

LEMMA AnyOfIs == ASSUME NEW s, s # {} PROVE AnyOf(s) \in s
BY DEF AnyOf

\* A collection of subsets of a finite set has a least one.
LEMMA LeastSubset ==
  ASSUME NEW S, IsFiniteSet(S), NEW C, C \subseteq SUBSET S, C # {}
  PROVE  \E s \in C : \A t \in C : t \subseteq s => t = s
<1>1. IsWellFoundedOn(StrictSubsetOrdering(S), SUBSET S)
  BY FS_StrictSubsetOrderingWellFounded, FS_FiniteSubsetsOfFinite, Zenon
<1>2. PICK s \in C : \A t \in C : <<t, s>> \notin StrictSubsetOrdering(S)
  BY <1>1, WFMin
<1>3. ASSUME NEW t \in C, t \subseteq s, t # s PROVE FALSE
  <2>1. <<t, s>> \in StrictSubsetOrdering(S)
    BY <1>3 DEF StrictSubsetOrdering
  <2> QED
    BY <1>2, <2>1
<1> QED
  BY <1>2, <1>3

LEMMA AddsNothing ==
  ASSUME NEW S, NEW v, NEW f, Adds(f, v, S)
  PROVE  f[{}] = 0
BY DEF Adds

LEMMA AddsAny ==
  ASSUME NEW S, NEW v, NEW f, Adds(f, v, S), NEW s \in SUBSET S, s # {}
  PROVE  f[s] = v[AnyOf(s)] + f[s \ {AnyOf(s)}]
<1> DEFINE g == [t \in SUBSET S |-> IF t = {} THEN 0 ELSE v[AnyOf(t)] + f[t \ {AnyOf(t)}]]
<1>1. f = g
  BY DEF Adds
<1>2. g[s] = v[AnyOf(s)] + f[s \ {AnyOf(s)}]
  OBVIOUS
<1> HIDE DEF g
<1> QED
  BY <1>1, <1>2

LEMMA AddsNat ==
  ASSUME NEW S, IsFiniteSet(S), NEW v, \A x \in S : v[x] \in Nat, NEW f, Adds(f, v, S)
  PROVE  \A s \in SUBSET S : f[s] \in Nat
<1> DEFINE C == {s \in SUBSET S : f[s] \notin Nat}
<1> SUFFICES ASSUME C # {} PROVE FALSE
  OBVIOUS
<1>1. PICK s \in C : \A t \in C : t \subseteq s => t = s
  <2> HIDE DEF C
  <2>1. C \subseteq SUBSET S
    BY DEF C
  <2> QED
    BY <2>1, LeastSubset
<1>2. s \in SUBSET S
  BY <1>1
<1>7. f[s] \notin Nat
  BY <1>1
<1> HIDE DEF C
<1>3. s # {}
  BY <1>7, AddsNothing
<1>6. f[s] = v[AnyOf(s)] + f[s \ {AnyOf(s)}]
  BY <1>2, <1>3, AddsAny
<1>4. AnyOf(s) \in s /\ AnyOf(s) \in S
  BY <1>2, <1>3, AnyOfIs
<1>5. f[s \ {AnyOf(s)}] \in Nat
  BY <1>1, <1>2, <1>4 DEF C
<1> QED
  BY <1>4, <1>5, <1>6, <1>7

\* The sum over a set does not depend on which larger set it is taken from.
LEMMA AddsAgree ==
  ASSUME NEW S, NEW T, IsFiniteSet(S), IsFiniteSet(T), NEW v, NEW w, NEW f, NEW g,
         Adds(f, v, S), Adds(g, w, T), NEW U \in SUBSET (S \cap T), \A x \in U : v[x] = w[x]
  PROVE  f[U] = g[U]
<1> DEFINE C == {s \in SUBSET U : f[s] # g[s]}
<1> SUFFICES ASSUME C # {} PROVE FALSE
  OBVIOUS
<1>0. IsFiniteSet(U)
  BY FS_Subset
<1>1. PICK s \in C : \A t \in C : t \subseteq s => t = s
  <2> HIDE DEF C
  <2>1. C \subseteq SUBSET U
    BY DEF C
  <2> QED
    BY <1>0, <2>1, LeastSubset
<1>2. s \in SUBSET S /\ s \in SUBSET T /\ s \subseteq U /\ f[s] # g[s]
  BY <1>1
<1> HIDE DEF C
<1>3. s # {}
  BY <1>2, AddsNothing
<1>4. f[s] = v[AnyOf(s)] + f[s \ {AnyOf(s)}]
  BY <1>2, <1>3, AddsAny
<1>7. g[s] = w[AnyOf(s)] + g[s \ {AnyOf(s)}]
  BY <1>2, <1>3, AddsAny
<1>5. AnyOf(s) \in s
  BY <1>3, AnyOfIs
<1>6. f[s \ {AnyOf(s)}] = g[s \ {AnyOf(s)}]
  BY <1>1, <1>2, <1>5 DEF C
<1> QED
  BY <1>2, <1>4, <1>5, <1>6, <1>7

\* The values of a finite set can be added up.
LEMMA AddsExists ==
  ASSUME NEW S, IsFiniteSet(S), NEW v
  PROVE  \E f : Adds(f, v, S)
<1> DEFINE C == {s \in SUBSET S : ~ \E f : Adds(f, v, s)}
<1> SUFFICES ASSUME C # {} PROVE FALSE
  OBVIOUS
<1>1. PICK s \in C : \A t \in C : t \subseteq s => t = s
  <2> HIDE DEF C
  <2>1. C \subseteq SUBSET S
    BY DEF C
  <2> QED
    BY <2>1, LeastSubset
<1>2. s \in SUBSET S /\ ~ \E f : Adds(f, v, s)
  BY <1>1
<1> DEFINE G(t) == CHOOSE f : Adds(f, v, t)
           h == [t \in SUBSET s |-> IF t = {} THEN 0 ELSE v[AnyOf(t)] + G(t \ {AnyOf(t)})[t \ {AnyOf(t)}]]
<1>3. ASSUME NEW t \in SUBSET s, t # s PROVE Adds(G(t), v, t)
  <2>1. \E f : Adds(f, v, t)
    BY <1>1, <1>2, <1>3
  <2> QED
    BY <2>1
<1> HIDE DEF G
<1>4. ASSUME NEW t \in SUBSET s, t # s PROVE G(t)[t] = h[t]
  <2>1. Adds(G(t), v, t) /\ t \in SUBSET t
    BY <1>3, <1>4
  <2>2. h[t] = IF t = {} THEN 0 ELSE v[AnyOf(t)] + G(t \ {AnyOf(t)})[t \ {AnyOf(t)}]
    OBVIOUS
  <2> HIDE DEF h
  <2>3. CASE t = {}
    <3>1. G(t)[t] = 0
      BY <2>1, <2>3, AddsNothing
    <3> QED
      BY <2>2, <2>3, <3>1
  <2>4. CASE t # {}
    <3> DEFINE r == t \ {AnyOf(t)}
    <3>1. r \in SUBSET s /\ r # s /\ r \in SUBSET (t \cap r)
      BY <2>4, AnyOfIs
    <3> HIDE DEF r
    <3>2. Adds(G(r), v, r)
      BY <1>3, <3>1
    <3>3. IsFiniteSet(t) /\ IsFiniteSet(r)
      BY <1>2, <3>1, FS_Subset
    <3>4. G(t)[r] = G(r)[r]
      BY <2>1, <3>1, <3>2, <3>3, AddsAgree
    <3>5. G(t)[t] = v[AnyOf(t)] + G(t)[r]
      <4>1. G(t)[t] = v[AnyOf(t)] + G(t)[t \ {AnyOf(t)}]
        BY <2>1, <2>4, AddsAny
      <4> QED
        BY <4>1 DEF r
    <3>6. h[t] = v[AnyOf(t)] + G(r)[r]
      BY <2>2, <2>4 DEF r
    <3> QED
      BY <3>4, <3>5, <3>6
  <2> QED
    BY <2>3, <2>4
<1>5. \A t \in SUBSET s : t # {} => G(t \ {AnyOf(t)})[t \ {AnyOf(t)}] = h[t \ {AnyOf(t)}]
  <2> SUFFICES ASSUME NEW t \in SUBSET s, t # {}
               PROVE  G(t \ {AnyOf(t)})[t \ {AnyOf(t)}] = h[t \ {AnyOf(t)}]
    OBVIOUS
  <2>1. t \ {AnyOf(t)} \in SUBSET s /\ t \ {AnyOf(t)} # s
    BY AnyOfIs
  <2> HIDE DEF h
  <2> QED
    BY <2>1, <1>4
<1>6. h = [t \in SUBSET s |-> IF t = {} THEN 0 ELSE v[AnyOf(t)] + h[t \ {AnyOf(t)}]]
  <2> DEFINE k == [t \in SUBSET s |-> IF t = {} THEN 0 ELSE v[AnyOf(t)] + h[t \ {AnyOf(t)}]]
  <2>1. \A t \in SUBSET s : h[t] = IF t = {} THEN 0 ELSE v[AnyOf(t)] + G(t \ {AnyOf(t)})[t \ {AnyOf(t)}]
    OBVIOUS
  <2>2. h = [t \in SUBSET s |-> h[t]]
    OBVIOUS
  <2> HIDE DEF h
  <2>3. \A t \in SUBSET s : h[t] = IF t = {} THEN 0 ELSE v[AnyOf(t)] + h[t \ {AnyOf(t)}]
    BY <2>1, <1>5
  <2> QED
    BY <2>2, <2>3
<1> HIDE DEF h
<1> QED
  BY <1>2, <1>6 DEF Adds

\* One element more adds its value, whichever element the fold takes first.
LEMMA AddsOneMore ==
  ASSUME NEW S, IsFiniteSet(S), NEW v, \A x \in S : v[x] \in Nat, NEW f, Adds(f, v, S),
         NEW s \in SUBSET S, NEW x \in S \ s
  PROVE  f[s \cup {x}] = f[s] + v[x]
<1> DEFINE Right(t) == \A y \in t : f[t] = f[t \ {y}] + v[y]
           C == {t \in SUBSET S : ~ Right(t)}
<1>1. C = {}
  <2> SUFFICES ASSUME C # {} PROVE FALSE
    OBVIOUS
  <2>1. PICK t \in C : \A r \in C : r \subseteq t => r = t
    <3> HIDE DEF C
    <3>1. C \subseteq SUBSET S
      BY DEF C
    <3> QED
      BY <3>1, LeastSubset
  <2>2. PICK y \in t : f[t] # f[t \ {y}] + v[y]
    BY <2>1
  <2>9. t \in SUBSET S
    BY <2>1
  <2> HIDE DEF C
  <2> DEFINE a == AnyOf(t)
  <2>3. t \in SUBSET S /\ a \in t /\ f[t] = v[a] + f[t \ {a}]
    <3>3. t # {}
      BY <2>2
    <3>1. f[t] = v[AnyOf(t)] + f[t \ {AnyOf(t)}]
      BY <2>9, <3>3, AddsAny
    <3>2. AnyOf(t) \in t
      BY <2>2, AnyOfIs
    <3> QED
      BY <2>9, <3>1, <3>2
  <2> HIDE DEF a
  <2>4. v[a] \in Nat /\ v[y] \in Nat /\ f[t \ {a}] \in Nat /\ f[t \ {y}] \in Nat /\ f[t \ {a, y}] \in Nat
    BY <2>2, <2>3, AddsNat
  <2>5. a # y
    <3>1. v[a] + f[t \ {a}] = f[t \ {a}] + v[a]
      BY <2>4
    <3> QED
      BY <2>2, <2>3, <3>1
  <2>6. Right(t \ {a}) /\ Right(t \ {y})
    BY <2>1, <2>2, <2>3 DEF C
  <2>7. f[t \ {a}] = f[t \ {a, y}] + v[y]
    <3>1. y \in t \ {a} /\ (t \ {a}) \ {y} = t \ {a, y}
      BY <2>2, <2>5
    <3> QED
      BY <3>1, <2>6
  <2>8. f[t \ {y}] = f[t \ {a, y}] + v[a]
    <3>1. a \in t \ {y} /\ (t \ {y}) \ {a} = t \ {a, y}
      BY <2>3, <2>5
    <3> QED
      BY <3>1, <2>6
  <2> QED
    BY <2>2, <2>3, <2>4, <2>7, <2>8
<1>2. Right(s \cup {x})
  BY <1>1
<1>3. (s \cup {x}) \ {x} = s
  OBVIOUS
<1> QED
  BY <1>2, <1>3

-----------------------------------------------------------------------------
\* The points.

Worth == [p \in Pieces |-> PieceValue(kind[p])]
Lost(c) == {p \in Pieces : status[p] = "captured" /\ ColorOf[p] # c}

\* ScoreMatchesCaptures, with whatever adds up the worth of the pieces.
PointsAddUp ==
  \A f : Adds(f, Worth, Pieces) => \A c \in Colors : score[c] = f[Lost(c)]

\* The property's fold is such a sum.
LEMMA FoldAddsUp ==
  ASSUME NEW f, Adds(f, Worth, Pieces), NEW S \in SUBSET Pieces
  PROVE  MapThenSumSet(LAMBDA p : PieceValue(kind[p]), S) = f[S]
<1> DEFINE Points(g) ==
             g = [s \in SUBSET S |-> IF s = {} THEN 0
                                     ELSE PieceValue(kind[CHOOSE x \in s : TRUE]) + g[s \ {CHOOSE x \in s : TRUE}]]
           total == CHOOSE g : Points(g)
<1>1. MapThenSumSet(LAMBDA p : PieceValue(kind[p]), S) = total[S]
  BY DEF MapThenSumSet, MapThenFoldSet
<1>2. IsFiniteSet(Pieces) /\ IsFiniteSet(S)
  BY PiecesAssumption, FS_Subset
<1>3. ASSUME NEW g PROVE Points(g) <=> Adds(g, Worth, S)
  <2> DEFINE a == [s \in SUBSET S |-> IF s = {} THEN 0
                                      ELSE PieceValue(kind[CHOOSE x \in s : TRUE]) + g[s \ {CHOOSE x \in s : TRUE}]]
             b == [s \in SUBSET S |-> IF s = {} THEN 0 ELSE Worth[AnyOf(s)] + g[s \ {AnyOf(s)}]]
  <2>1. \A s \in SUBSET S : s # {} => Worth[AnyOf(s)] = PieceValue(kind[AnyOf(s)])
    BY AnyOfIs DEF Worth
  <2>2. a = b
    BY <2>1 DEF AnyOf
  <2> QED
    BY <2>2 DEF Adds
<1>4. PICK g : Adds(g, Worth, S)
  BY <1>2, AddsExists
<1>5. Points(total)
  <2>1. Points(g)
    BY <1>3, <1>4
  <2> HIDE DEF Points
  <2> QED
    BY <2>1
<1>6. Adds(total, Worth, S)
  BY <1>3, <1>5
<1> HIDE DEF total
<1>7. total[S] = f[S]
  BY <1>2, <1>6, AddsAgree
<1> QED
  BY <1>1, <1>7

\* What a step captures: nothing, or one piece, for its enemy's points.  Only what has
\* just landed is promoted.
LEMMA CaptureStep ==
  ASSUME IInv, [Next]_vars
  PROVE  /\ \A r \in Pieces : status'[r] = "captured" => kind'[r] = kind[r]
         /\ \/ /\ score' = score
               /\ \A r \in Pieces : status'[r] = "captured" <=> status[r] = "captured"
            \/ \E q \in Pieces :
                 /\ score' = [score EXCEPT ![Enemy(ColorOf[q])] = @ + PieceValue(kind[q])]
                 /\ status[q] # "captured"
                 /\ \A r \in Pieces : status'[r] = "captured" <=> status[r] = "captured" \/ r = q
<1> USE DEF IInv
<1>1. CASE UNCHANGED vars
  BY <1>1 DEF vars
<1>2. CASE Request
  BY <1>2 DEF Request, HandleJumpRequest, HandleMoveRequest, ForceForfeit, TypeOK
<1>3. CASE Clock
  BY <1>3 DEF Clock, UpdateGameClock
<1>4. ASSUME NEW m \in landing, Settle(m)
      PROVE  /\ \A r \in Pieces : status'[r] = "captured" => kind'[r] = kind[r]
             /\ \/ /\ score' = score
                   /\ \A r \in Pieces : status'[r] = "captured" <=> status[r] = "captured"
                \/ \E q \in Pieces :
                     /\ score' = [score EXCEPT ![Enemy(ColorOf[q])] = @ + PieceValue(kind[q])]
                     /\ status[q] # "captured"
                     /\ \A r \in Pieces : status'[r] = "captured" <=> status[r] = "captured" \/ r = q
  <2>1. m.piece \in Pieces /\ m.end \in Squares /\ status[m.piece] \in {"moving", "jumping"}
    BY <1>4, LandingEffect
  <2>2. status \in [Pieces -> Statuses] /\ kind \in [Pieces -> Kinds] /\ grid[m.end] \in Pieces \cup {NoPiece}
    BY <2>1 DEF TypeOK
  <2>3. CASE SettleInPlace(m)
    BY <2>1, <2>2, <2>3 DEF SettleInPlace
  <2>4. CASE SettleBlocked(m)
    BY <2>1, <2>2, <2>4 DEF SettleBlocked
  <2>5. CASE SettleOnJumper(m)
    <3>1. grid[m.end] \in Pieces /\ ColorOf[grid[m.end]] # ColorOf[m.piece]
      BY <2>2, <2>5 DEF SettleOnJumper, JumperAt
    <3>2. ColorOf[grid[m.end]] = Enemy(ColorOf[m.piece])
      BY <2>1, <3>1, EnemyIsOther, PiecesAssumption
    <3>3. score' = [score EXCEPT ![Enemy(ColorOf[m.piece])] = @ + PieceValue(kind[m.piece])]
      BY <2>5, <3>2 DEF SettleOnJumper, Taken
    <3>4. status' = [status EXCEPT ![m.piece] = "captured"] /\ kind' = kind
      BY <2>5 DEF SettleOnJumper
    <3>5. \A r \in Pieces : status'[r] = "captured" <=> status[r] = "captured" \/ r = m.piece
      BY <2>2, <3>4
    <3> QED
      BY <2>1, <3>3, <3>4, <3>5
  <2>6. CASE SettleArrive(m)
    <3>1. \A r \in Pieces : r # m.piece => kind'[r] = kind[r]
      BY <2>2, <2>6 DEF SettleArrive, Promoted
    <3>2. CASE StandsAt(m.end)
      <4>1. /\ grid[m.end] \in Pieces /\ status[grid[m.end]] = "idle"
            /\ ColorOf[grid[m.end]] # ColorOf[m.piece]
        BY <2>2, <2>6, <3>2 DEF SettleArrive, MayLand, StandsAt
      <4>2. ColorOf[m.piece] = Enemy(ColorOf[grid[m.end]])
        BY <2>1, <4>1, EnemyIsOther, PiecesAssumption
      <4>3. score' = [score EXCEPT ![Enemy(ColorOf[grid[m.end]])] = @ + PieceValue(kind[grid[m.end]])]
        BY <2>6, <3>2, <4>2 DEF SettleArrive, Taken
      <4>4. status' = [[status EXCEPT ![m.piece] = "idle"] EXCEPT ![grid[m.end]] = "captured"]
        BY <2>6, <3>2 DEF SettleArrive
      <4>5. \A r \in Pieces : status'[r] = "captured" <=> status[r] = "captured" \/ r = grid[m.end]
        BY <2>1, <2>2, <4>1, <4>4
      <4>6. status'[m.piece] = "idle"
        BY <2>1, <2>2, <4>1, <4>4
      <4> QED
        BY <3>1, <4>1, <4>3, <4>5, <4>6
    <3>3. CASE ~ StandsAt(m.end)
      <4>1. status' = [status EXCEPT ![m.piece] = "idle"] /\ score' = score
        BY <2>6, <3>3 DEF SettleArrive
      <4> QED
        BY <2>1, <2>2, <3>1, <4>1
    <3> QED
      BY <3>2, <3>3
  <2> QED
    BY <1>4, <2>3, <2>4, <2>5, <2>6 DEF Settle
<1> QED
  BY <1>1, <1>2, <1>3, <1>4 DEF Next, Settling

LEMMA StepKeepsPoints ==
  ASSUME IInv, PointsAddUp, [Next]_vars
  PROVE  PointsAddUp'
<1> SUFFICES ASSUME NEW f, Adds(f, Worth', Pieces), NEW c \in Colors
             PROVE  score'[c] = f[Lost(c)']
  BY DEF PointsAddUp
<1>1. IsFiniteSet(Pieces) /\ ColorOf \in [Pieces -> Colors]
  BY PiecesAssumption
<1>2. PICK g : Adds(g, Worth, Pieces)
  BY <1>1, AddsExists
<1>3. score[c] = g[Lost(c)] /\ score \in [Colors -> Nat]
  BY <1>2 DEF PointsAddUp, IInv, TypeOK
<1>4. \A p \in Pieces : Worth[p] \in Nat
  BY PieceValueNat DEF Worth, IInv, TypeOK
<1>5. f[Lost(c)'] = g[Lost(c)']
  <2>1. Lost(c)' \in SUBSET (Pieces \cap Pieces)
    BY DEF Lost
  <2>2. \A r \in Lost(c)' : Worth'[r] = Worth[r]
    BY CaptureStep DEF Lost, Worth
  <2> QED
    BY <1>1, <1>2, <2>1, <2>2, AddsAgree
<1>6. CASE score' = score /\ \A r \in Pieces : status'[r] = "captured" <=> status[r] = "captured"
  <2>1. Lost(c)' = Lost(c)
    BY <1>6 DEF Lost
  <2> QED
    BY <1>3, <1>5, <1>6, <2>1
<1>7. ASSUME NEW q \in Pieces,
             score' = [score EXCEPT ![Enemy(ColorOf[q])] = @ + PieceValue(kind[q])],
             status[q] # "captured",
             \A r \in Pieces : status'[r] = "captured" <=> status[r] = "captured" \/ r = q
      PROVE  score'[c] = f[Lost(c)']
  <2>1. ColorOf[q] \in Colors /\ (c = Enemy(ColorOf[q]) <=> ColorOf[q] # c)
    BY <1>1 DEF Enemy, Colors
  <2>2. CASE ColorOf[q] # c
    <3>1. Lost(c)' = Lost(c) \cup {q}
      BY <1>7, <2>2 DEF Lost
    <3>2. Lost(c) \in SUBSET Pieces /\ q \in Pieces \ Lost(c)
      BY <1>7 DEF Lost
    <3>3. g[Lost(c) \cup {q}] = g[Lost(c)] + Worth[q]
      BY <1>1, <1>2, <1>4, <3>2, AddsOneMore
    <3>4. score'[c] = score[c] + PieceValue(kind[q])
      BY <1>3, <1>7, <2>1, <2>2
    <3>5. Worth[q] = PieceValue(kind[q])
      BY DEF Worth
    <3> QED
      BY <1>3, <1>5, <3>1, <3>3, <3>4, <3>5
  <2>3. CASE ColorOf[q] = c
    <3>1. Lost(c)' = Lost(c)
      BY <1>7, <2>3 DEF Lost
    <3>2. score'[c] = score[c]
      BY <1>3, <1>7, <2>1, <2>3
    <3> QED
      BY <1>3, <1>5, <3>1, <3>2
  <2> QED
    BY <2>2, <2>3
<1> QED
  BY <1>6, <1>7, CaptureStep

LEMMA PointsKept == Spec => []PointsAddUp
<1>1. Init => PointsAddUp
  <2> SUFFICES ASSUME Init, NEW f, Adds(f, Worth, Pieces), NEW c \in Colors
               PROVE  score[c] = f[Lost(c)]
    BY DEF PointsAddUp
  <2>1. Lost(c) = {} /\ score[c] = 0
    BY DEF Init, Lost
  <2> QED
    BY <2>1, AddsNothing
<1>2. IInv /\ PointsAddUp /\ [Next]_vars => PointsAddUp'
  BY StepKeepsPoints
<1> QED
  BY <1>1, <1>2, InductiveInvariant, PTL DEF Spec

LEMMA PointsAreScores == PointsAddUp => ScoreMatchesCaptures
<1> SUFFICES ASSUME PointsAddUp, NEW c \in Colors
             PROVE  score[c] = MapThenSumSet(LAMBDA p : PieceValue(kind[p]), Lost(c))
  BY DEF ScoreMatchesCaptures, Lost
<1>1. PICK f : Adds(f, Worth, Pieces)
  BY PiecesAssumption, AddsExists
<1>2. Lost(c) \in SUBSET Pieces
  BY DEF Lost
<1>3. MapThenSumSet(LAMBDA p : PieceValue(kind[p]), Lost(c)) = f[Lost(c)]
  BY <1>1, <1>2, FoldAddsUp
<1> QED
  BY <1>1, <1>3 DEF PointsAddUp

\* A side's points are the values of the enemies it captured, each counted once and at
\* what it was worth when it fell, though promotions and captures meet in one update.
THEOREM PointsAreCaptures == Spec => []ScoreMatchesCaptures
BY PointsKept, PointsAreScores, PTL

\* And so they are under any script of clicks, jumps and waits.
THEOREM ClickedPointsAreCaptures == ClickSpec => []ScoreMatchesCaptures
BY PointsAreCaptures, ClicksImplementEngine, PTL DEF ImplementsEngine

-----------------------------------------------------------------------------
\* The rules of movement.  On boards of every size, with pieces of every kind,
\* colour and status on any squares, the walks of PieceRules allow what the
\* reference of RulesReference allows.  A walk of m steps in one of the eight
\* directions passes exactly the squares of the segment between its ends
\* (WalkIsSegment), and a segment is a walk when it is straight or diagonal
\* (SegmentIsRay); the rest goes piece by piece.

\* Squares and steps, by their coordinates.
LEMMA OnTheBoard ==
  ASSUME NEW r \in Int, NEW c \in Int
  PROVE  <<r, c>> \in Squares <=> 0 <= r /\ r < NumRows /\ 0 <= c /\ c < NumCols
BY BoardSizeAssumption DEF Squares

LEMMA Coordinates ==
  ASSUME NEW s \in Squares
  PROVE  /\ s = <<s[1], s[2]>> /\ s[1] \in Int /\ s[2] \in Int
         /\ 0 <= s[1] /\ s[1] < NumRows /\ 0 <= s[2] /\ s[2] < NumCols
BY BoardSizeAssumption DEF Squares

\* A common factor.
LEMMA Cancel ==
  ASSUME NEW x \in Int, NEW y \in Int, NEW m \in Nat, m # 0, x * m = y * m
  PROVE  x = y
<1>1. (x - y) * m = 0
  OBVIOUS
<1> QED
  BY <1>1

\* The direction of a segment.
LEMMA Toward ==
  ASSUME NEW d \in Straight \cup Diagonal
  PROVE  /\ d = <<d[1], d[2]>> /\ d[1] \in {-1, 0, 1} /\ d[2] \in {-1, 0, 1}
         /\ d[1] # 0 \/ d[2] # 0
BY DEF Straight, Diagonal

\* The squares a walk of m steps passes are those between its ends.
LEMMA WalkIsSegment ==
  ASSUME NEW s \in Squares, NEW e \in Squares, NEW d \in Straight \cup Diagonal,
         NEW m \in Nat, m # 0, e = StepFrom(s, d, m)
  PROVE  Between(s, e) = {StepFrom(s, d, k) : k \in 1 .. m - 1}
<1> DEFINE S == {StepFrom(s, d, k) : k \in 1 .. m - 1}
<1>1. /\ s = <<s[1], s[2]>> /\ s[1] \in Int /\ s[2] \in Int
      /\ 0 <= s[1] /\ s[1] < NumRows /\ 0 <= s[2] /\ s[2] < NumCols
  BY Coordinates
<1>2. /\ d[1] \in {-1, 0, 1} /\ d[2] \in {-1, 0, 1}
      /\ d[1] # 0 \/ d[2] # 0
  BY Toward
<1>3. e[1] = s[1] + m * d[1] /\ e[2] = s[2] + m * d[2]
  BY DEF StepFrom
<1>4. /\ e = <<e[1], e[2]>> /\ e[1] \in Int /\ e[2] \in Int
      /\ 0 <= e[1] /\ e[1] < NumRows /\ 0 <= e[2] /\ e[2] < NumCols
  BY Coordinates
<1>5. ASSUME NEW t \in Between(s, e)
      PROVE  t \in S
  <2>1. /\ t \in Squares /\ t # s /\ t # e
        /\ (t[1] - s[1]) * (e[2] - s[2]) = (t[2] - s[2]) * (e[1] - s[1])
        /\ Within(t[1], s[1], e[1]) /\ Within(t[2], s[2], e[2])
    BY <1>5 DEF Between
  <2>2. t = <<t[1], t[2]>> /\ t[1] \in Int /\ t[2] \in Int
    BY <2>1, Coordinates
  <2> DEFINE a == t[1] - s[1]
             b == t[2] - s[2]
  <2>3. a \in Int /\ b \in Int /\ t = <<s[1] + a, s[2] + b>>
    BY <1>1, <2>2
  <2>4. a * d[2] = b * d[1]
    <3>1. a * (m * d[2]) = b * (m * d[1])
      BY <1>1, <1>2, <1>3, <2>1, <2>2
    <3>2. (a * d[2]) * m = (b * d[1]) * m
      BY <3>1, <2>3, <1>2
    <3>3. a * d[2] \in Int /\ b * d[1] \in Int
      BY <2>3, <1>2
    <3> QED
      BY <3>2, <3>3, Cancel
  <2>5. \E k \in Int : a = k * d[1] /\ b = k * d[2]
    <3>1. CASE d[1] = 1
      BY <3>1, <2>3, <2>4, <1>2
    <3>2. CASE d[1] = -1
      <4>1. -a \in Int /\ a = (-a) * (-1) /\ b = (-a) * d[2]
        BY <3>2, <2>3, <2>4, <1>2
      <4> QED
        BY <4>1, <3>2
    <3>3. CASE d[1] = 0 /\ d[2] = 1
      BY <3>3, <2>3, <2>4
    <3>4. CASE d[1] = 0 /\ d[2] = -1
      <4>1. a * (-1) = b * 0
        BY <3>4, <2>4
      <4> HIDE DEF a, b
      <4>2. -b \in Int /\ b = (-b) * (-1) /\ a = (-b) * 0
        BY <4>1, <2>3
      <4> QED
        BY <4>2, <3>4
    <3> QED
      BY <3>1, <3>2, <3>3, <3>4, <1>2
  <2>6. PICK k \in Int : a = k * d[1] /\ b = k * d[2]
    BY <2>5
  <2>7. t = StepFrom(s, d, k)
    BY <2>3, <2>6 DEF StepFrom
  <2>8. k # 0
    <3>1. CASE k = 0
      <4>1. a = 0 /\ b = 0
        BY <3>1, <2>6, <1>2
      <4>2. t = <<s[1], s[2]>>
        BY <4>1, <2>3, <1>1
      <4> QED
        BY <4>2, <1>1, <2>1
    <3> QED
      BY <3>1
  <2>9. k # m
    BY <2>1, <2>7
  <2>10. 0 <= k /\ k <= m
    <3>1. Within(s[1] + k * d[1], s[1], s[1] + m * d[1]) /\ Within(s[2] + k * d[2], s[2], s[2] + m * d[2])
      BY <2>1, <2>2, <2>6, <1>1, <1>3
    <3>2. CASE d[1] = 1
      BY <3>1, <3>2, <1>1 DEF Within
    <3>3. CASE d[1] = -1
      BY <3>1, <3>3, <1>1 DEF Within
    <3>4. CASE d[2] = 1
      BY <3>1, <3>4, <1>1 DEF Within
    <3>5. CASE d[2] = -1
      BY <3>1, <3>5, <1>1 DEF Within
    <3> QED
      BY <3>2, <3>3, <3>4, <3>5, <1>2
  <2>11. k \in 1 .. m - 1
    BY <2>8, <2>9, <2>10
  <2> QED
    BY <2>7, <2>11
<1>6. ASSUME NEW k \in 1 .. m - 1
      PROVE  StepFrom(s, d, k) \in Between(s, e)
  <2> DEFINE t == StepFrom(s, d, k)
             a == t[1]
             b == t[2]
  <2>1. t = <<a, b>> /\ a = s[1] + k * d[1] /\ b = s[2] + k * d[2]
    BY DEF StepFrom
  <2>2. k \in Int /\ 1 <= k /\ k < m
    OBVIOUS
  <2>3. a \in Int /\ b \in Int
    BY <2>1, <2>2, <1>1, <1>2
  <2> HIDE DEF t, a, b
  <2>4. Within(a, s[1], e[1]) /\ (d[1] # 0 => a # s[1] /\ a # e[1])
    BY <2>1, <2>2, <1>1, <1>2, <1>3 DEF Within
  <2>5. Within(b, s[2], e[2]) /\ (d[2] # 0 => b # s[2] /\ b # e[2])
    BY <2>1, <2>2, <1>1, <1>2, <1>3 DEF Within
  <2>6. 0 <= a /\ a < NumRows /\ 0 <= b /\ b < NumCols
    BY <2>3, <2>4, <2>5, <1>1, <1>4, BoardSizeAssumption DEF Within
  <2>7. t \in Squares
    BY <2>1, <2>3, <2>6, OnTheBoard
  <2>8. t # s /\ t # e
    BY <2>1, <2>4, <2>5, <1>1, <1>2, <1>4
  <2>9. (a - s[1]) * (e[2] - s[2]) = (b - s[2]) * (e[1] - s[1])
    <3>1. /\ a - s[1] = k * d[1] /\ b - s[2] = k * d[2]
          /\ e[1] - s[1] = m * d[1] /\ e[2] - s[2] = m * d[2]
      BY <2>1, <2>2, <1>1, <1>2, <1>3
    <3>2. (k * d[1]) * (m * d[2]) = (k * d[2]) * (m * d[1])
      BY <2>2, <1>2
    <3> QED
      BY <3>1, <3>2
  <2> QED
    BY <2>1, <2>4, <2>5, <2>7, <2>8, <2>9 DEF Between, t, a, b
<1> QED
  BY <1>5, <1>6

\* Which segments are rays: those along a row or a column, and those with as
\* many rows as columns.
LEMMA SegmentIsRay ==
  ASSUME NEW s \in Squares, NEW e \in Squares, s # e
  PROVE  /\ (Distance(s[1], e[1]) = 0 \/ Distance(s[2], e[2]) = 0) <=>
              \E d \in Straight, m \in 1 .. NumRows + NumCols : e = StepFrom(s, d, m)
         /\ Distance(s[1], e[1]) = Distance(s[2], e[2]) <=>
              \E d \in Diagonal, m \in 1 .. NumRows + NumCols : e = StepFrom(s, d, m)
<1> DEFINE rows == Distance(s[1], e[1])
           cols == Distance(s[2], e[2])
<1>1. /\ s = <<s[1], s[2]>> /\ s[1] \in Int /\ s[2] \in Int
      /\ 0 <= s[1] /\ s[1] < NumRows /\ 0 <= s[2] /\ s[2] < NumCols
  BY Coordinates
<1>2. /\ e = <<e[1], e[2]>> /\ e[1] \in Int /\ e[2] \in Int
      /\ 0 <= e[1] /\ e[1] < NumRows /\ 0 <= e[2] /\ e[2] < NumCols
  BY Coordinates
<1>3. /\ rows = IF s[1] < e[1] THEN e[1] - s[1] ELSE s[1] - e[1]
      /\ cols = IF s[2] < e[2] THEN e[2] - s[2] ELSE s[2] - e[2]
  BY DEF Distance
<1>4. rows # 0 \/ cols # 0
  BY <1>1, <1>2, <1>3
<1>5. rows \in 0 .. NumRows + NumCols /\ cols \in 0 .. NumRows + NumCols
  BY <1>1, <1>2, <1>3, BoardSizeAssumption
<1> HIDE DEF rows, cols
<1>6. ASSUME NEW a \in {-1, 0, 1}, NEW b \in {-1, 0, 1}, NEW m \in 1 .. NumRows + NumCols
      PROVE  e = StepFrom(s, <<a, b>>, m) <=> e[1] = s[1] + m * a /\ e[2] = s[2] + m * b
  BY <1>2 DEF StepFrom
<1>7. ASSUME rows = 0 \/ cols = 0
      PROVE  \E d \in Straight, m \in 1 .. NumRows + NumCols : e = StepFrom(s, d, m)
  <2>1. CASE rows = 0 /\ s[2] < e[2]
    <3>1. cols \in 1 .. NumRows + NumCols
      BY <2>1, <1>4, <1>5
    <3>2. e[1] = s[1] + cols * 0 /\ e[2] = s[2] + cols * 1
      BY <2>1, <1>1, <1>2, <1>3
    <3>3. e = StepFrom(s, <<0, 1>>, cols)
      BY <3>1, <3>2, <1>6
    <3> QED
      BY <3>1, <3>3 DEF Straight
  <2>2. CASE rows = 0 /\ ~ s[2] < e[2]
    <3>1. cols \in 1 .. NumRows + NumCols
      BY <2>2, <1>4, <1>5
    <3>2. e[1] = s[1] + cols * 0 /\ e[2] = s[2] + cols * (-1)
      BY <2>2, <1>1, <1>2, <1>3
    <3>3. e = StepFrom(s, <<0, -1>>, cols)
      BY <3>1, <3>2, <1>6
    <3> QED
      BY <3>1, <3>3 DEF Straight
  <2>3. CASE cols = 0 /\ s[1] < e[1]
    <3>1. rows \in 1 .. NumRows + NumCols
      BY <2>3, <1>4, <1>5
    <3>2. e[1] = s[1] + rows * 1 /\ e[2] = s[2] + rows * 0
      <4>1. rows \in Int /\ e[1] = s[1] + rows /\ e[2] = s[2]
        BY <2>3, <1>1, <1>2, <1>3
      <4> QED
        BY <4>1, <1>1
    <3>3. e = StepFrom(s, <<1, 0>>, rows)
      BY <3>1, <3>2, <1>6
    <3> QED
      BY <3>1, <3>3 DEF Straight
  <2>4. CASE cols = 0 /\ ~ s[1] < e[1]
    <3>1. rows \in 1 .. NumRows + NumCols
      BY <2>4, <1>4, <1>5
    <3>2. e[1] = s[1] + rows * (-1) /\ e[2] = s[2] + rows * 0
      <4>1. rows \in Int /\ e[1] = s[1] - rows /\ e[2] = s[2]
        BY <2>4, <1>1, <1>2, <1>3
      <4> QED
        BY <4>1, <1>1
    <3>3. e = StepFrom(s, <<-1, 0>>, rows)
      BY <3>1, <3>2, <1>6
    <3> QED
      BY <3>1, <3>3 DEF Straight
  <2> QED
    BY <2>1, <2>2, <2>3, <2>4, <1>7
<1>8. ASSUME rows = cols
      PROVE  \E d \in Diagonal, m \in 1 .. NumRows + NumCols : e = StepFrom(s, d, m)
  <2> DEFINE a == IF s[1] < e[1] THEN 1 ELSE -1
             b == IF s[2] < e[2] THEN 1 ELSE -1
  <2>1. rows \in 1 .. NumRows + NumCols
    BY <1>8, <1>4, <1>5
  <2>2. e[1] = s[1] + rows * a /\ e[2] = s[2] + rows * b
    <3>1. rows \in Int /\ rows * 1 = rows /\ rows * (-1) = - rows
      BY <2>1, BoardSizeAssumption
    <3>2. e[1] = s[1] + rows * a
      <4>1. CASE s[1] < e[1]
        BY <4>1, <3>1, <1>1, <1>2, <1>3
      <4>2. CASE ~ s[1] < e[1]
        BY <4>2, <3>1, <1>1, <1>2, <1>3
      <4> QED
        BY <4>1, <4>2
    <3>3. e[2] = s[2] + rows * b
      <4>1. IF s[2] < e[2] THEN e[2] = s[2] + cols ELSE e[2] = s[2] - cols
        BY <1>1, <1>2, <1>3
      <4>2. IF s[2] < e[2] THEN e[2] = s[2] + rows ELSE e[2] = s[2] - rows
        BY <4>1, <1>8
      <4> QED
        BY <4>2, <3>1, <1>1
    <3> QED
      BY <3>2, <3>3
  <2>3. a \in {-1, 1} /\ b \in {-1, 1}
    OBVIOUS
  <2> HIDE DEF a, b
  <2>4. e = StepFrom(s, <<a, b>>, rows)
    BY <2>1, <2>2, <2>3, <1>6
  <2>5. <<a, b>> \in Diagonal
    BY <2>3 DEF Diagonal
  <2> QED
    BY <2>1, <2>4, <2>5
<1>9. ASSUME NEW d \in Straight, NEW m \in 1 .. NumRows + NumCols, e = StepFrom(s, d, m)
      PROVE  rows = 0 \/ cols = 0
  <2>1. e[1] = s[1] + m * d[1] /\ e[2] = s[2] + m * d[2]
    BY <1>9 DEF StepFrom
  <2>2. d[1] = 0 \/ d[2] = 0
    BY DEF Straight
  <2>3. m * 0 = 0
    BY BoardSizeAssumption
  <2>4. e[1] = s[1] \/ e[2] = s[2]
    BY <2>1, <2>2, <2>3, <1>1
  <2> QED
    BY <2>4, <1>1, <1>2, <1>3
<1>10. ASSUME NEW d \in Diagonal, NEW m \in 1 .. NumRows + NumCols, e = StepFrom(s, d, m)
       PROVE  rows = cols
  <2>1. e[1] = s[1] + m * d[1] /\ e[2] = s[2] + m * d[2]
    BY <1>10 DEF StepFrom
  <2>2. d[1] \in {-1, 1} /\ d[2] \in {-1, 1}
    BY DEF Diagonal
  <2>3. m \in Nat /\ m >= 1
    BY BoardSizeAssumption
  <2>4. (e[1] = s[1] + m \/ e[1] = s[1] - m) /\ (e[2] = s[2] + m \/ e[2] = s[2] - m)
    BY <2>1, <2>2, <2>3, <1>1
  <2> QED
    BY <2>3, <2>4, <1>1, <1>3
<1> QED
  BY <1>7, <1>8, <1>9, <1>10 DEF rows, cols

-----------------------------------------------------------------------------
\* A piece on a square of a board with any pieces on any squares.
Placed(board, from) ==
  /\ board \in [Squares -> Occupant \cup {NoPiece}]
  /\ from \in Squares /\ board[from] # NoPiece

\* Where nothing blocks and no friend stands, a ray reaches what its segment does.
LEMMA RayReaches ==
  ASSUME NEW board, NEW from, Placed(board, from), NEW e \in Squares, e # from,
         board[e] = NoPiece \/ board[e].color # board[from].color,
         NEW dirs, dirs \subseteq Straight \cup Diagonal
  PROVE  e \in UNION {RayMoves(board, from, d) : d \in dirs} <=>
           /\ \E d \in dirs, m \in 1 .. NumRows + NumCols : e = StepFrom(from, d, m)
           /\ Clear(board, from, e)
<1>1. ASSUME NEW d \in dirs
      PROVE  e \in RayMoves(board, from, d) <=>
               \E m \in 1 .. NumRows + NumCols :
                 /\ e = StepFrom(from, d, m)
                 /\ \A k \in 1 .. m - 1 : WalksOver(board, StepFrom(from, d, k))
  BY DEF RayMoves, WalksOver, EnemyAt
<1>2. ASSUME NEW d \in dirs, NEW m \in 1 .. NumRows + NumCols, e = StepFrom(from, d, m)
      PROVE  Clear(board, from, e) <=> \A k \in 1 .. m - 1 : WalksOver(board, StepFrom(from, d, k))
  <2>1. m \in Nat /\ m # 0 /\ d \in Straight \cup Diagonal /\ from \in Squares
    BY BoardSizeAssumption DEF Placed
  <2>2. Between(from, e) = {StepFrom(from, d, k) : k \in 1 .. m - 1}
    BY <2>1, <1>2, WalkIsSegment
  <2> QED
    BY <2>2 DEF Clear, WalksOver
<1> QED
  BY <1>1, <1>2

\* The knight's offsets are those of one row and two columns, or the reverse.
LEMMA KnightStep ==
  ASSUME NEW board, NEW from, Placed(board, from), NEW e \in Squares,
         board[e] = NoPiece \/ board[e].color # board[from].color
  PROVE  e \in GetKnightMoves(board, from) <=>
           {Distance(from[1], e[1]), Distance(from[2], e[2])} = {1, 2}
<1> DEFINE x == e[1] - from[1]
           y == e[2] - from[2]
           rows == Distance(from[1], e[1])
           cols == Distance(from[2], e[2])
<1>1. /\ from[1] \in Int /\ from[2] \in Int
      /\ e = <<e[1], e[2]>> /\ e[1] \in Int /\ e[2] \in Int
  BY Coordinates DEF Placed
<1>2. /\ x \in Int /\ y \in Int
      /\ rows = IF 0 < x THEN x ELSE -x
      /\ cols = IF 0 < y THEN y ELSE -y
  BY <1>1 DEF Distance
<1>3. \A a, b \in Int : e = StepFrom(from, <<a, b>>, 1) <=> a = x /\ b = y
  BY <1>1 DEF StepFrom
<1>4. e \in GetKnightMoves(board, from) <=> \E o \in KnightOffsets : e = StepFrom(from, o, 1)
  BY DEF GetKnightMoves, StepMoves, EnemyAt
<1> HIDE DEF x, y, rows, cols
<1>5. e \in GetKnightMoves(board, from) <=> x \in -2 .. 2 /\ y \in -2 .. 2 /\ x * x + y * y = 5
  <2>1. \A o \in KnightOffsets : o[1] \in -2 .. 2 /\ o[2] \in -2 .. 2 /\ o = <<o[1], o[2]>>
    BY DEF KnightOffsets
  <2>2. \A a, b \in -2 .. 2 : <<a, b>> \in KnightOffsets <=> a * a + b * b = 5
    BY DEF KnightOffsets
  <2>3. ASSUME NEW o \in KnightOffsets, e = StepFrom(from, o, 1)
        PROVE  x \in -2 .. 2 /\ y \in -2 .. 2 /\ x * x + y * y = 5
    <3>1. o[1] = x /\ o[2] = y
      BY <2>1, <2>3, <1>3
    <3> QED
      BY <3>1, <2>1, <2>2, <2>3
  <2>4. ASSUME x \in -2 .. 2, y \in -2 .. 2, x * x + y * y = 5
        PROVE  \E o \in KnightOffsets : e = StepFrom(from, o, 1)
    BY <2>2, <2>4, <1>2, <1>3
  <2> QED
    BY <2>3, <2>4, <1>4
<1>6. {rows, cols} = {1, 2} <=> (rows = 1 /\ cols = 2) \/ (rows = 2 /\ cols = 1)
  OBVIOUS
<1>7. (rows = 1 /\ cols = 2) \/ (rows = 2 /\ cols = 1) <=>
        x \in -2 .. 2 /\ y \in -2 .. 2 /\ x * x + y * y = 5
  <2>1. CASE x \in {-2, -1, 0, 1, 2} /\ y \in {-2, -1, 0, 1, 2}
    BY <2>1, <1>2
  <2>2. CASE ~ (x \in {-2, -1, 0, 1, 2} /\ y \in {-2, -1, 0, 1, 2})
    BY <2>2, <1>2
  <2> QED
    BY <2>1, <2>2
<1> QED
  BY <1>5, <1>6, <1>7 DEF rows, cols

LEMMA KingStep ==
  ASSUME NEW board, NEW from, Placed(board, from), NEW e \in Squares, e # from,
         board[e] = NoPiece \/ board[e].color # board[from].color
  PROVE  e \in GetKingMoves(board, from) <=>
           Distance(from[1], e[1]) <= 1 /\ Distance(from[2], e[2]) <= 1
<1> DEFINE x == e[1] - from[1]
           y == e[2] - from[2]
           rows == Distance(from[1], e[1])
           cols == Distance(from[2], e[2])
<1>1. /\ from = <<from[1], from[2]>> /\ from[1] \in Int /\ from[2] \in Int
      /\ e = <<e[1], e[2]>> /\ e[1] \in Int /\ e[2] \in Int
  BY Coordinates DEF Placed
<1>2. /\ x \in Int /\ y \in Int
      /\ rows = IF 0 < x THEN x ELSE -x
      /\ cols = IF 0 < y THEN y ELSE -y
  BY <1>1 DEF Distance
<1>3. \A a, b \in Int : e = StepFrom(from, <<a, b>>, 1) <=> a = x /\ b = y
  BY <1>1 DEF StepFrom
<1>4. e \in GetKingMoves(board, from) <=> \E o \in KingOffsets : e = StepFrom(from, o, 1)
  BY DEF GetKingMoves, StepMoves, EnemyAt
<1>5. <<x, y>> # <<0, 0>>
  BY <1>1
<1> HIDE DEF x, y, rows, cols
<1>6. e \in GetKingMoves(board, from) <=> x \in -1 .. 1 /\ y \in -1 .. 1
  <2>1. \A o \in KingOffsets : o[1] \in -1 .. 1 /\ o[2] \in -1 .. 1 /\ o = <<o[1], o[2]>>
    BY DEF KingOffsets
  <2>2. \A a, b \in -1 .. 1 : <<a, b>> # <<0, 0>> => <<a, b>> \in KingOffsets
    BY DEF KingOffsets
  <2>3. ASSUME NEW o \in KingOffsets, e = StepFrom(from, o, 1)
        PROVE  x \in -1 .. 1 /\ y \in -1 .. 1
    BY <2>1, <2>3, <1>3
  <2>4. ASSUME x \in -1 .. 1, y \in -1 .. 1
        PROVE  \E o \in KingOffsets : e = StepFrom(from, o, 1)
    BY <2>2, <2>4, <1>2, <1>3, <1>5
  <2> QED
    BY <2>3, <2>4, <1>4
<1>7. rows <= 1 /\ cols <= 1 <=> x \in -1 .. 1 /\ y \in -1 .. 1
  BY <1>2
<1> QED
  BY <1>6, <1>7 DEF rows, cols

LEMMA PawnStep ==
  ASSUME NEW board, NEW from, Placed(board, from), NEW e \in Squares,
         board[e] = NoPiece \/ board[e].color # board[from].color
  PROVE  LET rows  == Distance(from[1], e[1])
             cols  == Distance(from[2], e[2])
             me    == board[from].color
             ahead == IF me = "w" THEN from[1] - e[1] ELSE e[1] - from[1]
             home  == IF me = "w" THEN from[1] = NumRows - 2 ELSE from[1] = 1
             enemy == board[e] # NoPiece
         IN  e \in GetPawnMoves(board, from) <=>
               \/ cols = 0 /\ ahead = 1 /\ ~ enemy
               \/ cols = 1 /\ ahead = 1 /\ enemy
               \/ /\ cols = 0 /\ ahead = 2 /\ home /\ ~ enemy
                  /\ \A t \in Between(from, e) : board[t] = NoPiece
<1> DEFINE me    == board[from].color
           dir   == PawnDirection(me)
           cols  == Distance(from[2], e[2])
           ahead == IF me = "w" THEN from[1] - e[1] ELSE e[1] - from[1]
           home  == IF me = "w" THEN from[1] = NumRows - 2 ELSE from[1] = 1
           one   == <<from[1] + dir, from[2]>>
           two   == <<from[1] + 2 * dir, from[2]>>
<1>1. /\ from = <<from[1], from[2]>> /\ from[1] \in Int /\ from[2] \in Int
      /\ e = <<e[1], e[2]>> /\ e[1] \in Int /\ e[2] \in Int
  BY Coordinates DEF Placed
<1>2. /\ dir \in {-1, 1}
      /\ dir = IF me = "w" THEN -1 ELSE 1
      /\ home <=> from[1] = PawnStartRow(me)
  BY DEF PawnDirection, PawnStartRow
<1>3. /\ cols = 0 <=> e[2] = from[2]
      /\ cols = 1 <=> e[2] = from[2] - 1 \/ e[2] = from[2] + 1
  BY <1>1 DEF Distance
<1>4. /\ ahead = 1 <=> e[1] = from[1] + dir
      /\ ahead = 2 <=> e[1] = from[1] + 2 * dir
  <2>1. CASE me = "w"
    BY <2>1, <1>1, <1>2
  <2>2. CASE me # "w"
    BY <2>2, <1>1, <1>2
  <2> QED
    BY <2>1, <2>2
<1>5. e \in GetPawnMoves(board, from) <=>
        \/ e = one /\ board[e] = NoPiece
        \/ e = two /\ from[1] = PawnStartRow(me) /\ board[one] = NoPiece /\ board[e] = NoPiece
        \/ /\ e \in {<<from[1] + dir, from[2] - 1>>, <<from[1] + dir, from[2] + 1>>}
           /\ board[e] # NoPiece
  BY DEF GetPawnMoves, EnemyAt
<1>6. e = two => Between(from, e) = {one}
  <2> SUFFICES ASSUME e = two PROVE Between(from, e) = {one}
    OBVIOUS
  <2> DEFINE d == <<dir, 0>>
  <2>1. d \in Straight \cup Diagonal
    BY <1>2 DEF Straight
  <2>2. e = StepFrom(from, d, 2) /\ one = StepFrom(from, d, 1)
    BY <1>1, <1>2 DEF StepFrom
  <2>3. from \in Squares
    BY DEF Placed
  <2> HIDE DEF d
  <2>4. Between(from, e) = {StepFrom(from, d, k) : k \in 1 .. 2 - 1}
    BY <2>1, <2>2, <2>3, WalkIsSegment
  <2>5. 1 .. 2 - 1 = {1}
    OBVIOUS
  <2> QED
    BY <2>2, <2>4, <2>5
<1> HIDE DEF dir, ahead, cols, home
<1>7. /\ e = one <=> cols = 0 /\ ahead = 1
      /\ e = two <=> cols = 0 /\ ahead = 2
      /\ e \in {<<from[1] + dir, from[2] - 1>>, <<from[1] + dir, from[2] + 1>>}
           <=> cols = 1 /\ ahead = 1
  BY <1>1, <1>3, <1>4
<1> HIDE DEF one, two, me
<1> QED
  BY <1>2, <1>5, <1>6, <1>7 DEF me, ahead, cols, home

-----------------------------------------------------------------------------
\* The generators are the rules: on a board of any size, with any pieces of any kind,
\* colour and status on any squares, the squares the code's walks collect for any of
\* them are those a second definition without walks allows.  No ray goes through a
\* piece that blocks, stops short of one in flight, leaves its line at an edge, or takes
\* a friend.
THEOREM RulesMatchReference ==
  ASSUME NEW board \in [Squares -> Occupant \cup {NoPiece}],
         NEW from \in Squares, board[from] # NoPiece, NEW e \in Squares
  PROVE  IsMoveLegal(board, from, e) <=> ReferenceLegal(board, from, e)
<1>0. Placed(board, from)
  BY DEF Placed
<1> DEFINE Free == board[e] = NoPiece \/ board[e].color # board[from].color
<1>1. CASE e = from \/ ~ Free
  BY <1>1 DEF IsMoveLegal, ReferenceLegal
<1>2. CASE e # from /\ Free
  <2> DEFINE sort == board[from].kind
             rows == Distance(from[1], e[1])
             cols == Distance(from[2], e[2])
  <2>1. sort \in Kinds /\ from \in Squares /\ board[from] # NoPiece
    BY <1>0 DEF Placed, Occupant
  <2>2. /\ e \in GetStraightMoves(board, from) <=> (rows = 0 \/ cols = 0) /\ Clear(board, from, e)
        /\ e \in GetDiagonalMoves(board, from) <=> rows = cols /\ Clear(board, from, e)
    <3>1. e \in GetStraightMoves(board, from) <=>
            /\ \E d \in Straight, m \in 1 .. NumRows + NumCols : e = StepFrom(from, d, m)
            /\ Clear(board, from, e)
      BY <1>0, <1>2, RayReaches DEF GetStraightMoves
    <3>2. e \in GetDiagonalMoves(board, from) <=>
            /\ \E d \in Diagonal, m \in 1 .. NumRows + NumCols : e = StepFrom(from, d, m)
            /\ Clear(board, from, e)
      BY <1>0, <1>2, RayReaches DEF GetDiagonalMoves
    <3> QED
      BY <1>2, <2>1, <3>1, <3>2, SegmentIsRay
  <2>3. IsMoveLegal(board, from, e) <=> e \in MovesOf(board, from)
    BY <1>2, <2>1 DEF IsMoveLegal
  <2>4. CASE sort \in {"r", "b", "q"}
    BY <1>2, <2>2, <2>3, <2>4 DEF MovesOf, ReferenceLegal
  <2>5. CASE sort = "n"
    BY <1>0, <1>2, <2>3, <2>5, KnightStep DEF MovesOf, ReferenceLegal
  <2>6. CASE sort = "k"
    BY <1>0, <1>2, <2>3, <2>6, KingStep DEF MovesOf, ReferenceLegal
  <2>7. CASE sort = "p"
    BY <1>0, <1>2, <2>3, <2>7, PawnStep DEF MovesOf, ReferenceLegal
  <2> QED
    BY <2>1, <2>4, <2>5, <2>6, <2>7 DEF Kinds
<1> QED
  BY <1>1, <1>2
=============================================================================
