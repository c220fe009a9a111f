SPECIFICATION ClickFairSpec
CONSTANTS
  wK = wK
  wR = wR
  bK = bK
  bP = bP
  NoPiece = NoPiece
  NoColor = NoColor
  Nowhere = Nowhere
  NumRows = 4
  NumCols = 1
  Pieces <- ColumnPieces
  ColorOf <- ColumnColor
  InitKind <- ColumnKind
  InitSquare <- ColumnSquare
  CellTime = 1
  JumpTime = 1
  ClockSteps = {1, 2}
  CellSize = 1
  Pixels <- ColumnPixels
INVARIANTS
  TypeOK
  MotionDiscipline
  BoardShowsTheLiving
  KingTakenEndsGame
  SettleOrderIsStrict
  ScoreMatchesCaptures
PROPERTIES
  ImplementsAbstractGame
  StandingPieceSafe
  JumperOutOfReach
  FlightEnds
CHECK_DEADLOCK FALSE
