SPECIFICATION ClickFairSpec
CONSTANTS
  wK = wK
  wR = wR
  bK = bK
  bP = bP
  NoPiece = NoPiece
  NoColor = NoColor
  Nowhere = Nowhere
  NumRows = 4
  NumCols = 1
  Pieces <- ColumnPieces
  ColorOf <- ColumnColor
  InitKind <- ColumnKind
  InitSquare <- ColumnSquare
  CellTime = 1
  JumpTime = 1
  ClockSteps = {1, 2}
  CellSize = 1
  Pixels <- ColumnPixels
PROPERTIES
  MovesWaitTheirTurn
CHECK_DEADLOCK FALSE
