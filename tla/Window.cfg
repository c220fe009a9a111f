SPECIFICATION Spec
CONSTANTS
  wP = wP
  bK = bK
  NoPiece = NoPiece
  NoColor = NoColor
  Nobody = Nobody
  NumRows = 3
  NumCols = 1
  Pieces <- WindowPieces
  ColorOf <- WindowColor
  InitKind <- WindowKind
  InitSquare <- WindowSquare
  CellTime = 1
  JumpTime = 1
  ClockSteps = {1}
  MaxStarts = 2
  MaxLogins = 1
  MaxCommands = 1
  MaxEvents = 2
INVARIANTS
  QuietBoardIsTrue
CHECK_DEADLOCK FALSE
