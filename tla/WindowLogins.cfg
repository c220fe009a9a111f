SPECIFICATION FairSpec
CONSTANTS
  wP = wP
  bK = bK
  NoPiece = NoPiece
  NoColor = NoColor
  Nobody = Nobody
  NumRows = 1
  NumCols = 1
  Pieces <- OnePieces
  ColorOf <- OneColor
  InitKind <- OneKind
  InitSquare <- OneSquare
  CellTime = 1
  JumpTime = 1
  ClockSteps = {1}
  MaxStarts = 2
  MaxLogins = 2
  MaxCommands = 1
  MaxEvents = 3
INVARIANTS
  OverIsShown
  ColorIsMine
PROPERTIES
  RoomIsShown
CHECK_DEADLOCK FALSE
