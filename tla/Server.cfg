SPECIFICATION FairSpec
CONSTANTS
  u1 = u1
  u2 = u2
  Users = {u1, u2}
  MaxRooms = 2
  NoRoom = NoRoom
  SlowSends = TRUE
  DbFailures = 2
INVARIANTS
  QuietRoomIsShown
  PresenceIsTrue
  ClearedMeansOver
  FailuresCostWhiteOnly
PROPERTIES
  ImplementsAbstractResult
  ForfeitsOnlyTheAbsent
  FinishedIsRated
  AbsenceIsDecided
