SPECIFICATION Spec
CONSTANTS
  u1 = u1
  u2 = u2
  Users = {u1, u2}
  MaxRooms = 1
  NoRoom = NoRoom
  NoUser = NoUser
  MaxCommands = 2
  MaxTimeouts = 1
  MaxMatches = 1
SYMMETRY SymmetryOfUsers
INVARIANTS
  QuietPresenceIsTrue
  DirectoryLeadsHome
PROPERTIES
  PresentKeepsHisGame
CHECK_DEADLOCK FALSE
