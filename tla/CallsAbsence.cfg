SPECIFICATION FairSpec
CONSTANTS
  u1 = u1
  u2 = u2
  Users = {u1, u2}
  MaxRooms = 1
  NoRoom = NoRoom
  NoUser = NoUser
  MaxCommands = 2
  MaxTimeouts = 0
  MaxMatches = 1
PROPERTIES
  AbsenceIsDecided
CHECK_DEADLOCK FALSE
