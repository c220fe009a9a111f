SPECIFICATION Spec
CONSTANTS
  u1 = u1
  u2 = u2
  u3 = u3
  Users = {u1, u2, u3}
  MaxRooms = 3
  NoRoom = NoRoom
  Elo <- ThreeRatings
  EloWindow = 100
  SlowSends = TRUE
  Wanderers = {u1, u2, u3}
INVARIANTS
  OneEntryPerUser
  MembershipAgrees
  OldEntriesLeave
PROPERTIES
  TicksAreLostToStrays
