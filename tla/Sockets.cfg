SPECIFICATION Spec
CONSTANTS
  u1 = u1
  u2 = u2
  u3 = u3
  s1 = s1
  s2 = s2
  s3 = s3
  Sockets = {s1, s2, s3}
  Users = {u1, u2, u3}
  MaxRooms = 2
  NoRoom = NoRoom
  Nobody = Nobody
  NoSocket = NoSocket
INVARIANTS
  RoutesAgree
PROPERTIES
  ImplementsPresence
