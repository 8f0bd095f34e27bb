CONSTANTS
  Rooms = {r1}
  Clients = {c1, c2, c3}
  Instances = {i1, i2}
  Edits = {e1, e2}
  MaxCrashes = 1
  None = None
SPECIFICATION FairSpec
INVARIANTS
  TypeOK
  ChangesMarked
PROPERTIES
  RoomIsOneDocument
  EditsVanishOnlyInWindows
  WaitersServed
  ClosedRoomsLeave
