CONSTANTS
  Users = {u1}
  Sources = {src1}
  Ids = {n1, n2}
  Calls = {k1, k2}
  None = None
SPECIFICATION Spec
SYMMETRY Symmetry
INVARIANT NotificationsTypeOK
PROPERTY DeletedStaysDeleted
