CONSTANTS
  Users = {u1, u2}
  Sources = {src1}
  Ids = {n1}
  Calls = {k1, k2}
  None = None
SPECIFICATION Spec
PROPERTY OnlyOrphansCleaned
