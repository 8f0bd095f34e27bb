CONSTANTS
  Users = {u1, u2}
  Sources = {src1}
  Ids = {n1, n2}
  Calls = {k1}
  None = None
SPECIFICATION FairSpec
PROPERTIES SyncDelivers OrphansSwept
