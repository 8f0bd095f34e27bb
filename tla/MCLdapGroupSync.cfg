SPECIFICATION Spec
CONSTANTS
  Users = {u1}
  Paths = {p1, p2}
  AdminPaths = {p2}
  Calls = {s1}
  NoGroup = NoGroup
  MaximumRetries = 1
  MaxFailures = 1
  MaxChanges = 1
INVARIANTS GroupSyncTypeOK CacheFollows SyncDelivers
PROPERTY AdminGroupsKept
