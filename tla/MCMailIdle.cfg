CONSTANTS
  Users = {u1, u2}
  Imap = {c1, c2}
  MaxConnections = 1
  MaxReconnectAttempts = 2
  None = None
SPECIFICATION IdleFairSpec
INVARIANTS
  IdleTypeOK
  MappedConnectionsRenewed
PROPERTIES
  LeakedOnlyByOverlap
  RetriesEnd
