CONSTANTS
  Users = {u1}
  Responses = {t1, t2}
  Subjects = {s1, s2, s3}
  MaxRestarts = 1
  Imap = {c1, c2}
  MaxConnections = 1
  MaxReconnectAttempts = 1
  None = None
SPECIFICATION Spec
SYMMETRY Symmetry
INVARIANT
  GraceOnlyWhenOffline
