CONSTANTS
  Users = {u1, u2}
  Responses = {t1, t2, t3}
  Subjects = {s1, s2, s3, s4}
  MaxRestarts = 1
  None = None
SPECIFICATION HubSpec

INVARIANT AllSubscribedReached
