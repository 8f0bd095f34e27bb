CONSTANTS
  Users = {u1}
  Guest = Guest
  Requests = {r1, r2, r3}
  Editors = {e1}
  MaxRemovals = 1
  None = None
SPECIFICATION Spec
SYMMETRY Symmetry
CHECK_DEADLOCK FALSE
INVARIANTS
  SurveysTypeOK
  SecondAnswerAllowed
  ListedAnswersExist
  LostOnlyByOverlap
  OrphansOnlyByOverlap
