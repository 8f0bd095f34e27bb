SPECIFICATION ConfSpec
CONSTANTS
  Meetings = {m1}
  ConfCalls = {c1, c2, c3}
  MaxConfRestarts = 1
  NoMeeting = NoMeeting
INVARIANTS OrphanOnlyByOverlap
PROPERTIES MirrorRepaired
CHECK_DEADLOCK FALSE
