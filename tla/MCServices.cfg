SPECIFICATION Spec
CONSTANTS
  Requests = {c1, c2}
  MaxAttempts = 2
  MaxStalls = 1
  Pairs = {p1}
  CodeUsers = {u1, u2}
  Codes = {k1, k2, k3}
  CodeCalls = {g1, g2}
  None = None
  KcRequests = {q1}
  KcAttempts = 2
  KcStalls = 1
  Categories = {g1}
  Members = {u1, u2}
  PermCalls = {c1, c2}
  NoCategory = NoCategory
  Bulletins = {b1, b2}
  Editors = {e1, e2}
  Files = {f1, f2}
  NoBulletin = NoBulletin
  Uids = {1, 2, 3, 4, 5}
  OldMails = {1}
  MaxFeed = 2
  AppNames = {a1, a2}
  DefaultApps = {a1}
  PosCalls = {s1, s2}
  NoApp = NoApp
  Domains = {a1, a2}
  AccessCalls = {s1, s2}
INVARIANTS TypeOK AgreeUnlessDisturbed OldCodesOnlyByOverlap ListCurrentUnlessOutdated ImagesLostOnlyByOthers AppsArranged DecisionsFollowConfig NewMailsAnnounced
PROPERTIES KeepsPromise KcKeepsPromise
SYMMETRY CallSymmetry
CHECK_DEADLOCK FALSE
