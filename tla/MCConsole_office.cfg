SPECIFICATION OfficeSpec
CONSTANTS
  p1 = p1
  p2 = p2
  a1 = a1
  w1 = w1
  Admins = {a1, a2}
  Passwords = {w1, w2}
  NoAdmin = NoAdmin
  Desks = {d1, d2}
  LongTtl = 3
  ShortTtl = 1
  Threshold = 2
  MaxSessions = 2
  MaxDeskTime = 3
  Callers = {x1, x2}
  Endpoints = {e1, e2}
  Quotaed = e1
  PerWindow = 1
  Window = 3
  Second = 2
  Qps = 2
  MaxAttempts = 2
  Pause = 1
  LoginKeys = {k1, k2}
  Capacity = 2
  SweepInterval = 3
  MaxLimitTime = 4
  RuleFields = {"title", "host"}
  m1 = m1
  RuleMeetings = {m1, m2}
  ScanLimit = 1
  RulePrograms = {p1, p2}
  NoSubject = none
  RuleAssets = {video}
  TopPriority = 2
  MaxRuleId = 3
  OldTables <- SomeTables
  Editors = {s1, s2}
  Drafts <- SomeDrafts
  Patches <- SomePatches
  MaxEdits = 2
SYMMETRY OfficeSymmetry
CHECK_DEADLOCK FALSE
INVARIANTS OfficeTypeOK SessionsKeepTheirWord AdminRemains LimitsHold VerdictsAreExact
PROPERTIES PreviewTellsKnown EditsMerge
