SPECIFICATION GatewaySpec
CONSTANTS
  m1 = m1
  m2 = m2
  ty = ty
  Assets = {1, 2}
  Meetings = {m1, m2}
  Types = {ty}
  MeetingOf <- TwoMeetings
  TypeOf <- OneType
  Slots = {s1, s2}
  MaxAttempts = 2
  LeaseSec = 0
  Backoff <- BackoffCurve
  AgeCap = 2
  ClaimBound = 3
  TouchBound = 1
  CrashBound = 0
SYMMETRY SlotSymmetry
INVARIANTS VerdictMatchesBudget
PROPERTIES CompletedIsFinal
