SPECIFICATION GatewaySpec
CONSTANTS
  m1 = m1
  m2 = m2
  ty = ty
  Assets = {1}
  Meetings = {m1}
  Types = {ty}
  MeetingOf <- OneMeeting
  TypeOf <- OneType
  Slots = {s1, s2}
  MaxAttempts = 2
  LeaseSec = 1
  Backoff <- BackoffCurve
  AgeCap = 3
  ClaimBound = 4
  TouchBound = 0
  CrashBound = 0
SYMMETRY SlotSymmetry
PROPERTIES OnlyHolderConcludes
