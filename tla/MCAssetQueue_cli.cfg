SPECIFICATION CliSpec
CONSTANTS
  m1 = m1
  m2 = m2
  ty = ty
  Assets = {1}
  Meetings = {m1}
  Types = {ty}
  MeetingOf <- OneMeeting
  TypeOf <- OneType
  Slots = {s1, s2, s3}
  MaxAttempts = 2
  LeaseSec = 2
  Backoff <- BackoffCurve
  AgeCap = 4
  ClaimBound = 4
  TouchBound = 2
  CrashBound = 1
SYMMETRY SlotSymmetry
INVARIANTS QueueInv
PROPERTIES OnlyHolderConcludes BackoffHonoured ImplementsLifecycle
