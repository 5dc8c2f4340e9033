SPECIFICATION Spec
CONSTANTS
  m1 = m1
  m2 = m2
  a1 = a1
  a2 = a2
  a3 = a3
  Assets = {a1, a2, a3}
  Meetings = {m1, m2}
  MeetingOf <- ThirdElsewhere
  Skipped = {m2}
  Archivers = {1}
  Cleaners = {c1, c2}
  RetentionDays = 1
  MaxClock = 2
  FaultBound = 1
  RotBound = 0
  ExtendBound = 0
SYMMETRY Interchangeable
INVARIANTS NothingLost
PROPERTIES PauseStopsDeletion
