SPECIFICATION ViewsSpec
CONSTANTS
  m1 = m1
  m2 = m2
  a1 = a1
  a2 = a2
  a3 = a3
  Assets = {a1, a2}
  Meetings = {m1}
  MeetingOf <- OneMeeting
  Skipped = {}
  Archivers = {1}
  Cleaners = {1}
  RetentionDays = 1
  MaxClock = 2
  FaultBound = 1
  RotBound = 1
  ExtendBound = 1
PROPERTIES DeletesOnlyVerified WindowNeverShrinks CompletedGetsArchived SettledGetsWindow
