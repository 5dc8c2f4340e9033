SPECIFICATION EngineSpec
CONSTANTS
  va = va
  vb = vb
  ve = ve
  a1 = a1
  v1 = v1
  v2 = v2
  NoSize = NoSize
  NoFile = NoFile
  NoTime = NoTime
  Writers = {w1, w2}
  Versions = {va, vb, ve}
  Length <- VersionLength
  Sizes = {2, 3, NoSize}
  Renewals = 3
  Takeovers = 1
  Replacements = 1
  Claims = 2
  Hosts = {h1, h2}
  Discoverers = {h1}
  Kinds <- WaitedKinds
  Files <- FilesOfKinds
  Pulls <- AudioPulled
  Bans <- AudioBans
  EndTimes = {0, NoTime}
  WaitCap = 1
  Backoff <- ProbeBackoffs
  MaxClock = 2
  Crashes = 1
  Processes = {p1, p2}
  Recordings = {1, 2}
  Minutes = {1, 2}
  LastTime = 1
  Edits = 1
  Deaths = 1
  n1 = n1
  FailAssets = {a1, a2}
  FailMeetings = {n1}
  HomeOf <- Homes
  Consoles = {s1, s2}
  Appeals = 2
  Mishaps = 1
CHECK_DEADLOCK FALSE
INVARIANTS EngineTypeOK CompletedFileHonest ProbesTellTruth FilesKeepTheirPlace ItemsFollowRows
PROPERTIES ProbesEnd
