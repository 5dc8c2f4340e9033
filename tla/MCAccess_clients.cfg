SPECIFICATION AccessSpec
CONSTANTS
  p1 = p1
  c1 = c1
  u1 = u1
  NoRow = NoRow
  NoLimit = NoLimit
  f1 = f1
  f2 = f2
  gap = gap
  video = video
  Facts = {f1, f2}
  Sheets = {f1, f2, gap}
  Fits <- Readings
  RuleSets <- SomeRuleSets
  Programs = {p1}
  Meetings = {m1}
  Assets = {video}
  Calls = {1}
  TokenTtl = 2
  MaxClock = 2
  AdminBound = 2
  RoundBound = 1
  Codes = {c1}
  People = {u1, u2}
  Nobody = Nobody
  Slots = {s1, s2}
  PollInterval = 1
  CodeTtl = 2
  RefreshTtl = 1
  AccessTtl = 1
  MaxTokens = 3
  MaxSignTime = 3
CHECK_DEADLOCK FALSE
INVARIANTS ClientsTypeOK AnswersHeld RevocationBites LedgerInOrder InventoryWithinGate OneIdentityPerCode CredentialsEnd
PROPERTIES AutoRespectsDecisions
