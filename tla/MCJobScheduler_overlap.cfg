SPECIFICATION Spec
CONSTANTS
  Jobs <- TwoJobs
  Catalog <- TwoCatalog
  Period <- TwoPeriods
  Chains <- FetchThenArchive
  Targets = {"m1"}
  Ticks = {1, 2}
  MaxClock = 1
  ManualBound = 0
  FailBound = 0
  FaultBound = 0
  CrashBound = 0
INVARIANTS NoOverlap
