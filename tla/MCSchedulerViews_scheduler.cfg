SPECIFICATION ViewsSpec
CONSTANTS
  Jobs <- TwoJobs
  Catalog <- TwoCatalog
  Period <- TwoPeriods
  Chains <- FetchThenArchive
  Targets = {"m1"}
  Ticks = {1}
  MaxClock = 2
  ManualBound = 1
  FailBound = 1
  FaultBound = 1
  CrashBound = 1
INVARIANTS NoOverlap OneScheduledRowPerSlot OnlyFaultsLeaveGaps
PROPERTIES VerdictFinal QueuedRunsTaken ResolvedByLaterSuccess
