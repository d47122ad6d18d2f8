SPECIFICATION FairSpec
CONSTANTS
  s1 = s1
  s2 = s2
  Suppliers = {s1}
  Purposes = {"health", "quality"}
  Planned <- TwoProbes
  Outcomes = {"failed"}
  Enough = 1
  Keys = {k1}
  NoKey = NoKey
  Runs <- NumberedRuns
  Refs = {}
  NoRef = NoRef
  Trusts = {"operator_trusted", "community"}
  Workers = {w1, w2}
  Clients = {c1, c2}
  DailyLimit = 2
  DayLength = 1
  Delay = 1
  Validity = 1
  MaxTime = 0
  MaxAttempts = 2
  MaxFaults = 1
  MaxRequests = 2
  Overlap = TRUE
INVARIANTS
    PaidOnce
    BudgetCoversRuns
    OneRunPerKey
    SuccessIsMeasured
PROPERTIES
    FinishedIsFinal
    EveryRunSettles
CHECK_DEADLOCK FALSE
