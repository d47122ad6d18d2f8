SPECIFICATION Spec
CONSTANTS
  s1 = s1
  s2 = s2
  Suppliers = {s1, s2}
  Purposes = {"authenticity"}
  Planned <- OneProbe
  Outcomes = {"succeeded"}
  Enough = 1
  Keys = {}
  NoKey = NoKey
  Runs <- ThreeRuns
  Refs = {f1, f2}
  NoRef = NoRef
  Trusts = {"operator_trusted", "community"}
  Workers = {w1}
  Clients = {c1}
  DailyLimit = 2
  DayLength = 3
  Delay = 1
  Validity = 2
  MaxTime = 2
  MaxAttempts = 2
  MaxFaults = 0
  MaxRequests = 3
  Overlap = FALSE
INVARIANTS ConsistentIsGrounded InconsistentIsConfirmed
SYMMETRY Symmetry
CHECK_DEADLOCK FALSE
