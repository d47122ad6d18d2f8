SPECIFICATION Spec
CONSTANTS
  Relations = {r1}
  Models = {m1}
  Kinds = {"lowest_price", "high_sla"}
  Cases = {"cheap", "poor", "broken", "dark"}
  Evidence <- NamedEvidence
  NoCase = NoCase
  Jobs = {j1}
  Operators = {o1}
  MaxAge = 1
  Gap = 1
  MaxTime = 3
  MaxEdits = 1
  MaxFaults = 1
PROPERTY RecoveryNeedsNewerBatch
CHECK_DEADLOCK FALSE
