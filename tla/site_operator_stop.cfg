SPECIFICATION Spec
CONSTANTS
    r1 = r1
    r2 = r2
    Relations <- OneRelation
    MaxPlans = 3
    MaxEdits = 2
    MaxCredentials = 1
    MaxFaults = 0
    Controls = {"relation", "config"}
    EditsDuringRuns = FALSE
INVARIANT OperatorStopStands
CHECK_DEADLOCK FALSE
