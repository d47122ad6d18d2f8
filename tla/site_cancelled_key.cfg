SPECIFICATION Spec
CONSTANTS
    r1 = r1
    r2 = r2
    Relations <- OneRelation
    MaxPlans = 3
    MaxEdits = 1
    MaxCredentials = 2
    MaxFaults = 1
    Controls = {"rotate", "cancel"}
    EditsDuringRuns = FALSE
INVARIANT RunsOnPlannedKey
CHECK_DEADLOCK FALSE
