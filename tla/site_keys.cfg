SPECIFICATION Spec
CONSTANTS
    r1 = r1
    r2 = r2
    Relations <- TwoRelations
    MaxPlans = 4
    MaxEdits = 2
    MaxCredentials = 2
    MaxFaults = 2
    Controls = {"rotate", "relation", "resume", "config", "stop", "delete"}
    EditsDuringRuns = FALSE
INVARIANTS
    RunsOnPlannedKey
PROPERTIES
    AdminStopStands
SYMMETRY Symmetry
CHECK_DEADLOCK FALSE
