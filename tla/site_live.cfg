SPECIFICATION FairSpec
CONSTANTS
    r1 = r1
    r2 = r2
    Relations <- OneRelation
    MaxPlans = 3
    MaxEdits = 2
    MaxCredentials = 2
    MaxFaults = 2
    Controls = {"relation", "hold", "price", "rotate", "cancel", "stop", "delete", "unmanaged"}
    EditsDuringRuns = TRUE
PROPERTY Converges
CHECK_DEADLOCK FALSE
