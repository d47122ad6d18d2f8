SPECIFICATION Spec
CONSTANTS
    r1 = r1
    r2 = r2
    Relations <- OneRelation
    MaxPlans = 3
    MaxEdits = 1
    MaxCredentials = 1
    MaxFaults = 1
    Controls = {"hold", "stop"}
    EditsDuringRuns = FALSE
PROPERTY AdminStopStands
CHECK_DEADLOCK FALSE
