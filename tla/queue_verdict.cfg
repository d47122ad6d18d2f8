SPECIFICATION Spec

CONSTANTS
    Workers = {w1, w2}
    NoWorker = none
    Parts = {a}
    MaxPlans = 1
    MaxJobs = 1
    MaxAttempts = 1
    Modes = {"managed"}
    Controls = {"mutate", "check"}
    LateWrites = FALSE
    LockLoss = FALSE

SYMMETRY Symmetry

CHECK_DEADLOCK FALSE

PROPERTIES
    IncompatibleStands
