SPECIFICATION Spec

CONSTANTS
    Workers = {w1, w2}
    NoWorker = none
    Parts = {a}
    MaxPlans = 2
    MaxJobs = 3
    MaxAttempts = 1
    Modes = {"managed"}
    Controls = {"mutate", "sync"}
    LateWrites = FALSE
    LockLoss = FALSE

SYMMETRY Symmetry

CHECK_DEADLOCK FALSE

PROPERTIES
    SucceededStays
