SPECIFICATION FairSpec

CONSTANTS
    Workers = {w1, w2}
    NoWorker = none
    Parts = {a}
    MaxPlans = 2
    MaxJobs = 2
    MaxAttempts = 2
    Modes = {"managed"}
    Controls = {"mutate"}
    LateWrites = FALSE
    LockLoss = TRUE

CHECK_DEADLOCK FALSE


PROPERTIES
    EveryOperationSettles
