SPECIFICATION Spec

CONSTANTS
    Workers = {w1, w2}
    NoWorker = none
    Parts = {a, b}
    MaxPlans = 2
    MaxJobs = 2
    MaxAttempts = 2
    Modes = {"legacy", "managed"}
    Controls = {"mutate", "sync", "request", "disable", "check"}
    LateWrites = FALSE
    LockLoss = FALSE

SYMMETRY Symmetry

CHECK_DEADLOCK FALSE

INVARIANTS
    ConfirmedIsApplied

