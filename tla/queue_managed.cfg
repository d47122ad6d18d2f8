SPECIFICATION Spec

CONSTANTS
    Workers = {w1, w2}
    NoWorker = none
    Parts = {a}
    MaxPlans = 2
    MaxJobs = 2
    MaxAttempts = 2
    Modes = {"managed"}
    Controls = {"mutate", "sync", "request", "disable", "check"}
    LateWrites = TRUE
    LockLoss = FALSE

SYMMETRY Symmetry

INVARIANTS
    TypeOK
    WriterIsCurrent
    SuccessIsConsistent
    NoOrphan

PROPERTIES
    Publication
    FinishedStops
