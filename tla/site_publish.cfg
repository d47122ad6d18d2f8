SPECIFICATION Spec
CONSTANTS
    r1 = r1
    r2 = r2
    Relations <- TwoRelations
    MaxPlans = 4
    MaxEdits = 2
    MaxCredentials = 1
    MaxFaults = 2
    Controls = {"relation", "hold", "config", "price", "sync"}
    EditsDuringRuns = FALSE
INVARIANTS
    TypeOK
    AppliedIsServed
    SuccessIsTrue
PROPERTIES
    PricedBeforeOpened
    StopsFirst
SYMMETRY Symmetry
CHECK_DEADLOCK FALSE
