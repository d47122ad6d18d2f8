SPECIFICATION Spec
CONSTANTS
  Sites = {s1, s2}
  NoCredential = 0
  Clients = {c1, c2}
  Keys = {k1, k2}
  Kinds = {"site", "supplier", "rotate", "cancel", "relation", "restore", "deploy", "draft", "publish", "sync"}
  MaxCredentials = 3
  MaxPrices = 2
  MaxPlans = 3
  MaxFaults = 1
  MaxRebases = 1
  Expiring = {k1, k2}
INVARIANTS
    TakenOnce
    NewestPlanIsCurrent
    SuccessIsServed
PROPERTIES
    RevokedIsNotInstalled
    PromotedIsInstalled
    Rotation
SYMMETRY Symmetry
CHECK_DEADLOCK FALSE
