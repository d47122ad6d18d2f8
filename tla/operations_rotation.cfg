SPECIFICATION Spec
CONSTANTS
  Sites = {s1, s2}
  NoCredential = 0
  Clients = {c1, c2}
  Keys = {k1, k2}
  Kinds = {"site", "supplier", "rotate", "cancel", "relation", "restore", "deploy", "draft", "publish", "sync"}
  MaxCredentials = 3
  MaxPrices = 2
  MaxPlans = 3
  MaxFaults = 0
  MaxRebases = 0
  Expiring = {k1, k2}
INVARIANT RotationSettles
SYMMETRY Symmetry
CHECK_DEADLOCK FALSE
