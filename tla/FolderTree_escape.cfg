CONSTANTS
  MaxFolders = 3
  Names = {n1}
  Targets = {kb1}
  Files = {f1}
  Clients = {c1, c2}
  Cap = 2
  MaxFaults = 0
SPECIFICATION Spec
SYMMETRY Symmetry
INVARIANTS
  CleanupFollowsRows
CHECK_DEADLOCK FALSE
