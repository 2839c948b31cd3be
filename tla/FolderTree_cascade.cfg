CONSTANTS
  MaxFolders = 3
  Names = {n1, n2}
  Targets = {kb1, kb2}
  Files = {f1}
  Clients = {c1, c2}
  Cap = 2
  MaxFaults = 1
SPECIFICATION Spec
SYMMETRY Symmetry
INVARIANTS
  TypeOK
  SiblingsDiffer
  PathsReachRoots
  KeysHaveObjects
  NothingLeftBehind
PROPERTIES
  ActsAtOnce
CHECK_DEADLOCK FALSE
