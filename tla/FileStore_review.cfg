CONSTANTS
  a = a
  b = b
  c = c
  f1 = f1
  None = None
  Files = {f1, f2, f3}
  Keys = {a, b, c}
  KeysFor <- OneOfItsOwn
  Tasks = {t1, t2}
  Clients = {r1}
  MaxDate = 2
  MaxCalls = 4
  MaxFaults = 1
SPECIFICATION Spec
SYMMETRY Symmetry
INVARIANTS
  TypeOK
  PublishedWasApproved
  RowsPointAtObjects
PROPERTIES
  VersionsAdvance
  VersionsReplaced
CHECK_DEADLOCK FALSE
