CONSTANTS
  a = a
  b = b
  c = c
  f1 = f1
  None = None
  Files = {f1, f2}
  Keys = {a, b, c}
  KeysFor <- OneOfItsOwn
  Tasks = {t1, t2}
  Clients = {r1}
  MaxDate = 2
  MaxCalls = 3
  MaxFaults = 0
SPECIFICATION Spec
SYMMETRY Symmetry
PROPERTIES
  OlderVersionIsSuperseded
CHECK_DEADLOCK FALSE
