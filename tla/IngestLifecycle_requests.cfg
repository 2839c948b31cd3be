CONSTANTS
  page = page
  linked = linked
  Items = {1, 2, 3}
  MaxRetries = 1
  Priority <- FirstComeFirstServed
  Sources = {page, linked}
  SourceOf <- ThreeJobs
  Tasks = {t1, t2}
  Clients = {c1, c2}
  None = None
  MaxMishaps = 0
SPECIFICATION Spec
SYMMETRY Interchangeable
CHECK_DEADLOCK FALSE
INVARIANTS
  TypeOK
  ActiveJobIsOpen
  OneRunPerSource
