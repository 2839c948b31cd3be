CONSTANTS
  page = page
  linked = linked
  Items = {1, 2, 3}
  MaxRetries = 1
  Priority <- FirstComeFirstServed
  Sources = {page, linked}
  SourceOf <- ThreeJobs
  Tasks = {t1}
  Clients = {c1}
  None = None
  MaxMishaps = 0
SPECIFICATION Spec
CHECK_DEADLOCK FALSE
PROPERTIES
  ReingestEnqueues
