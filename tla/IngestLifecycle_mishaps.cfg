CONSTANTS
  page = page
  linked = linked
  Items = {1, 2}
  MaxRetries = 1
  Priority <- FirstComeFirstServed
  Sources = {page, linked}
  SourceOf <- SameSource
  Tasks = {t1, t2}
  Clients = {c1}
  None = None
  MaxMishaps = 1
SPECIFICATION FairSpec
CHECK_DEADLOCK FALSE
INVARIANTS
  BlockedIsExplained
PROPERTIES
  LeasesAreKept
  RowsLeaveSettled
  QueuedRunEnds
