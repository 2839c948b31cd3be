CONSTANTS
  Items = {1, 2}
  MaxRetries = 1
  Priority <- FirstComeFirstServed
  Tasks = {t1, t2, t3}
  MaxJobs = 2
  MaxFaults = 1
  MaxCrashes = 1
SPECIFICATION Spec
SYMMETRY TaskSymmetry
INVARIANTS
  TypeOK
  PermitAccounting
  ConcurrencyCap
  ExclusiveOwner
  AttemptsBounded
PROPERTIES
  NoRowLost
