CONSTANTS
  Items = {1, 2}
  MaxRetries = 1
  Priority <- YoungerFirst
  Tasks = {t1, t2}
  MaxJobs = 1
  MaxFaults = 1
  MaxCrashes = 1
SPECIFICATION FairSpec
PROPERTIES
  
  LeasesAreKept
