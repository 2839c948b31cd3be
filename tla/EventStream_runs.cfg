CONSTANTS
  j1 = j1
  Runs = {r1, r2}
  Jobs = {j1}
  JobOf <- OneJob
  Clients = {c1, c2}
  Listeners = {l1,l2}
  Capacity = 1
  MaxEvents = 1
SPECIFICATION FairSpec
INVARIANTS
  TypeOK
  DeliveredInOrder
  NobodyForgotten
  EndIsExplained
  ContentMapReady
  SlowListenersAlone
PROPERTIES
  StreamsShareALog
  StreamsEnd
  RunsNeverWait
