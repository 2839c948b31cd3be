CONSTANTS
  a = a
  c = c
  french = french
  nowhere = nowhere
  junk = junk
  Urls = {a, c, french, nowhere, junk}
  Raw <- Written
  Resolve <- Leads
  Nowhere <- Elsewhere
  Junk = {junk}
  Unsupported = {french}
  PageTrees <- SmallPages
  Invented = {c}
  NoLink = NoLink
  MaxEvents = 3
SPECIFICATION FairSpec
INVARIANTS
  TypeOK
  OnlyContentQueued
PROPERTIES
  LinksAccountedFor
  KnownLinksUntouched
  CrawlEnds
CHECK_DEADLOCK FALSE
