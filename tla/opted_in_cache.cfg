SPECIFICATION FairSpec
CONSTANTS
  s1 = s1
  s2 = s2
  p1 = p1
  p2 = p2
  Service = {s1, s2}
  Pod = {p1, p2}
  Label = {"blue", "green"}
  PodLabel <- OneLabelEach
  InitSvc <- OneOptedIn
  Specs <- SomeSpecs
  MaxConcurrentReconciles = 2
  MaxCacheSize = 2
  Budget <- CacheBudget
INVARIANTS TypeOK NoPodEventLost CacheIsCurrent
PROPERTIES ComesToRest
CHECK_DEADLOCK FALSE
