SPECIFICATION FairSpec
CONSTANTS
  PodName = {1, 2}
  MaxPodUid = 3
  CreatedAt <- Timestamps
  NamedPort <- Ports
  Label = {"app"}
  LeaderName = {"svc-leader"}
  DefaultLeader = "svc-leader"
  Custom = {""}
  UserServices = {}
  Sticky = TRUE
  FlapDamping = TRUE
  CacheEnabled = TRUE
  StrictAPI = TRUE
  InitPods <- OneReadyOnePending
  InitSvc <- OptedInService
  PodChanges <- FailoverChanges
  SvcChanges = {}
  Budget <- FailoverBudget
  MaxLag = 2
INVARIANTS LeaderWasReady QuiescentRouted
PROPERTIES LeaderRoutingImplemented StickyLeaderStays EventuallyRouted
