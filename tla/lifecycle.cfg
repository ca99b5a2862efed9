SPECIFICATION FairSpec
CONSTANTS
  PodName = {1, 2}
  MaxPodUid = 3
  CreatedAt <- Timestamps
  NamedPort <- Ports
  Label = {"app"}
  LeaderName = {"svc-leader", "custom"}
  DefaultLeader = "svc-leader"
  Custom = {"", "custom"}
  UserServices = {}
  Sticky = TRUE
  FlapDamping = FALSE
  CacheEnabled = TRUE
  StrictAPI = TRUE
  InitPods <- TwoReady
  InitSvc <- OptedInService
  PodChanges = {}
  SvcChanges = {"enable", "disable", "select", "rename", "delete", "create"}
  Budget <- LifecycleBudget
  MaxLag = 2
INVARIANTS QuiescentRouted
PROPERTIES CleanupKeepsServed DeletedSourceLeavesNothing
CHECK_DEADLOCK FALSE
