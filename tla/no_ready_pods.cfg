SPECIFICATION FairSpec
CONSTANTS
  PodName = {1, 2}
  MaxPodUid = 3
  CreatedAt <- Timestamps
  NamedPort <- Ports
  Label = {"app"}
  LeaderName = {"svc-leader"}
  DefaultLeader = "svc-leader"
  Custom = {""}
  UserServices = {}
  Sticky = TRUE
  FlapDamping = FALSE
  CacheEnabled = TRUE
  StrictAPI = TRUE
  InitPods <- TwoReady
  InitSvc <- OptedInService
  PodChanges = {"unready"}
  SvcChanges = {}
  Budget <- ThreeChanges
  MaxLag = 2
PROPERTIES NoReadyPodsNoEndpoints
