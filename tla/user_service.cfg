SPECIFICATION Spec
CONSTANTS
  PodName = {1, 2}
  MaxPodUid = 3
  CreatedAt <- Timestamps
  NamedPort <- Ports
  Label = {"app"}
  LeaderName = {"svc-leader"}
  DefaultLeader = "svc-leader"
  Custom = {""}
  UserServices = {"svc-leader"}
  Sticky = TRUE
  FlapDamping = FALSE
  CacheEnabled = TRUE
  StrictAPI = TRUE
  InitPods <- OneReadyOnePending
  InitSvc <- PlainService
  PodChanges = {}
  SvcChanges = {}
  Budget <- NoBudget
  MaxLag = 2
INVARIANTS UserServicesUntouched
