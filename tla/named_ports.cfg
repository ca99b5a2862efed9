SPECIFICATION Spec
CONSTANTS
  PodName = {1, 2, 3}
  MaxPodUid = 3
  CreatedAt <- Timestamps
  NamedPort <- Ports
  Label = {"app"}
  LeaderName = {"svc-leader"}
  DefaultLeader = "svc-leader"
  Custom = {""}
  UserServices = {}
  Sticky = FALSE
  FlapDamping = FALSE
  CacheEnabled = FALSE
  StrictAPI = FALSE
  InitPods <- ThreeReady
  InitSvc <- OptedInService
  PodChanges = {"ready", "unready", "delete", "loseIP"}
  SvcChanges = {"retarget"}
  Budget <- PortBudget
  MaxLag = 2
INVARIANTS TypeOK QuiescentRouted EarliestLeads
PROPERTIES FailClosed
