------------------------ MODULE ServiceDirectorProofs ------------------------
(***************************************************************************)
(* Proofs about ServiceDirector, for all values of its constants.          *)
(***************************************************************************)
EXTENDS ServiceDirector, FiniteSetTheorems, SequenceTheorems, TLAPS

-----------------------------------------------------------------------------
(***************************************************************************)
(* Types of what the helpers return.                                       *)
(***************************************************************************)

\* getLeaderServiceName always returns the name of a leader Service: an invalid
\* annotation falls back to the default.
LEMMA LeaderNameType == \A s : GetLeaderServiceName(s) \in LeaderName
  BY ServiceAssumption DEF GetLeaderServiceName

\* So does it for the Service of the reconcile in progress.
LEMMA LocalNameType == LocalName \in LeaderName
  BY LeaderNameType DEF LocalName

\* selectLeaderPod returns Pods of the list that it is given.
LEMMA SelectedFromList ==
  ASSUME NEW P, NEW S, NEW b
  PROVE  /\ SelectLeaderPod(P, S, b) \subseteq P
         /\ \A p \in SelectLeaderPod(P, S, b) : IsPodReady(p)
  BY DEF SelectLeaderPod, Kept, Earliest, Candidates

\* A reference to a Pod is well typed.
LEMMA RefType ==
  ASSUME NEW p \in Pod
  PROVE  Ref(p) \in PodRef /\ p.uid \in PodUid
  BY DEF Ref, PodRef, Pod

\* resolveServicePorts returns port numbers, never 0, if it does not fail.
LEMMA PortsType ==
  ASSUME NEW s \in SourceService, NEW P \in SUBSET Pod, PortsResolve(s, P)
  PROVE  ResolveServicePorts(s, P) \in SUBSET PortNumber
<1>1. CASE s.port = "named"
  <2>1. \A p \in P : NamedPort[p.uid] \in PortNumber
    BY <1>1, PodAssumption, RefType DEF PortsResolve, PortNumber
  <2>2. ResolveServicePorts(s, P) = {NamedPort[p.uid] : p \in P}
    BY <1>1 DEF ResolveServicePorts
  <2> QED
    BY <2>1, <2>2
<1>2. CASE s.port = "number"
  BY <1>2 DEF ResolveServicePorts, ServicePort, PortNumber
<1>3. CASE s.port = "none"
  BY <1>3 DEF ResolveServicePorts
<1> QED
  BY <1>1, <1>2, <1>3 DEF SourceService

\* The Service of a reconcile in progress.
LEMMA SourceType ==
  ASSUME TypeOK, pc \notin {"idle", "cleanup"}
  PROVE  Source \in loc.svc /\ Source \in SourceService
<1>1. loc.svc # {} /\ loc.svc \in SUBSET SourceService
  BY DEF TypeOK, Locals
<1> QED
  BY <1>1 DEF Source

\* The leader Service that is created or patched is well typed.
LEMMA WantedLeaderServiceType ==
  ASSUME TypeOK, NEW l \in LeaderName
  PROVE  WantedLeaderService(l) \in SUBSET LeaderService
<1>1. /\ loc.leader \in SUBSET Pod
      /\ loc.ports \in SUBSET PortNumber
      /\ loc.svc \in SUBSET SourceService
  BY DEF TypeOK, Locals
<1>2. Uids(loc.leader) \in SUBSET PodUid
  BY <1>1, RefType DEF Uids
<1>3. NewLeaderService \in SUBSET LeaderService
  <2> SUFFICES ASSUME NEW s \in loc.svc
               PROVE  [uid |-> nextUid, managed |-> TRUE, owner |-> s.uid,
                       leader |-> Uids(loc.leader), ports |-> loc.ports]
                         \in LeaderService
    BY DEF NewLeaderService
  <2>1. s.uid \in Nat
    BY <1>1 DEF SourceService
  <2> QED
    BY <1>1, <1>2, <2>1 DEF LeaderService, TypeOK
<1>4. PatchedLeaderService(l) \in SUBSET LeaderService
  <2> SUFFICES ASSUME NEW o \in leaderSvc[l], NEW v \in leaderSvcView[l]
               PROVE  PatchLeaderService(o, v) \in LeaderService
    BY DEF PatchedLeaderService
  <2>1. o \in LeaderService
    BY DEF TypeOK
  <2>2. /\ Merge(v.leader, Uids(loc.leader), o.leader) \in SUBSET PodUid
        /\ Merge(v.ports, loc.ports, o.ports) \in SUBSET PortNumber
    BY <1>1, <1>2, <2>1 DEF Merge, LeaderService
  <2> QED
    BY <2>1, <2>2 DEF LeaderService, PatchLeaderService
<1> QED
  BY <1>3, <1>4 DEF WantedLeaderService

\* The slice that is created or patched is well typed.
LEMMA WantedSliceType ==
  ASSUME TypeOK, NEW l \in LeaderName, NEW owners \in SUBSET LeaderService
  PROVE  WantedSlice(l, owners) \in SUBSET EndpointSlice
<1>1. loc.leader \in SUBSET Pod /\ loc.ports \in SUBSET PortNumber
  BY DEF TypeOK, Locals
<1>2. NewTarget \in SUBSET PodRef
  BY <1>1, RefType DEF NewTarget
<1>3. NewSlice(owners) \in SUBSET EndpointSlice
  <2>1. {o.uid : o \in owners} \in SUBSET Nat
    BY DEF LeaderService
  <2> QED
    BY <1>1, <1>2, <2>1 DEF NewSlice, EndpointSlice
<1>4. PatchedSlice(l) \in SUBSET EndpointSlice
  <2> SUFFICES ASSUME NEW o \in slice[l], NEW v \in sliceView[l]
               PROVE  PatchSlice(o, v) \in EndpointSlice
    BY DEF PatchedSlice
  <2>1. o \in EndpointSlice
    BY DEF TypeOK
  <2>2. /\ Merge(v.target, NewTarget, o.target) \in SUBSET PodRef
        /\ Merge(v.ports, loc.ports, o.ports) \in SUBSET PortNumber
    BY <1>1, <1>2, <2>1 DEF Merge, EndpointSlice
  <2> QED
    BY <2>1, <2>2 DEF EndpointSlice, PatchSlice
<1> QED
  BY <1>3, <1>4 DEF WantedSlice

\* A write of a well-typed leader Service keeps store and watch well typed.
LEMMA PutLeaderServiceType ==
  ASSUME TypeOK, NEW l \in LeaderName, NEW new \in SUBSET LeaderService,
         PutLeaderService(l, new)
  PROVE  /\ leaderSvc' \in [LeaderName -> SUBSET LeaderService]
         /\ leaderSvcWatch' \in [LeaderName -> Seq(SUBSET LeaderService)]
  BY AppendProperties DEF TypeOK, PutLeaderService

\* A write of a well-typed slice keeps store and watch well typed.
LEMMA PutSliceType ==
  ASSUME TypeOK, NEW l \in LeaderName, NEW new \in SUBSET EndpointSlice,
         PutSlice(l, new)
  PROVE  /\ slice' \in [LeaderName -> SUBSET EndpointSlice]
         /\ sliceWatch' \in [LeaderName -> Seq(SUBSET EndpointSlice)]
  BY AppendProperties DEF TypeOK, PutSlice

\* Starting on a leader keeps the locals well typed.
LEMMA ReconcileLeaderType ==
  ASSUME TypeOK, pc \notin {"idle", "cleanup"},
         NEW leader \in SUBSET Pod, NEW seen \in SUBSET PodRef,
         ReconcileLeader(leader, seen)
  PROVE  loc' \in Locals /\ pc' \in Step /\ loc'.svc # {}
<1>1. PortsResolve(Source, leader) =>
          ResolveServicePorts(Source, leader) \in SUBSET PortNumber
  BY PortsType, SourceType
<1>2. loc \in Locals /\ loc.svc # {}
  BY DEF TypeOK
<1>3. CASE PortsResolve(Source, leader)
  BY <1>1, <1>2, <1>3 DEF ReconcileLeader, Locals, Step
<1>4. CASE ~PortsResolve(Source, leader)
  BY <1>2, <1>4 DEF ReconcileLeader, Locals, Step
<1> QED
  BY <1>3, <1>4

\* Every end of a reconcile leaves well-typed locals.
LEMMA NoLocalsType == NoLocals \in Locals
  BY DEF NoLocals, Locals

\* The two ends of a reconcile keep the reconciler's state well typed.
LEMMA EndType ==
  ASSUME TypeOK, Done \/ Fail
  PROVE  pc' = "idle" /\ pc' \in Step /\ loc' \in Locals /\ queued' \in BOOLEAN
<1>1. pc' \in Step /\ loc' \in Locals
  BY NoLocalsType DEF Done, Fail, Step
<1>2. pc' = "idle" /\ queued' \in BOOLEAN
  BY DEF Done, Fail, TypeOK
<1> QED
  BY <1>1, <1>2

\* Finding the current leader changes no other local variables.
LEMMA CurrentLeaderLocals ==
  ASSUME TypeOK, GetCurrentLeaderPod
  PROVE  /\ loc'.svc = loc.svc /\ loc'.pods = loc.pods
         /\ loc'.leader = loc.leader
<1>1. PICK cached, seen, found : CurrentLeader(cached, seen, found)
  BY DEF GetCurrentLeaderPod
<1> QED
  BY <1>1 DEF CurrentLeader, TypeOK, Locals

\* A fault takes one from its budget.
LEMMA FaultyType ==
  ASSUME TypeOK, Faulty \/ UNCHANGED left
  PROVE  left' \in [{"pod", "svc", "fault", "restart"} -> Nat]
<1>1. left \in [{"pod", "svc", "fault", "restart"} -> Nat]
  BY DEF TypeOK
<1>2. CASE Faulty
  <2>1. left.fault \in Nat /\ left.fault > 0
    BY <1>1, <1>2 DEF Faulty
  <2>2. left.fault - 1 \in Nat
    BY <2>1
  <2> QED
    BY <1>1, <1>2, <2>2 DEF Faulty
<1> QED
  BY <1>1, <1>2

\* An update of a Pod makes a Pod.
LEMMA UpdatesType ==
  ASSUME NEW p \in Pod, NEW q \in Updates(p)
  PROVE  q \in Pod
  BY DEF Updates, Pod

\* The Pod cache holds references.
LEMMA CacheEntryType ==
  ASSUME NEW P \in SUBSET Pod
  PROVE  CacheEntry(P) \in SUBSET PodRef
  BY RefType DEF CacheEntry

\* The opted-in cache holds selectors.
LEMMA OptedInType == TypeOK => OptedInEntry \in SUBSET SUBSET Label
  BY DEF TypeOK, OptedInEntry, SourceService

\* mapPodToService keeps its cache and the queue well typed.
LEMMA MapPodToServiceType ==
  ASSUME TypeOK, NEW P, MapPodToService(P)
  PROVE  optedIn' \in SUBSET SUBSET Label /\ queued' \in BOOLEAN
<1>1. OptedInEntry \in SUBSET SUBSET Label
  BY OptedInType
<1>2. optedIn' \in SUBSET SUBSET Label
  BY <1>1 DEF TypeOK, MapPodToService
<1>3. queued' = TRUE \/ queued' = FALSE
  BY Zenon DEF MapPodToService
<1> QED
  BY <1>2, <1>3

\* UIDs of well-typed Pods.
LEMMA UidsType ==
  ASSUME NEW P \in SUBSET Pod
  PROVE  Uids(P) \in SUBSET PodUid
  BY RefType DEF Uids

-----------------------------------------------------------------------------
(***************************************************************************)
(* Type correctness.                                                       *)
(***************************************************************************)

\* There is at most one source Service.
LEMMA OneService == Cardinality(InitSvc) \in Nat
<1>1. CASE InitSvc = {}
  BY <1>1, FS_EmptySet
<1>2. CASE InitSvc # {}
  <2>1. PICK s : s \in InitSvc
    BY <1>2
  <2>2. InitSvc = {s}
    BY <2>1, ServiceAssumption
  <2> QED
    BY <2>2, FS_Singleton
<1> QED
  BY <1>1, <1>2

\* The initial state is well typed.
LEMMA TypeInit == Init => TypeOK
<1> SUFFICES ASSUME Init PROVE TypeOK
  OBVIOUS
<1>1. Cardinality(InitPods) \in Nat /\ Cardinality(InitSvc) \in Nat
  BY OneService, PodAssumption, FS_CardinalityType
<1>2. {p \in InitPods : IsPodReady(p)} \in SUBSET Pod
  BY PodAssumption
<1>3. UserService \in LeaderService
  BY DEF UserService, LeaderService, ServicePort, PortNumber
<1>4. <<>> \in Seq(SUBSET LeaderService) /\ <<>> \in Seq(SUBSET EndpointSlice)
  BY EmptySeq
<1>5. /\ leaderSvc \in [LeaderName -> SUBSET LeaderService]
      /\ slice \in [LeaderName -> SUBSET EndpointSlice]
  BY <1>3 DEF Init
<1>6. /\ leaderSvcWatch \in [LeaderName -> Seq(SUBSET LeaderService)]
      /\ sliceWatch \in [LeaderName -> Seq(SUBSET EndpointSlice)]
  BY <1>4 DEF Init
<1>7. everReady \in SUBSET PodUid
  BY <1>2, UidsType DEF Init
<1>8. queued \in BOOLEAN /\ pc \in Step /\ loc \in Locals
  BY NoLocalsType DEF Init, Step
<1> QED
  BY <1>1, <1>5, <1>6, <1>7, <1>8, PodAssumption, ServiceAssumption,
     BoundAssumption DEF Init, TypeOK

\* Every step of the reconciler keeps the types.
LEMMA TypeController == TypeOK /\ Controller => TypeOK'
<1> SUFFICES ASSUME TypeOK, Controller PROVE TypeOK'
  OBVIOUS
<1> USE DEF cluster, api, informer
<1>1. CASE Reconcile
  <2>1. optedIn' \in SUBSET SUBSET Label
    BY <1>1, OptedInType DEF Reconcile, TypeOK
  <2>2. /\ loc' \in Locals /\ pc' \in Step /\ queued' \in BOOLEAN
        /\ pc' \notin {"idle", "cleanup"} => loc'.svc # {}
    <3>1. CASE Fail
      BY <3>1, EndType
    <3>2. CASE pc' \in {"cleanup", "idle"} /\ queued' = FALSE /\ UNCHANGED loc
      BY <3>2 DEF TypeOK, Step
    <3>3. CASE /\ pc' = "list" /\ queued' = FALSE /\ svc # {}
               /\ loc' = [NoLocals EXCEPT !.svc = svc]
      BY <3>3, NoLocalsType DEF TypeOK, Locals, Step
    <3> QED
      BY <1>1, <3>1, <3>2, <3>3 DEF Reconcile
  <2>3. left' \in [{"pod", "svc", "fault", "restart"} -> Nat]
    BY <1>1, FaultyType DEF Reconcile
  <2> QED
    BY <1>1, <2>1, <2>2, <2>3 DEF Reconcile, TypeOK
<1>2. CASE ListPods
  <2> DEFINE found == {p \in pods : \E s \in loc.svc : Selects(s, p)}
  <2>1. found \in SUBSET Pod /\ pc \notin {"idle", "cleanup"}
    BY <1>2 DEF TypeOK, ListPods
  <2>2. /\ loc' \in Locals /\ pc' \in Step /\ queued' \in BOOLEAN
        /\ pc' \notin {"idle", "cleanup"} => loc'.svc # {}
    <3>1. CASE ReconcileLeader({}, {}) /\ UNCHANGED queued
      BY <2>1, <3>1, ReconcileLeaderType DEF TypeOK
    <3>2. CASE /\ pc' = "current" /\ loc' = [loc EXCEPT !.pods = found]
               /\ UNCHANGED queued
      BY <3>2, <2>1 DEF TypeOK, Locals, Step
    <3>3. CASE Fail
      BY <3>3, EndType
    <3> QED
      BY <1>2, <3>1, <3>2, <3>3 DEF ListPods
  <2>3. left' \in [{"pod", "svc", "fault", "restart"} -> Nat]
    BY <1>2, FaultyType DEF ListPods
  <2> QED
    BY <1>2, <2>2, <2>3 DEF ListPods, TypeOK
<1>3. CASE GetCurrentLeaderPod
  <2>1. PICK cached \in {Lookup(leaderPodCache), {}},
             seen \in {sliceView[LocalName], {}} :
          \E found \in {Lookup(Targets(seen)), {}} :
             CurrentLeader(cached, seen, found)
    BY <1>3 DEF GetCurrentLeaderPod
  <2>2. PICK found \in {Lookup(Targets(seen)), {}} :
          CurrentLeader(cached, seen, found)
    BY <2>1
  <2>3. cached \in SUBSET Pod /\ found \in SUBSET Pod
    BY DEF Lookup, TypeOK
  <2>4. /\ Uids(cached) \in SUBSET PodUid /\ Uids(found) \in SUBSET PodUid
        /\ CacheEntry(found) \in SUBSET PodRef
        /\ CacheEntry(cached) \in SUBSET PodRef
    BY <2>3, UidsType, CacheEntryType
  <2>5. leaderPodCache' \in SUBSET PodRef
    BY <2>2, <2>4 DEF CurrentLeader, TypeOK
  <2>6. loc' \in Locals /\ loc'.svc = loc.svc
    BY <2>2, <2>4 DEF CurrentLeader, TypeOK, Locals
  <2>7. left' \in [{"pod", "svc", "fault", "restart"} -> Nat]
    BY <1>3, FaultyType DEF GetCurrentLeaderPod
  <2> QED
    BY <1>3, <2>5, <2>6, <2>7 DEF GetCurrentLeaderPod, TypeOK, Step
<1>4. CASE SelectLeader
  <2>1. PICK seen \in {Targets(sliceView[LocalName]), {}} : Select(seen)
    BY <1>4 DEF SelectLeader
  <2> DEFINE leader == SelectLeaderPod(loc.pods, seen, loc.bypass)
  <2>2. leader \in SUBSET Pod
    BY SelectedFromList DEF TypeOK, Locals
  <2>3. seen \in SUBSET PodRef
    BY LocalNameType DEF TypeOK, Targets, EndpointSlice
  <2>4. loc' \in Locals /\ pc' \in Step /\ loc'.svc # {}
    BY <1>4, <2>1, <2>2, <2>3, ReconcileLeaderType DEF SelectLeader, Select
  <2>5. leaderPodCache' \in SUBSET PodRef
    BY <2>1, <2>2, CacheEntryType DEF Select, TypeOK
  <2>6. left' \in [{"pod", "svc", "fault", "restart"} -> Nat]
    BY <1>4, FaultyType DEF SelectLeader
  <2> QED
    BY <1>4, <2>4, <2>5, <2>6 DEF SelectLeader, TypeOK
<1>5. CASE DeleteUnresolvedSlice
  <2>1. /\ slice' \in [LeaderName -> SUBSET EndpointSlice]
        /\ sliceWatch' \in [LeaderName -> Seq(SUBSET EndpointSlice)]
    <3>1. CASE PutSlice(LocalName, {})
      BY <3>1, LocalNameType, PutSliceType
    <3>2. CASE UNCHANGED <<slice, sliceWatch>>
      BY <3>2 DEF TypeOK
    <3> QED
      BY <1>5, <3>1, <3>2 DEF DeleteUnresolvedSlice
  <2>2. left' \in [{"pod", "svc", "fault", "restart"} -> Nat]
    BY <1>5, FaultyType DEF DeleteUnresolvedSlice
  <2>3. pc' \in Step
    BY <1>5 DEF DeleteUnresolvedSlice, Step
  <2> QED
    BY <1>5, <2>1, <2>2, <2>3 DEF DeleteUnresolvedSlice, TypeOK
<1>6. CASE ReconcileLeaderService
  <2>1. /\ leaderSvc' \in [LeaderName -> SUBSET LeaderService]
        /\ leaderSvcWatch' \in [LeaderName -> Seq(SUBSET LeaderService)]
        /\ nextUid' \in Nat
    <3>1. CASE WriteLeaderService(LocalName)
      <4>1. nextUid' \in Nat
        BY <3>1 DEF WriteLeaderService, TypeOK
      <4>2. PutLeaderService(LocalName, WantedLeaderService(LocalName))
        BY <3>1 DEF WriteLeaderService
      <4> QED
        BY <4>1, <4>2, LocalNameType, WantedLeaderServiceType,
           PutLeaderServiceType
    <3>2. CASE UNCHANGED <<leaderSvc, leaderSvcWatch, nextUid>>
      BY <3>2 DEF TypeOK
    <3> QED
      BY <1>6, <3>1, <3>2 DEF ReconcileLeaderService
  <2>2. /\ queued' \in BOOLEAN /\ pc' \in Step /\ loc' \in Locals
        /\ pc' \notin {"idle", "cleanup"} => loc'.svc # {}
    <3>1. CASE Fail
      BY <3>1, EndType
    <3>2. CASE pc' = "slice" /\ UNCHANGED <<queued, loc>>
      BY <1>6, <3>2 DEF ReconcileLeaderService, TypeOK, Step
    <3> QED
      BY <1>6, <3>1, <3>2 DEF ReconcileLeaderService
  <2>3. left' \in [{"pod", "svc", "fault", "restart"} -> Nat]
    BY <1>6, FaultyType DEF ReconcileLeaderService
  <2> QED
    BY <1>6, <2>1, <2>2, <2>3 DEF ReconcileLeaderService, TypeOK
<1>7. CASE ReconcileEndpointSlice
  <2>1. /\ slice' \in [LeaderName -> SUBSET EndpointSlice]
        /\ sliceWatch' \in [LeaderName -> Seq(SUBSET EndpointSlice)]
    <3>1. ASSUME NEW owners \in SUBSET LeaderService,
                 WriteSlice(LocalName, owners)
          PROVE  <2>1
      BY <3>1, LocalNameType, WantedSliceType, PutSliceType DEF WriteSlice
    <3>2. CASE UNCHANGED <<slice, sliceWatch>>
      BY <3>2 DEF TypeOK
    <3>3. leaderSvcView[LocalName] \in SUBSET LeaderService
      BY LocalNameType DEF TypeOK
    <3> QED
      BY <1>7, <3>1, <3>2, <3>3 DEF ReconcileEndpointSlice
  <2>2. pc' = "idle" /\ queued' \in BOOLEAN /\ pc' \in Step /\ loc' \in Locals
    BY <1>7, EndType DEF ReconcileEndpointSlice
  <2>3. left' \in [{"pod", "svc", "fault", "restart"} -> Nat]
    BY <1>7, FaultyType DEF ReconcileEndpointSlice
  <2> QED
    BY <1>7, <2>1, <2>2, <2>3 DEF ReconcileEndpointSlice, TypeOK
<1>8. CASE CleanupLeaderResources
  <2>1. /\ leaderSvc' \in [LeaderName -> SUBSET LeaderService]
        /\ leaderSvcWatch' \in [LeaderName -> Seq(SUBSET LeaderService)]
    <3>1. ASSUME NEW s \in svc, CleanupByName(GetLeaderServiceName(s))
          PROVE  <2>1
      <4>1. CASE PutLeaderService(GetLeaderServiceName(s), {})
        BY <4>1, LeaderNameType, PutLeaderServiceType
      <4>2. CASE UNCHANGED <<leaderSvc, leaderSvcWatch>>
        BY <4>2 DEF TypeOK
      <4> QED
        BY <3>1, <4>1, <4>2 DEF CleanupByName
    <3>2. ASSUME NEW D, CleanupByLabel(D)
          PROVE  <2>1
      <4>1. leaderSvc' \in [LeaderName -> SUBSET LeaderService]
        BY <3>2 DEF CleanupByLabel, TypeOK
      <4>2. leaderSvcWatch' \in [LeaderName -> Seq(SUBSET LeaderService)]
        BY <3>2, AppendProperties DEF CleanupByLabel, TypeOK
      <4> QED
        BY <4>1, <4>2
    <3> QED
      BY <1>8, <3>1, <3>2 DEF CleanupLeaderResources
  <2>2. pc' = "idle" /\ queued' \in BOOLEAN /\ pc' \in Step /\ loc' \in Locals
    BY <1>8, EndType DEF CleanupLeaderResources, CleanupByName, CleanupByLabel
  <2>3. left' \in [{"pod", "svc", "fault", "restart"} -> Nat]
    BY <1>8, FaultyType
    DEF CleanupLeaderResources, CleanupByName, CleanupByLabel
  <2> QED
    BY <1>8, <2>1, <2>2, <2>3 DEF CleanupLeaderResources, TypeOK
<1> QED
  BY <1>1, <1>2, <1>3, <1>4, <1>5, <1>6, <1>7, <1>8 DEF Controller

\* Every delivery of a watch event keeps the types.
LEMMA TypeInformer == TypeOK /\ Informer => TypeOK'
<1> SUFFICES ASSUME TypeOK, NEW l \in LeaderName,
                    DeliverLeaderService(l) \/ DeliverEndpointSlice(l)
             PROVE  TypeOK'
  BY DEF Informer
<1> USE DEF cluster, api, informer
<1>1. CASE DeliverLeaderService(l)
  <2>1. leaderSvcWatch[l] \in Seq(SUBSET LeaderService)
    BY DEF TypeOK
  <2>2. /\ Head(leaderSvcWatch[l]) \in SUBSET LeaderService
        /\ Tail(leaderSvcWatch[l]) \in Seq(SUBSET LeaderService)
    BY <1>1, <2>1, HeadTailProperties DEF DeliverLeaderService
  <2> QED
    BY <1>1, <2>2 DEF DeliverLeaderService, TypeOK
<1>2. CASE DeliverEndpointSlice(l)
  <2>1. sliceWatch[l] \in Seq(SUBSET EndpointSlice)
    BY DEF TypeOK
  <2>2. /\ Head(sliceWatch[l]) \in SUBSET EndpointSlice
        /\ Tail(sliceWatch[l]) \in Seq(SUBSET EndpointSlice)
    BY <1>2, <2>1, HeadTailProperties DEF DeliverEndpointSlice
  <2> QED
    BY <1>2, <2>2 DEF DeliverEndpointSlice, TypeOK
<1> QED
  BY <1>1, <1>2

\* Every garbage collection keeps the types.
LEMMA TypeGarbageCollector == TypeOK /\ GarbageCollector => TypeOK'
<1> SUFFICES ASSUME TypeOK, NEW l \in LeaderName,
                    CollectLeaderService(l) \/ CollectEndpointSlice(l)
             PROVE  TypeOK'
  BY DEF GarbageCollector
<1> USE DEF cluster, api, informer
<1>1. CASE CollectLeaderService(l)
  BY <1>1, PutLeaderServiceType DEF CollectLeaderService, TypeOK
<1>2. CASE CollectEndpointSlice(l)
  BY <1>2, PutSliceType DEF CollectEndpointSlice, TypeOK
<1> QED
  BY <1>1, <1>2

\* Spending a budget leaves a budget.
LEMMA SpendType ==
  ASSUME TypeOK, SpendPod \/ SpendSvc
  PROVE  left' \in [{"pod", "svc", "fault", "restart"} -> Nat]
<1>1. left \in [{"pod", "svc", "fault", "restart"} -> Nat]
  BY DEF TypeOK
<1>2. CASE SpendPod
  <2>1. left.pod \in Nat /\ left.pod > 0
    BY <1>1, <1>2 DEF SpendPod
  <2>2. left.pod - 1 \in Nat
    BY <2>1
  <2> QED
    BY <1>1, <1>2, <2>2 DEF SpendPod
<1>3. CASE SpendSvc
  <2>1. left.svc \in Nat /\ left.svc > 0
    BY <1>1, <1>3 DEF SpendSvc
  <2>2. left.svc - 1 \in Nat
    BY <2>1
  <2> QED
    BY <1>1, <1>3, <2>2 DEF SpendSvc
<1> QED
  BY <1>2, <1>3

\* Whatever the environment does keeps the types.
LEMMA TypeEnvironment == TypeOK /\ Environment => TypeOK'
<1> SUFFICES ASSUME TypeOK, Environment PROVE TypeOK'
  OBVIOUS
<1> USE DEF cluster, api, informer
<1>1. CASE PodUpdated
  <2>0. PICK p \in pods : \E q \in Updates(p) :
               /\ pods' = (pods \ {p}) \cup {q}
               /\ IF MeaningfulUpdate(p, q)
                  THEN MapPodToService({p, q})
                  ELSE UNCHANGED <<optedIn, queued>>
    BY <1>1 DEF PodUpdated
  <2>1. PICK q \in Updates(p) :
               /\ pods' = (pods \ {p}) \cup {q}
               /\ IF MeaningfulUpdate(p, q)
                  THEN MapPodToService({p, q})
                  ELSE UNCHANGED <<optedIn, queued>>
    BY <2>0
  <2>2. pods' \in SUBSET Pod
    BY <2>1, UpdatesType DEF TypeOK
  <2>3. optedIn' \in SUBSET SUBSET Label /\ queued' \in BOOLEAN
    BY <2>1, MapPodToServiceType DEF TypeOK
  <2>4. everReady' \in SUBSET PodUid
    BY <1>1, <2>2, UidsType DEF PodUpdated, TypeOK
  <2> QED
    BY <1>1, <2>2, <2>3, <2>4, SpendType DEF PodUpdated, TypeOK
<1>2. CASE PodCreated
  <2>1. PICK n \in PodName, x \in Label :
               /\ pods' = pods \cup {NewPod(n, x)}
               /\ MapPodToService({NewPod(n, x)})
    BY <1>2 DEF PodCreated
  <2>2. pods' \in SUBSET Pod
    <3>1. NewPod(n, x) \in Pod
      BY <1>2 DEF PodCreated, NewPod, Pod
    <3> QED
      BY <2>1, <3>1 DEF TypeOK
  <2>3. optedIn' \in SUBSET SUBSET Label /\ queued' \in BOOLEAN
    BY <2>1, MapPodToServiceType
  <2>4. nextPodUid' \in Nat
    BY <1>2 DEF PodCreated, TypeOK
  <2> QED
    BY <1>2, <2>2, <2>3, <2>4, SpendType DEF PodCreated, TypeOK
<1>3. CASE PodDeleted
  <2>1. PICK p \in pods : pods' = pods \ {p} /\ MapPodToService({p})
    BY <1>3 DEF PodDeleted
  <2>2. optedIn' \in SUBSET SUBSET Label /\ queued' \in BOOLEAN
    BY <2>1, MapPodToServiceType
  <2> QED
    BY <1>3, <2>1, <2>2, SpendType DEF PodDeleted, TypeOK
<1>4. CASE PodMatures
  <2>1. pods' \in SUBSET Pod
    BY <1>4 DEF PodMatures, TypeOK, Pod
  <2> QED
    BY <1>4, <2>1 DEF PodMatures, TypeOK
<1>5. CASE ServiceUpdated
  <2>1. svc' \in SUBSET SourceService
    BY <1>5 DEF ServiceUpdated, Edits, TypeOK, SourceService
  <2> QED
    BY <1>5, <2>1, SpendType DEF ServiceUpdated, TypeOK
<1>6. CASE ServiceDeleted
  BY <1>6, SpendType DEF ServiceDeleted, TypeOK
<1>7. CASE ServiceCreated
  <2>1. nextUid \in Nat /\ nextUid' \in Nat
    BY <1>7 DEF ServiceCreated, TypeOK
  <2>2. \A t \in InitSvc : [t EXCEPT !.uid = nextUid] \in SourceService
    BY <2>1, ServiceAssumption DEF SourceService
  <2>3. svc' \in SUBSET SourceService
    BY <1>7, <2>2 DEF ServiceCreated
  <2> QED
    BY <1>7, <2>1, <2>3, SpendType DEF ServiceCreated, TypeOK
<1>8. CASE CacheExpires
  BY <1>8 DEF CacheExpires, TypeOK
<1>9. CASE Resync
  BY <1>9 DEF Resync, TypeOK
<1>10. CASE Restart
  <2>1. left' \in [{"pod", "svc", "fault", "restart"} -> Nat]
    <3>1. left \in [{"pod", "svc", "fault", "restart"} -> Nat]
      BY DEF TypeOK
    <3>2. left.restart \in Nat /\ left.restart > 0
      BY <1>10, <3>1 DEF Restart
    <3>3. left.restart - 1 \in Nat
      BY <3>2
    <3> QED
      BY <1>10, <3>1, <3>3 DEF Restart
  <2>2. /\ leaderSvcView' \in [LeaderName -> SUBSET LeaderService]
        /\ sliceView' \in [LeaderName -> SUBSET EndpointSlice]
        /\ leaderSvcWatch' \in [LeaderName -> Seq(SUBSET LeaderService)]
        /\ sliceWatch' \in [LeaderName -> Seq(SUBSET EndpointSlice)]
    BY <1>10, EmptySeq DEF Restart, TypeOK
  <2>3. queued' \in BOOLEAN
    <3>1. queued' = TRUE \/ queued' = FALSE
      BY <1>10, Zenon DEF Restart
    <3> QED
      BY <3>1
  <2>4. pc' \in Step /\ loc' \in Locals
    BY <1>10, NoLocalsType DEF Restart, Step
  <2> QED
    BY <1>10, <2>1, <2>2, <2>3, <2>4 DEF Restart, TypeOK
<1> QED
  BY <1>1, <1>2, <1>3, <1>4, <1>5, <1>6, <1>7, <1>8, <1>9, <1>10
  DEF Environment

\* Every variable of the reconciler, the informer, the API server and the
\* cluster always has its type.
THEOREM TypeCorrect == Spec => []TypeOK
<1>1. Init => TypeOK
  BY TypeInit
<1>2. TypeOK /\ [Next]_vars => TypeOK'
  <2>1. TypeOK /\ UNCHANGED vars => TypeOK'
    BY DEF TypeOK, vars, cluster, api, informer
  <2> QED
    BY <2>1, TypeController, TypeInformer, TypeGarbageCollector,
       TypeEnvironment DEF Next
<1> QED
  BY <1>1, <1>2, PTL DEF Spec

-----------------------------------------------------------------------------
(***************************************************************************)
(* Leaders were Ready.  LeaderWasReady is not inductive: a target comes    *)
(* out of the reconcile's copy of the Pods, out of its caches, and out of  *)
(* watch events on their way, so all of these are in the invariant.        *)
(***************************************************************************)

PodsReady ==
    /\ \A p \in pods : IsPodReady(p) => p.uid \in everReady
    /\ \A p \in loc.pods : IsPodReady(p) => p.uid \in everReady

LeaderReady == \A p \in loc.leader : p.uid \in everReady

CacheReady == \A t \in leaderPodCache : t.uid \in everReady

ServicesReady ==
    \A l \in LeaderName : \A o \in leaderSvc[l] : o.leader \subseteq everReady

RoutesReady(S) == \A e \in S : \A t \in e.target : t.uid \in everReady

SlicesReady ==
    \A l \in LeaderName :
        /\ RoutesReady(slice[l])
        /\ RoutesReady(sliceView[l])
        /\ \A i \in 1 .. Len(sliceWatch[l]) : RoutesReady(sliceWatch[l][i])

ReadyInv == PodsReady /\ LeaderReady /\ CacheReady /\ ServicesReady /\ SlicesReady

\* The strengthened invariant gives the property.
LEMMA ReadyInvImplies == ReadyInv => LeaderWasReady
  BY DEF ReadyInv, LeaderWasReady, LeaderReady, CacheReady, ServicesReady,
         SlicesReady, RoutesReady, Uids, Targets

\* A write of a slice whose targets were Ready.
LEMMA PutSliceReady ==
  ASSUME TypeOK, SlicesReady, UNCHANGED <<everReady, sliceView>>,
         NEW l \in LeaderName, NEW new \in SUBSET EndpointSlice,
         RoutesReady(new), PutSlice(l, new)
  PROVE  SlicesReady'
<1>1. /\ slice \in [LeaderName -> SUBSET EndpointSlice]
      /\ sliceWatch \in [LeaderName -> Seq(SUBSET EndpointSlice)]
  BY DEF TypeOK
<1> SUFFICES ASSUME NEW m \in LeaderName
             PROVE  /\ RoutesReady(slice'[m])
                    /\ \A i \in 1 .. Len(sliceWatch'[m]) :
                          RoutesReady(sliceWatch'[m][i])
  BY DEF SlicesReady, RoutesReady
<1>2. RoutesReady(slice'[m])
  BY <1>1 DEF PutSlice, SlicesReady
<1>3. CASE sliceWatch'[m] = sliceWatch[m]
  BY <1>2, <1>3 DEF SlicesReady
<1>4. CASE sliceWatch'[m] = Append(sliceWatch[m], new)
  BY <1>1, <1>2, <1>4, AppendProperties DEF SlicesReady
<1> QED
  BY <1>1, <1>3, <1>4 DEF PutSlice

\* The slice that the reconcile asks for routes to its leader, or where the
\* slice at the API server did before.
LEMMA WantedSliceReady ==
  ASSUME LeaderReady, SlicesReady, NEW l \in LeaderName, NEW owners
  PROVE  RoutesReady(WantedSlice(l, owners))
<1>1. \A t \in NewTarget : t.uid \in everReady
  BY DEF NewTarget, Ref, LeaderReady
<1>2. RoutesReady(NewSlice(owners))
  BY <1>1 DEF RoutesReady, NewSlice
<1>3. RoutesReady(PatchedSlice(l))
  <2> SUFFICES ASSUME NEW e \in slice[l], NEW v \in sliceView[l],
                      NEW t \in PatchSlice(e, v).target
               PROVE  t.uid \in everReady
    BY DEF RoutesReady, PatchedSlice
  <2>1. t \in NewTarget \/ t \in e.target
    BY DEF PatchSlice, Merge
  <2> QED
    BY <1>1, <2>1 DEF SlicesReady, RoutesReady
<1> QED
  BY <1>2, <1>3 DEF WantedSlice

\* A step that writes no slice and forgets no Ready Pod keeps SlicesReady.
LEMMA SlicesReadyUnchanged ==
  ASSUME SlicesReady, everReady \subseteq everReady',
         UNCHANGED <<slice, sliceView, sliceWatch>>
  PROVE  SlicesReady'
  BY DEF SlicesReady, RoutesReady

\* The same for ServicesReady.
LEMMA ServicesReadyUnchanged ==
  ASSUME ServicesReady, everReady \subseteq everReady', UNCHANGED leaderSvc
  PROVE  ServicesReady'
  BY DEF ServicesReady

\* Deletions keep ServicesReady.
LEMMA ServicesReadyDeleted ==
  ASSUME ServicesReady, everReady \subseteq everReady',
         \A l \in LeaderName : leaderSvc'[l] \in {leaderSvc[l], {}}
  PROVE  ServicesReady'
  BY DEF ServicesReady

\* A reconcile that goes on with a leader that was Ready.
LEMMA ReconcileLeaderReady ==
  ASSUME TypeOK, PodsReady, UNCHANGED <<pods, everReady>>,
         NEW leader \in SUBSET Pod, NEW seen, ReconcileLeader(leader, seen),
         \A p \in leader : p.uid \in everReady
  PROVE  PodsReady' /\ LeaderReady'
<1>1. loc \in Locals
  BY DEF TypeOK
<1>2. loc'.pods = loc.pods /\ loc'.leader \subseteq leader
  BY <1>1 DEF ReconcileLeader, Locals
<1> QED
  BY <1>2 DEF PodsReady, LeaderReady

\* The end of a reconcile forgets its Pods and its leader.
LEMMA EndReady ==
  ASSUME PodsReady, UNCHANGED <<pods, everReady>>, Done \/ Fail
  PROVE  PodsReady' /\ LeaderReady'
  BY DEF PodsReady, LeaderReady, Done, Fail, NoLocals

\* The leader Service that the reconcile asks for is annotated with its leader,
\* or as the one at the API server was before.
LEMMA WantedLeaderServiceReady ==
  ASSUME LeaderReady, ServicesReady, TypeOK, NEW l \in LeaderName
  PROVE  \A o \in WantedLeaderService(l) : o.leader \subseteq everReady
<1>1. Uids(loc.leader) \subseteq everReady
  BY DEF Uids, LeaderReady
<1>2. \A o \in NewLeaderService : o.leader \subseteq everReady
  BY <1>1 DEF NewLeaderService
<1>3. \A o \in PatchedLeaderService(l) : o.leader \subseteq everReady
  <2> SUFFICES ASSUME NEW o \in leaderSvc[l], NEW v \in leaderSvcView[l]
               PROVE  PatchLeaderService(o, v).leader \subseteq everReady
    BY DEF PatchedLeaderService
  <2>1. o \in LeaderService
    BY DEF TypeOK
  <2>2. PatchLeaderService(o, v).leader \in {Uids(loc.leader), o.leader}
    BY <2>1 DEF PatchLeaderService, Merge, LeaderService
  <2> QED
    BY <1>1, <2>2 DEF ServicesReady
<1> QED
  BY <1>2, <1>3 DEF WantedLeaderService

\* Every step of the reconciler keeps the invariant.
LEMMA ReadyController == TypeOK /\ ReadyInv /\ Controller => ReadyInv'
<1> SUFFICES ASSUME TypeOK, PodsReady, LeaderReady, CacheReady, ServicesReady,
                    SlicesReady, Controller
             PROVE  ReadyInv'
  BY DEF ReadyInv
<1> USE DEF cluster, api, informer
<1>0. loc \in Locals
  BY DEF TypeOK
<1>1. CASE Reconcile
  <2>1. UNCHANGED <<pods, everReady, leaderSvc, slice, sliceView, sliceWatch,
                    leaderPodCache>>
    BY <1>1 DEF Reconcile
  <2>2. loc' = loc \/ (loc'.pods = {} /\ loc'.leader = {})
    BY <1>1 DEF Reconcile, Fail, NoLocals
  <2>3. PodsReady' /\ LeaderReady' /\ CacheReady'
    BY <2>1, <2>2 DEF PodsReady, LeaderReady, CacheReady
  <2> QED
    BY <2>1, <2>3, SlicesReadyUnchanged, ServicesReadyUnchanged DEF ReadyInv
<1>2. CASE ListPods
  <2> DEFINE found == {p \in pods : \E s \in loc.svc : Selects(s, p)}
  <2>1. UNCHANGED <<pods, everReady, leaderSvc, slice, sliceView, sliceWatch,
                    leaderPodCache>>
    BY <1>2 DEF ListPods
  <2>2. PodsReady' /\ LeaderReady'
    <3>1. CASE ReconcileLeader({}, {})
      BY <2>1, <3>1, ReconcileLeaderReady
    <3>2. CASE loc' = [loc EXCEPT !.pods = found]
      <4>1. loc'.pods \subseteq pods /\ loc'.leader = loc.leader
        BY <1>0, <3>2 DEF Locals
      <4> QED
        BY <2>1, <4>1 DEF PodsReady, LeaderReady
    <3>3. CASE Fail
      BY <2>1, <3>3, EndReady
    <3> QED
      BY <1>2, <3>1, <3>2, <3>3 DEF ListPods
  <2>3. CacheReady'
    BY <2>1 DEF CacheReady
  <2> QED
    BY <2>1, <2>2, <2>3, SlicesReadyUnchanged, ServicesReadyUnchanged
    DEF ReadyInv
<1>3. CASE GetCurrentLeaderPod
  <2>1. UNCHANGED <<pods, everReady, leaderSvc, slice, sliceView, sliceWatch>>
    BY <1>3 DEF GetCurrentLeaderPod
  <2>2. PICK cached \in {Lookup(leaderPodCache), {}},
             seen \in {sliceView[LocalName], {}} :
          \E found \in {Lookup(Targets(seen)), {}} :
             CurrentLeader(cached, seen, found)
    BY <1>3 DEF GetCurrentLeaderPod
  <2>3. PICK found \in {Lookup(Targets(seen)), {}} :
          CurrentLeader(cached, seen, found)
    BY <2>2
  <2>4. loc'.pods = loc.pods /\ loc'.leader = loc.leader
    BY <1>0, <2>3 DEF CurrentLeader, Locals
  <2>5. PodsReady' /\ LeaderReady'
    BY <2>1, <2>4 DEF PodsReady, LeaderReady
  <2>6. CacheReady'
    <3>1. \A t \in Targets(seen) : t.uid \in everReady
      BY LocalNameType DEF Targets, SlicesReady, RoutesReady
    <3>2. \A p \in cached \cup found : p.uid \in everReady
      <4>1. \A R : (\A t \in R : t.uid \in everReady) =>
                      \A p \in Lookup(R) : p.uid \in everReady
        BY DEF Lookup, Ref
      <4>2. \A p \in Lookup(leaderPodCache) : p.uid \in everReady
        BY <4>1 DEF CacheReady
      <4>3. \A p \in Lookup(Targets(seen)) : p.uid \in everReady
        BY <3>1, <4>1
      <4> QED
        BY <4>2, <4>3
    <3>3. \A t \in CacheEntry(cached) \cup CacheEntry(found) :
             t.uid \in everReady
      BY <3>2 DEF CacheEntry, Ref
    <3>4. leaderPodCache' \in {{}, leaderPodCache, CacheEntry(cached),
                               CacheEntry(found)}
      BY <2>3 DEF CurrentLeader
    <3> QED
      BY <2>1, <3>3, <3>4 DEF CacheReady
  <2> QED
    BY <2>1, <2>5, <2>6, SlicesReadyUnchanged, ServicesReadyUnchanged
    DEF ReadyInv
<1>4. CASE SelectLeader
  <2>1. UNCHANGED <<pods, everReady, leaderSvc, slice, sliceView, sliceWatch>>
    BY <1>4 DEF SelectLeader
  <2>2. PICK seen : Select(seen)
    BY <1>4 DEF SelectLeader
  <2> DEFINE leader == SelectLeaderPod(loc.pods, seen, loc.bypass)
  <2>3. leader \in SUBSET Pod /\ \A p \in leader : p.uid \in everReady
    BY <1>0, SelectedFromList DEF PodsReady, Locals
  <2>4. PodsReady' /\ LeaderReady'
    BY <2>1, <2>2, <2>3, ReconcileLeaderReady DEF Select
  <2>5. CacheReady'
    <3>1. \A t \in CacheEntry(leader) : t.uid \in everReady
      BY <2>3 DEF CacheEntry, Ref
    <3> QED
      BY <2>1, <2>2, <3>1 DEF Select, CacheReady
  <2> QED
    BY <2>1, <2>4, <2>5, SlicesReadyUnchanged, ServicesReadyUnchanged
    DEF ReadyInv
<1>5. CASE DeleteUnresolvedSlice
  <2>1. UNCHANGED <<pods, everReady, leaderSvc, sliceView, leaderPodCache, loc>>
    BY <1>5 DEF DeleteUnresolvedSlice
  <2>2. PodsReady' /\ LeaderReady' /\ CacheReady'
    BY <2>1 DEF PodsReady, LeaderReady, CacheReady
  <2>3. SlicesReady'
    <3>1. CASE PutSlice(LocalName, {})
      <4>1. RoutesReady({})
        BY DEF RoutesReady
      <4> QED
        BY <2>1, <3>1, <4>1, LocalNameType, PutSliceReady
    <3>2. CASE UNCHANGED <<slice, sliceWatch>>
      BY <2>1, <3>2, SlicesReadyUnchanged
    <3> QED
      BY <1>5, <3>1, <3>2 DEF DeleteUnresolvedSlice
  <2> QED
    BY <2>1, <2>2, <2>3, ServicesReadyUnchanged DEF ReadyInv
<1>6. CASE ReconcileLeaderService
  <2>1. UNCHANGED <<pods, everReady, slice, sliceView, sliceWatch, leaderPodCache>>
    BY <1>6 DEF ReconcileLeaderService
  <2>2. PodsReady' /\ LeaderReady'
    <3>1. CASE Fail
      BY <2>1, <3>1, EndReady
    <3>2. CASE UNCHANGED loc
      BY <2>1, <3>2 DEF PodsReady, LeaderReady
    <3> QED
      BY <1>6, <3>1, <3>2 DEF ReconcileLeaderService
  <2>3. CacheReady'
    BY <2>1 DEF CacheReady
  <2>4. ServicesReady'
    <3>1. CASE WriteLeaderService(LocalName)
      <4>1. PutLeaderService(LocalName, WantedLeaderService(LocalName))
        BY <3>1 DEF WriteLeaderService
      <4>2. \A l \in LeaderName :
               leaderSvc'[l] \in {leaderSvc[l], WantedLeaderService(LocalName)}
        BY <4>1 DEF PutLeaderService, TypeOK
      <4> QED
        BY <2>1, <4>2, LocalNameType, WantedLeaderServiceReady DEF ServicesReady
    <3>2. CASE UNCHANGED leaderSvc
      BY <2>1, <3>2, ServicesReadyUnchanged
    <3> QED
      BY <1>6, <3>1, <3>2 DEF ReconcileLeaderService
  <2> QED
    BY <2>1, <2>2, <2>3, <2>4, SlicesReadyUnchanged DEF ReadyInv
<1>7. CASE ReconcileEndpointSlice
  <2>1. UNCHANGED <<pods, everReady, leaderSvc, sliceView, leaderPodCache>>
    BY <1>7 DEF ReconcileEndpointSlice
  <2>2. PodsReady' /\ LeaderReady'
    BY <1>7, <2>1, EndReady DEF ReconcileEndpointSlice
  <2>3. CacheReady'
    BY <2>1 DEF CacheReady
  <2>4. SlicesReady'
    <3>1. ASSUME NEW owners \in SUBSET LeaderService,
                 WriteSlice(LocalName, owners)
          PROVE  SlicesReady'
      BY <2>1, <3>1, LocalNameType, WantedSliceReady, WantedSliceType,
         PutSliceReady DEF WriteSlice
    <3>2. CASE UNCHANGED <<slice, sliceWatch>>
      BY <2>1, <3>2, SlicesReadyUnchanged
    <3>3. leaderSvcView[LocalName] \in SUBSET LeaderService
      BY LocalNameType DEF TypeOK
    <3> QED
      BY <1>7, <3>1, <3>2, <3>3 DEF ReconcileEndpointSlice
  <2> QED
    BY <2>1, <2>2, <2>3, <2>4, ServicesReadyUnchanged DEF ReadyInv
<1>8. CASE CleanupLeaderResources
  <2>1. UNCHANGED <<pods, everReady, slice, sliceView, sliceWatch, leaderPodCache>>
    BY <1>8 DEF CleanupLeaderResources
  <2>2. PodsReady' /\ LeaderReady'
    BY <1>8, <2>1, EndReady
    DEF CleanupLeaderResources, CleanupByName, CleanupByLabel
  <2>3. CacheReady'
    BY <2>1 DEF CacheReady
  <2>4. \A l \in LeaderName : leaderSvc'[l] \in {leaderSvc[l], {}}
    <3>1. ASSUME NEW D, CleanupByLabel(D)
          PROVE  <2>4
      BY <3>1 DEF CleanupByLabel
    <3>2. ASSUME NEW s \in svc, CleanupByName(GetLeaderServiceName(s))
          PROVE  <2>4
      BY <3>2 DEF CleanupByName, PutLeaderService, TypeOK
    <3> QED
      BY <1>8, <3>1, <3>2 DEF CleanupLeaderResources
  <2> QED
    BY <2>1, <2>2, <2>3, <2>4, SlicesReadyUnchanged, ServicesReadyDeleted
    DEF ReadyInv
<1> QED
  BY <1>1, <1>2, <1>3, <1>4, <1>5, <1>6, <1>7, <1>8 DEF Controller

\* The invariant holds before any reconcile: nothing has been routed.
LEMMA ReadyInit == Init => ReadyInv
<1> SUFFICES ASSUME Init PROVE ReadyInv
  OBVIOUS
<1>1. PodsReady /\ LeaderReady /\ CacheReady
  BY DEF Init, PodsReady, LeaderReady, CacheReady, NoLocals, Uids
<1>2. ServicesReady
  BY DEF Init, ServicesReady, UserService
<1>3. SlicesReady
  BY DEF Init, SlicesReady, RoutesReady
<1> QED
  BY <1>1, <1>2, <1>3 DEF ReadyInv

\* A delivery moves a version of a slice from the watch to the informer.
LEMMA ReadyInformer == TypeOK /\ ReadyInv /\ Informer => ReadyInv'
<1> SUFFICES ASSUME TypeOK, PodsReady, LeaderReady, CacheReady, ServicesReady,
                    SlicesReady, NEW l \in LeaderName,
                    DeliverLeaderService(l) \/ DeliverEndpointSlice(l)
             PROVE  ReadyInv'
  BY DEF ReadyInv, Informer
<1> USE DEF cluster, api
<1>1. UNCHANGED <<pods, everReady, leaderSvc, slice, leaderPodCache, loc>>
  BY DEF DeliverLeaderService, DeliverEndpointSlice
<1>2. PodsReady' /\ LeaderReady' /\ CacheReady' /\ ServicesReady'
  BY <1>1 DEF PodsReady, LeaderReady, CacheReady, ServicesReady
<1>3. CASE DeliverLeaderService(l)
  BY <1>1, <1>2, <1>3, SlicesReadyUnchanged DEF DeliverLeaderService, ReadyInv
<1>4. CASE DeliverEndpointSlice(l)
  <2> DEFINE w == sliceWatch[l]
  <2>1. w \in Seq(SUBSET EndpointSlice) /\ w # <<>>
    BY <1>4 DEF TypeOK, DeliverEndpointSlice
  <2>2. /\ Len(w) \in Nat /\ Len(w) # 0
        /\ Head(w) = w[1]
        /\ Len(Tail(w)) = Len(w) - 1
        /\ \A i \in 1 .. Len(Tail(w)) : Tail(w)[i] = w[i + 1]
    BY <2>1, HeadTailProperties, EmptySeq, LenProperties
  <2>3. /\ sliceView'[l] = Head(w) /\ sliceWatch'[l] = Tail(w)
        /\ \A m \in LeaderName \ {l} : /\ sliceView'[m] = sliceView[m]
                                      /\ sliceWatch'[m] = sliceWatch[m]
    BY <1>4 DEF TypeOK, DeliverEndpointSlice
  <2>4. RoutesReady(sliceView'[l])
    BY <2>2, <2>3 DEF SlicesReady
  <2>5. ASSUME NEW i \in 1 .. Len(Tail(w))
        PROVE  RoutesReady(Tail(w)[i])
    BY <2>2 DEF SlicesReady
  <2>6. \A m \in LeaderName :
           /\ RoutesReady(slice[m])
           /\ RoutesReady(sliceView'[m])
           /\ \A i \in 1 .. Len(sliceWatch'[m]) : RoutesReady(sliceWatch'[m][i])
    BY <2>3, <2>4, <2>5 DEF SlicesReady
  <2> QED
    BY <1>1, <1>2, <2>6 DEF ReadyInv, SlicesReady, RoutesReady
<1> QED
  BY <1>3, <1>4

\* The garbage collector only deletes.
LEMMA ReadyGarbageCollector == TypeOK /\ ReadyInv /\ GarbageCollector => ReadyInv'
<1> SUFFICES ASSUME TypeOK, PodsReady, LeaderReady, CacheReady, ServicesReady,
                    SlicesReady, NEW l \in LeaderName,
                    CollectLeaderService(l) \/ CollectEndpointSlice(l)
             PROVE  ReadyInv'
  BY DEF ReadyInv, GarbageCollector
<1> USE DEF cluster
<1>1. UNCHANGED <<pods, everReady, sliceView, leaderPodCache, loc>>
  BY DEF CollectLeaderService, CollectEndpointSlice
<1>2. PodsReady' /\ LeaderReady' /\ CacheReady'
  BY <1>1 DEF PodsReady, LeaderReady, CacheReady
<1>3. CASE CollectLeaderService(l)
  <2>1. UNCHANGED <<slice, sliceWatch>>
    BY <1>3 DEF CollectLeaderService
  <2>2. \A m \in LeaderName : leaderSvc'[m] \in {leaderSvc[m], {}}
    BY <1>3 DEF CollectLeaderService, PutLeaderService, TypeOK
  <2> QED
    BY <1>1, <1>2, <2>1, <2>2, SlicesReadyUnchanged, ServicesReadyDeleted
    DEF ReadyInv
<1>4. CASE CollectEndpointSlice(l)
  <2>1. RoutesReady({})
    BY DEF RoutesReady
  <2>2. SlicesReady'
    BY <1>1, <1>4, <2>1, PutSliceReady DEF CollectEndpointSlice
  <2>3. ServicesReady'
    BY <1>1, <1>4 DEF CollectEndpointSlice, ServicesReady
  <2> QED
    BY <1>2, <2>2, <2>3 DEF ReadyInv
<1> QED
  BY <1>3, <1>4

\* A step of the environment that leaves the API server, the slices in the
\* informer and the reconcile alone, and records the Pods that become Ready.
LEMMA ReadyPodEvent ==
  ASSUME ReadyInv, everReady \subseteq everReady',
         \A p \in pods' : IsPodReady(p) => p.uid \in everReady',
         UNCHANGED <<leaderSvc, slice, sliceView, sliceWatch, leaderPodCache,
                     loc>>
  PROVE  ReadyInv'
<1>1. PodsReady' /\ LeaderReady' /\ CacheReady'
  BY DEF ReadyInv, PodsReady, LeaderReady, CacheReady
<1> QED
  BY <1>1, SlicesReadyUnchanged, ServicesReadyUnchanged DEF ReadyInv

\* A restart forgets the reconcile and its caches; the informers start from what
\* the API server holds, or go on.
LEMMA ReadyRestart == TypeOK /\ ReadyInv /\ Restart => ReadyInv'
<1> SUFFICES ASSUME TypeOK, PodsReady, LeaderReady, CacheReady, ServicesReady,
                    SlicesReady, Restart
             PROVE  ReadyInv'
  BY DEF ReadyInv
<1>1. UNCHANGED <<pods, everReady, leaderSvc, slice>>
  BY DEF Restart, cluster, api
<1>2. PodsReady' /\ LeaderReady' /\ CacheReady' /\ ServicesReady'
  BY <1>1 DEF Restart, NoLocals, PodsReady, LeaderReady, CacheReady,
              ServicesReady
<1>3. SlicesReady'
  <2>1. CASE \A l \in LeaderName :
                sliceView'[l] = slice[l] /\ sliceWatch'[l] = <<>>
    BY <1>1, <2>1 DEF SlicesReady, RoutesReady
  <2>2. CASE UNCHANGED <<sliceView, sliceWatch>>
    BY <1>1, <2>2, SlicesReadyUnchanged
  <2> QED
    BY <2>1, <2>2 DEF Restart, informer
<1> QED
  BY <1>2, <1>3 DEF ReadyInv

\* What Pods, users and time do keeps the invariant.
LEMMA ReadyEnvironment == TypeOK /\ ReadyInv /\ Environment => ReadyInv'
<1> SUFFICES ASSUME TypeOK, ReadyInv, Environment PROVE ReadyInv'
  OBVIOUS
<1> USE DEF cluster, api, informer
<1>0. \A p \in pods : p \in Pod /\ (IsPodReady(p) => p.uid \in everReady)
  BY DEF ReadyInv, PodsReady, TypeOK
<1>1. CASE PodUpdated
  <2>1. everReady' = everReady \cup {p.uid : p \in {q \in pods' : IsPodReady(q)}}
    BY <1>1 DEF PodUpdated, Uids
  <2>2. UNCHANGED <<leaderSvc, slice, sliceView, sliceWatch, leaderPodCache, loc>>
    BY <1>1 DEF PodUpdated
  <2> QED
    BY <2>1, <2>2, ReadyPodEvent
<1>2. CASE PodCreated
  <2>1. UNCHANGED <<everReady, leaderSvc, slice, sliceView, sliceWatch,
                    leaderPodCache, loc>>
    BY <1>2 DEF PodCreated
  <2>2. \A p \in pods' : IsPodReady(p) => p \in pods
    BY <1>2 DEF PodCreated, NewPod, IsPodReady
  <2> QED
    BY <1>0, <2>1, <2>2, ReadyPodEvent
<1>3. CASE PodDeleted
  <2>1. UNCHANGED <<everReady, leaderSvc, slice, sliceView, sliceWatch,
                    leaderPodCache, loc>>
    BY <1>3 DEF PodDeleted
  <2>2. pods' \subseteq pods
    BY <1>3 DEF PodDeleted
  <2> QED
    BY <1>0, <2>1, <2>2, ReadyPodEvent
<1>4. CASE PodMatures
  <2>1. UNCHANGED <<everReady, leaderSvc, slice, sliceView, sliceWatch,
                    leaderPodCache, loc>>
    BY <1>4 DEF PodMatures
  <2>2. PICK p \in pods :
           /\ IsPodReady(p)
           /\ pods' = (pods \ {p}) \cup {[p EXCEPT !.mature = TRUE]}
    BY <1>4 DEF PodMatures
  <2>3. [p EXCEPT !.mature = TRUE].uid = p.uid
    BY <1>0 DEF Pod
  <2> QED
    BY <1>0, <2>1, <2>2, <2>3, ReadyPodEvent
<1>5. CASE ServiceUpdated \/ ServiceDeleted \/ ServiceCreated \/ Resync
  <2>1. UNCHANGED <<pods, everReady, leaderSvc, slice, sliceView, sliceWatch,
                    leaderPodCache, loc>>
    BY <1>5 DEF ServiceUpdated, ServiceDeleted, ServiceCreated, Resync
  <2> QED
    BY <1>0, <2>1, ReadyPodEvent
<1>6. CASE CacheExpires
  <2>1. UNCHANGED <<pods, everReady, leaderSvc, slice, sliceView, sliceWatch, loc>>
    BY <1>6 DEF CacheExpires
  <2>2. PodsReady' /\ LeaderReady' /\ CacheReady'
    BY <1>6, <2>1
    DEF CacheExpires, ReadyInv, PodsReady, LeaderReady, CacheReady
  <2> QED
    BY <2>1, <2>2, SlicesReadyUnchanged, ServicesReadyUnchanged DEF ReadyInv
<1>7. CASE Restart
  BY <1>7, ReadyRestart
<1> QED
  BY <1>1, <1>2, <1>3, <1>4, <1>5, <1>6, <1>7 DEF Environment

\* No slice, annotation or cache ever names a Pod that was never Ready, in
\* every execution and for every cluster: getCurrentLeaderPod, selectLeaderPod
\* and the merge patches never turn a stale or unready Pod into a leader.
THEOREM LeadersWereReady == Spec => []LeaderWasReady
<1>1. Init => TypeOK /\ ReadyInv
  BY TypeInit, ReadyInit
<1>2. TypeOK /\ ReadyInv /\ [Next]_vars => (TypeOK /\ ReadyInv)'
  <2>1. TypeOK /\ ReadyInv /\ UNCHANGED vars => (TypeOK /\ ReadyInv)'
    BY DEF TypeOK, vars, cluster, api, informer, ReadyInv, PodsReady,
           LeaderReady, CacheReady, ServicesReady, SlicesReady, RoutesReady
  <2> QED
    BY <2>1, TypeController, TypeInformer, TypeGarbageCollector,
       TypeEnvironment, ReadyController, ReadyInformer, ReadyGarbageCollector,
       ReadyEnvironment DEF Next
<1>3. TypeOK /\ ReadyInv => LeaderWasReady
  BY ReadyInvImplies
<1> QED
  BY <1>1, <1>2, <1>3, PTL DEF Spec

-----------------------------------------------------------------------------

\* The only writes of a slice are the reconciler's last one and deletions.
LEMMA SliceWrites ==
  ASSUME TypeOK, Next, NEW m \in LeaderName
  PROVE  \/ slice'[m] \in {slice[m], {}}
         \/ /\ pc = "slice" /\ pc' = "idle" /\ m = LocalName
            /\ \E owners \in SUBSET LeaderService : WriteSlice(m, owners)
<1>0. slice \in [LeaderName -> SUBSET EndpointSlice]
  BY DEF TypeOK
<1>1. ASSUME NEW l \in LeaderName, PutSlice(l, {})
      PROVE  slice'[m] \in {slice[m], {}}
  BY <1>0, <1>1 DEF PutSlice
<1>2. CASE ReconcileEndpointSlice
  <2>1. ASSUME NEW owners \in SUBSET LeaderService,
               WriteSlice(LocalName, owners), m # LocalName
        PROVE  slice'[m] = slice[m]
    BY <1>0, <2>1 DEF WriteSlice, PutSlice
  <2>2. leaderSvcView[LocalName] \in SUBSET LeaderService
    BY LocalNameType DEF TypeOK
  <2>3. pc = "slice" /\ pc' = "idle"
    BY <1>2 DEF ReconcileEndpointSlice, Done, Fail
  <2>4. \/ slice' = slice
        \/ \E owners \in SUBSET LeaderService : WriteSlice(LocalName, owners)
    BY <1>2, <2>2 DEF ReconcileEndpointSlice
  <2> QED
    BY <2>1, <2>3, <2>4
<1>3. CASE Controller
  <2>1. CASE DeleteUnresolvedSlice
    BY <1>1, <2>1, LocalNameType DEF DeleteUnresolvedSlice
  <2>2. CASE ReconcileEndpointSlice
    BY <1>2, <2>2
  <2>3. CASE Controller /\ ~DeleteUnresolvedSlice /\ ~ReconcileEndpointSlice
    BY <2>3 DEF Controller, Reconcile, ListPods, GetCurrentLeaderPod,
                SelectLeader, ReconcileLeaderService, CleanupLeaderResources,
                api
  <2> QED
    BY <1>3, <2>1, <2>2, <2>3
<1>4. CASE Informer
  BY <1>4 DEF Informer, DeliverLeaderService, DeliverEndpointSlice, api
<1>5. CASE GarbageCollector
  BY <1>1, <1>5 DEF GarbageCollector, CollectLeaderService, CollectEndpointSlice
<1>6. CASE Environment
  BY <1>6 DEF Environment, PodUpdated, PodCreated, PodDeleted, PodMatures,
              ServiceUpdated, ServiceDeleted, ServiceCreated, CacheExpires,
              Resync, Restart, api
<1> QED
  BY <1>3, <1>4, <1>5, <1>6 DEF Next

=============================================================================
