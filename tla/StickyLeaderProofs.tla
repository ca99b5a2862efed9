------------------------- MODULE StickyLeaderProofs -------------------------
(***************************************************************************)
(* A Ready leader stays: the reconciler replaces it in the slice only when *)
(* it bypassed stickiness, or its selection did not see this leader in the *)
(* slice.                                                                  *)
(*                                                                         *)
(* The selection and the write are steps of their own, with everything     *)
(* else in between, so the invariant carries what the selection made of    *)
(* the endpoints that it saw (StickyInv).  The write is a merge patch from *)
(* another copy, which may have changed since: it either leaves the target *)
(* of the slice alone or sets the selected Pod.                            *)
(***************************************************************************)
EXTENDS LeaderRoutingProofs

LeaderChosen == {"unresolved", "service", "slice"}

\* The Pod that stickiness keeps, for the reconcile in progress.
KeptPod == Kept(loc.pods, loc.seen)

StickyInv ==
    (pc \in LeaderChosen /\ Sticky /\ ~loc.bypass) =>
        KeptPod = {} \/ loc.leader = {} \/ loc.leader = KeptPod

-----------------------------------------------------------------------------

\* A step that is not one of the reconciler leaves the reconcile in progress
\* alone, or ends it in a crash; it never takes the source Service off the work
\* queue, and what changes the source Service or the informer's copy of a slice
\* adds it.
LEMMA BackgroundSteps ==
  ASSUME TypeOK, Informer \/ GarbageCollector \/ Environment
  PROVE  \/ Restart
         \/ /\ UNCHANGED <<pc, loc>>
            /\ queued => queued'
            /\ queued' \/ UNCHANGED <<svc, sliceView>>
<1> USE DEF cluster, api, informer
<1>1. CASE Informer
  BY <1>1 DEF Informer, DeliverLeaderService, DeliverEndpointSlice
<1>2. CASE GarbageCollector
  BY <1>2 DEF GarbageCollector, CollectLeaderService, CollectEndpointSlice
<1>3. CASE PodUpdated \/ PodCreated \/ PodDeleted
  BY <1>3 DEF PodUpdated, PodCreated, PodDeleted, MapPodToService
<1>4. CASE Environment /\ ~(PodUpdated \/ PodCreated \/ PodDeleted)
  BY <1>4 DEF Environment, PodMatures, ServiceUpdated, ServiceDeleted,
              ServiceCreated, CacheExpires, Resync
<1> QED
  BY <1>1, <1>2, <1>3, <1>4 DEF Environment

LEMMA LocalNameStays ==
  loc'.svc = loc.svc => Source' = Source /\ LocalName' = LocalName
  BY DEF Source, LocalName

\* Between the selection and the write of the slice nothing is selected anew.
LEMMA AfterSelection ==
  ASSUME TypeOK, Controller, pc' \in LeaderChosen, pc \in LeaderChosen
  PROVE  UNCHANGED <<loc, sliceView, queued, svc, pods>>
<1> USE DEF cluster, api, informer, LeaderChosen
<1>1. CASE DeleteUnresolvedSlice
  BY <1>1 DEF DeleteUnresolvedSlice
<1>2. CASE ReconcileLeaderService
  BY <1>2 DEF ReconcileLeaderService, Fail
<1>3. CASE ReconcileEndpointSlice
  BY <1>3 DEF ReconcileEndpointSlice, Done, Fail
<1>4. CASE CleanupLeaderResources
  BY <1>4 DEF CleanupLeaderResources
<1>5. CASE Reconcile \/ ListPods \/ GetCurrentLeaderPod \/ SelectLeader
  BY <1>5 DEF Reconcile, ListPods, GetCurrentLeaderPod, SelectLeader, Fail
<1> QED
  BY <1>1, <1>2, <1>3, <1>4, <1>5 DEF Controller

\* A leader is chosen by the selection, or there is none because there are no
\* Pods.
LEMMA SelectionSteps ==
  ASSUME TypeOK, Controller, pc' \in LeaderChosen, pc \notin LeaderChosen
  PROVE  \/ SelectLeader
         \/ ListPods /\ ReconcileLeader({}, {})
<1> USE DEF LeaderChosen
<1>1. CASE Reconcile \/ GetCurrentLeaderPod
  BY <1>1 DEF Reconcile, GetCurrentLeaderPod, Fail
<1>2. CASE ListPods
  BY <1>2 DEF ListPods, Fail
<1>3. CASE CleanupLeaderResources
  BY <1>3 DEF CleanupLeaderResources, CleanupByName, CleanupByLabel, Done, Fail
<1>4. CASE DeleteUnresolvedSlice \/ ReconcileLeaderService
              \/ ReconcileEndpointSlice
  BY <1>4 DEF DeleteUnresolvedSlice, ReconcileLeaderService,
              ReconcileEndpointSlice
<1> QED
  BY <1>1, <1>2, <1>3, <1>4 DEF Controller

\* What the selection hands on: its leader, or none if the ports do not resolve
\* for it.
LEMMA SelectLeaderLocals ==
  ASSUME TypeOK, SelectLeader
  PROVE  \E seen \in {Targets(sliceView[LocalName]), {}} :
            LET leader == SelectLeaderPod(loc.pods, seen, loc.bypass)
            IN  /\ ReconcileLeader(leader, seen)
                /\ loc'.svc = loc.svc /\ loc'.pods = loc.pods
                /\ loc'.bypass = loc.bypass /\ loc'.seen = seen
                /\ \/ /\ loc'.leader = leader
                      /\ loc'.ports = ResolveServicePorts(Source, leader)
                   \/ ~PortsResolve(Source, leader) /\ loc'.leader = {}
<1>1. PICK seen \in {Targets(sliceView[LocalName]), {}} : Select(seen)
  BY DEF SelectLeader
<1> DEFINE leader == SelectLeaderPod(loc.pods, seen, loc.bypass)
<1>2. loc \in Locals /\ ReconcileLeader(leader, seen)
  BY <1>1 DEF TypeOK, Select
<1> HIDE DEF leader
<1>3. /\ loc'.svc = loc.svc /\ loc'.pods = loc.pods
      /\ loc'.bypass = loc.bypass /\ loc'.seen = seen
      /\ \/ /\ loc'.leader = leader
            /\ loc'.ports = ResolveServicePorts(Source, leader)
         \/ ~PortsResolve(Source, leader) /\ loc'.leader = {}
  BY <1>2 DEF ReconcileLeader, Locals
<1> QED
  BY <1>2, <1>3 DEF leader

\* With stickiness that is the Pod to be kept, if there is one.
LEMMA SelectLeaderSticky ==
  ASSUME TypeOK, SelectLeader
  PROVE  StickyInv'
<1>1. PICK seen \in {Targets(sliceView[LocalName]), {}} :
         /\ loc'.pods = loc.pods
         /\ loc'.bypass = loc.bypass /\ loc'.seen = seen
         /\ \/ loc'.leader = SelectLeaderPod(loc.pods, seen, loc.bypass)
            \/ loc'.leader = {}
  BY SelectLeaderLocals
<1>2. KeptPod' = Kept(loc.pods, seen)
  BY <1>1 DEF KeptPod
<1>3. Sticky /\ ~loc.bypass =>
         \/ Kept(loc.pods, seen) = {}
         \/ SelectLeaderPod(loc.pods, seen, loc.bypass) = Kept(loc.pods, seen)
  BY DEF SelectLeaderPod
<1> QED
  BY <1>1, <1>2, <1>3 DEF StickyInv

LEMMA StickyInvNext ==
  ASSUME TypeOK, StickyInv, Next
  PROVE  StickyInv'
<1>1. CASE UNCHANGED <<pc, loc>>
  BY <1>1 DEF StickyInv, KeptPod
<1>2. CASE Controller
  <2> SUFFICES ASSUME pc' \in LeaderChosen
               PROVE  StickyInv'
    BY DEF StickyInv
  <2>1. CASE pc \in LeaderChosen
    <3>1. UNCHANGED loc
      BY <1>2, <2>1, AfterSelection
    <3> QED
      BY <2>1, <3>1 DEF StickyInv, KeptPod
  <2>2. CASE ListPods /\ ReconcileLeader({}, {})
    <3>1. loc'.leader = {}
      BY <2>2 DEF ReconcileLeader, TypeOK, Locals
    <3> QED
      BY <3>1 DEF StickyInv
  <2> QED
    BY <1>2, <2>1, <2>2, SelectionSteps, SelectLeaderSticky
<1>3. CASE Restart
  BY <1>3 DEF Restart, StickyInv, LeaderChosen
<1> QED
  BY <1>1, <1>2, <1>3, BackgroundSteps DEF Next

-----------------------------------------------------------------------------

StickyRoutingInv == RoutingInv /\ StickyInv

LEMMA StickyInvariant == Spec => []StickyRoutingInv
<1>1. Init => StickyInv
  BY DEF Init, StickyInv, LeaderChosen
<1>2. RoutingInv /\ StickyInv /\ [Next]_vars => StickyInv'
  <2>1. CASE Next
    BY <2>1, StickyInvNext DEF RoutingInv
  <2>2. CASE UNCHANGED vars
    BY <2>2 DEF vars, StickyInv, KeptPod
  <2> QED
    BY <2>1, <2>2
<1> QED
  BY <1>1, <1>2, RoutingInvariant, PTL DEF Spec, StickyRoutingInv

\* The last write of a reconcile routes to the Pod that the slice routed to, if
\* the selection saw it there and Ready.
LEMMA WriteKeepsLeader ==
  ASSUME StickyRoutingInv, StrictAPI, Sticky, ~loc.bypass, pc = "slice",
         NEW l \in LeaderName, NEW owners, WriteSlice(l, owners),
         NEW e \in slice[l], NEW f \in slice'[l], loc.seen = e.target,
         NEW p \in loc.pods, IsPodReady(p), Ref(p) \in e.target
  PROVE  f.target = e.target
<1>0. slice \in [LeaderName -> SUBSET EndpointSlice] /\ Single(slice[l])
  BY DEF StickyRoutingInv, RoutingInv, TypeOK, SlicesSingle
<1>1. e.target = {Ref(p)}
  BY <1>0 DEF Single
<1>2. f \in PatchedSlice(l) /\ f.target # {}
  BY <1>0 DEF WriteSlice, SliceAccepted, PutSlice, ValidSlice, WantedSlice
<1>3. PICK d \in slice[l], v \in sliceView[l] : f = PatchSlice(d, v)
  BY <1>2 DEF PatchedSlice
<1>4. f.target = Merge(v.target, NewTarget, d.target)
  BY <1>0, <1>3 DEF PatchSlice, EndpointSlice
<1>5. CASE f.target = d.target
  BY <1>0, <1>5 DEF Single
<1>6. CASE f.target = NewTarget
  <2>1. p \in KeptPod
    BY DEF KeptPod, Kept, Uids, Ref
  <2>2. loc.leader = KeptPod
    BY <1>2, <1>6, <2>1
    DEF StickyRoutingInv, StickyInv, LeaderChosen, NewTarget
  <2>3. NewTarget \subseteq {Ref(p)}
    BY <2>1, <2>2 DEF StickyRoutingInv, RoutingInv, LeaderSingle, NewTarget
  <2> QED
    BY <1>1, <1>2, <1>6, <2>3
<1> QED
  BY <1>4, <1>5, <1>6 DEF Merge

LEMMA StickyStep ==
  ASSUME StickyRoutingInv, StrictAPI, [Next]_vars
  PROVE  [StickyLeader]_vars
<1> SUFFICES ASSUME Next,
                    NEW l \in LeaderName, NEW e \in slice[l], NEW f \in slice'[l],
                    e.target # {}, f.target # e.target,
                    Sticky, ~loc.bypass, loc.seen = e.target,
                    NEW p \in loc.pods, Ref(p) \in e.target, IsPodReady(p)
             PROVE  FALSE
  BY DEF StickyLeader
<1>1. slice'[l] # slice[l] /\ slice'[l] # {}
  BY DEF StickyRoutingInv, RoutingInv, SlicesSingle, Single
<1>2. PICK owners : pc = "slice" /\ WriteSlice(l, owners)
  BY <1>1, SliceWrites DEF StickyRoutingInv, RoutingInv
<1> QED
  BY <1>2, WriteKeepsLeader

\* Once the API server validates what it is sent, a leader that the reconcile
\* saw Ready is not replaced, for any Pods, Services, lags, faults and crashes,
\* unless stickiness was bypassed (its current leader was terminating, not
\* Ready or without address) or the selection did not see this leader in the
\* slice: its Get failed, or the informer had another version
\* (selectLeaderPod, reconcileEndpointSlice).
THEOREM ReadyLeaderStays ==
  ASSUME StrictAPI
  PROVE  Spec => StickyLeaderStays
<1>1. StickyRoutingInv /\ [Next]_vars => [StickyLeader]_vars
  BY StickyStep
<1> QED
  BY <1>1, StickyInvariant, PTL DEF StickyLeaderStays, Spec

=============================================================================
