------------------------- MODULE LeaderRoutingProofs -------------------------
(***************************************************************************)
(* ServiceDirector implements LeaderRouting, for all values of its         *)
(* constants.  At most one leader is chosen, and at most one Pod is routed *)
(* to; the second is not inductive by itself: a sticky leader comes from   *)
(* the informer's copy of a slice, so all copies are in the invariant, and *)
(* a copy names a Pod by its UID, so no two Pods have the same one.        *)
(***************************************************************************)
EXTENDS ServiceDirectorProofs

LeaderSingle == \A p, q \in loc.leader : p = q

\* A UID is that of one Pod.
Distinct(P) == \A p, q \in P : p.uid = q.uid => p = q

PodsDistinct ==
    /\ Distinct(pods)
    /\ \A p \in pods : p.uid < nextPodUid
    /\ Distinct(loc.pods)

\* All that S holds routes to one and the same Pod, or to none.
Single(S) ==
    /\ \A e, f \in S : e.target = f.target
    /\ \A e \in S : \A t, u \in e.target : t = u

SlicesSingle ==
    \A l \in LeaderName :
        /\ Single(slice[l])
        /\ Single(sliceView[l])
        /\ \A i \in 1 .. Len(sliceWatch[l]) : Single(sliceWatch[l][i])

\* The list of a reconcile is one of Pods that are there; otherwise it stays, or
\* is forgotten.
LEMMA ListedPods ==
  ASSUME TypeOK, Next
  PROVE  \/ loc'.pods = loc.pods
         \/ loc'.pods = {}
         \/ loc'.pods \subseteq pods /\ pods' = pods
<1>0. loc \in Locals
  BY DEF TypeOK
<1>1. CASE Done \/ Fail
  BY <1>1 DEF Done, Fail, NoLocals
<1>2. CASE Controller
  <2>1. CASE Reconcile \/ DeleteUnresolvedSlice
    BY <1>1, <2>1 DEF Reconcile, DeleteUnresolvedSlice, NoLocals
  <2>2. CASE ListPods \/ SelectLeader
    BY <1>0, <1>1, <2>2
    DEF ListPods, SelectLeader, Select, ReconcileLeader, Locals, cluster
  <2>3. CASE ReconcileLeaderService \/ ReconcileEndpointSlice
    BY <1>1, <2>3 DEF ReconcileLeaderService, ReconcileEndpointSlice
  <2>4. CASE CleanupLeaderResources
    BY <1>1, <2>4 DEF CleanupLeaderResources, CleanupByName, CleanupByLabel
  <2> QED
    BY <1>2, <2>1, <2>2, <2>3, <2>4, CurrentLeaderLocals DEF Controller
<1>3. CASE Informer
  BY <1>3 DEF Informer, DeliverLeaderService, DeliverEndpointSlice
<1>4. CASE GarbageCollector
  BY <1>4 DEF GarbageCollector, CollectLeaderService, CollectEndpointSlice
<1>5. CASE Environment
  BY <1>5 DEF Environment, PodUpdated, PodCreated, PodDeleted, PodMatures,
              ServiceUpdated, ServiceDeleted, ServiceCreated, CacheExpires,
              Resync, Restart, NoLocals
<1> QED
  BY <1>2, <1>3, <1>4, <1>5 DEF Next

\* What a step does to the Pods: one of them is replaced by a later version of
\* itself, or a Pod with a new UID joins them, or some go.
LEMMA PodSteps ==
  ASSUME Next
  PROVE  \/ /\ nextPodUid' = nextPodUid
            /\ \E p \in pods : \E q :
                  /\ pods' = (pods \ {p}) \cup {q}
                  /\ q \in Updates(p) \cup {[p EXCEPT !.mature = TRUE]}
         \/ /\ nextPodUid' = nextPodUid + 1
            /\ \E n \in PodName, x \in Label : pods' = pods \cup {NewPod(n, x)}
         \/ pods' \subseteq pods /\ nextPodUid' = nextPodUid
<1>1. CASE Controller
  BY <1>1 DEF Controller, Reconcile, ListPods, GetCurrentLeaderPod,
              SelectLeader, DeleteUnresolvedSlice, ReconcileLeaderService,
              ReconcileEndpointSlice, CleanupLeaderResources, cluster
<1>2. CASE Informer
  BY <1>2 DEF Informer, DeliverLeaderService, DeliverEndpointSlice, cluster
<1>3. CASE GarbageCollector
  BY <1>3 DEF GarbageCollector, CollectLeaderService, CollectEndpointSlice,
              cluster
<1>4. CASE PodUpdated \/ PodMatures
  BY <1>4 DEF PodUpdated, PodMatures
<1>5. CASE PodCreated \/ PodDeleted
  BY <1>5 DEF PodCreated, PodDeleted
<1>6. CASE Environment /\ ~(PodUpdated \/ PodMatures \/ PodCreated \/ PodDeleted)
  BY <1>6 DEF Environment, ServiceUpdated, ServiceDeleted, ServiceCreated,
              CacheExpires, Resync, Restart, cluster
<1> QED
  BY <1>1, <1>2, <1>3, <1>4, <1>5, <1>6 DEF Next, Environment

\* An update of a Pod leaves its name and its UID.
LEMMA UpdatesKeepUid ==
  ASSUME NEW p \in Pod, NEW q \in Updates(p) \cup {[p EXCEPT !.mature = TRUE]}
  PROVE  q.uid = p.uid /\ q.name = p.name
BY DEF Updates, Pod

\* Every step keeps the UIDs of the Pods apart.
LEMMA PodsDistinctNext ==
  ASSUME TypeOK, PodsDistinct, Next
  PROVE  PodsDistinct'
<1>0. nextPodUid \in Nat /\ \A p \in pods : p \in Pod /\ p.uid \in Nat
  BY DEF TypeOK, Pod, PodUid
<1>1. Distinct(loc'.pods)
  BY ListedPods DEF PodsDistinct, Distinct
<1>2. Distinct(pods') /\ \A p \in pods' : p.uid < nextPodUid'
  <2>1. ASSUME nextPodUid' = nextPodUid,
               NEW p \in pods, NEW q, pods' = (pods \ {p}) \cup {q},
               q \in Updates(p) \cup {[p EXCEPT !.mature = TRUE]}
        PROVE  Distinct(pods') /\ \A r \in pods' : r.uid < nextPodUid'
    <3>1. q.uid = p.uid
      BY <1>0, <2>1, UpdatesKeepUid
    <3> QED
      BY <2>1, <3>1 DEF PodsDistinct, Distinct
  <2>2. ASSUME nextPodUid' = nextPodUid + 1, NEW n \in PodName, NEW x \in Label,
               pods' = pods \cup {NewPod(n, x)}
        PROVE  Distinct(pods') /\ \A r \in pods' : r.uid < nextPodUid'
    <3>1. NewPod(n, x).uid = nextPodUid
      BY DEF NewPod
    <3> QED
      BY <1>0, <2>2, <3>1 DEF PodsDistinct, Distinct
  <2>3. CASE pods' \subseteq pods /\ nextPodUid' = nextPodUid
    BY <2>3 DEF PodsDistinct, Distinct
  <2> QED
    BY <2>1, <2>2, <2>3, PodSteps
<1> QED
  BY <1>1, <1>2 DEF PodsDistinct, Distinct

\* selectLeaderPod returns at most one Pod: the order of the candidates is
\* strict, because the name breaks ties of the creation timestamp, and a sticky
\* leader is the one Pod that the slice routes to.
LEMMA SelectSingle ==
  ASSUME NEW P \in SUBSET Pod, Distinct(P),
         NEW S, \A t, u \in S : t = u, NEW b,
         NEW p \in SelectLeaderPod(P, S, b), NEW q \in SelectLeaderPod(P, S, b)
  PROVE  p = q
<1>1. CASE p \in Kept(P, S) /\ q \in Kept(P, S)
  <2>1. p.uid = q.uid
    BY <1>1 DEF Kept, Uids
  <2> QED
    BY <1>1, <2>1 DEF Kept, Distinct
<1>2. CASE p \in Earliest(Candidates(P)) /\ q \in Earliest(Candidates(P))
  <2>1. p \in Pod /\ q \in Pod
    BY <1>2 DEF Earliest, Candidates
  <2>2. /\ CreatedAt[p.uid] \in Nat /\ CreatedAt[q.uid] \in Nat
        /\ p.name \in Nat /\ q.name \in Nat
    BY <2>1, PodAssumption DEF Pod
  <2>3. p = q \/ (Before(p, q) /\ Before(q, p))
    BY <1>2 DEF Earliest
  <2> QED
    BY <2>2, <2>3 DEF Before
<1> QED
  BY <1>1, <1>2 DEF SelectLeaderPod

\* The slice that the reconcile asks for routes to its leader alone, or to the
\* Pod that the slice at the API server routed to before.
LEMMA WantedSliceSingle ==
  ASSUME LeaderSingle, SlicesSingle, TypeOK, NEW l \in LeaderName, NEW owners
  PROVE  Single(WantedSlice(l, owners))
<1>1. \A t, u \in NewTarget : t = u
  BY DEF NewTarget, Ref, LeaderSingle
<1>2. Single(NewSlice(owners))
  BY <1>1 DEF Single, NewSlice
<1>3. Single(PatchedSlice(l))
  <2>1. Single(slice[l]) /\ Single(sliceView[l])
    BY DEF SlicesSingle
  <2>2. \A e \in slice[l] : e \in EndpointSlice
    BY DEF TypeOK
  <2>3. \A e \in slice[l], v \in sliceView[l] :
           PatchSlice(e, v).target = Merge(v.target, NewTarget, e.target)
    BY <2>2 DEF PatchSlice, EndpointSlice
  <2>4. ASSUME NEW e \in slice[l], NEW v \in sliceView[l],
               NEW f \in slice[l], NEW w \in sliceView[l]
        PROVE  PatchSlice(e, v).target = PatchSlice(f, w).target
    BY <2>1, <2>3 DEF Single, Merge
  <2>5. ASSUME NEW e \in slice[l], NEW v \in sliceView[l],
               NEW t \in PatchSlice(e, v).target,
               NEW u \in PatchSlice(e, v).target
        PROVE  t = u
    BY <1>1, <2>1, <2>3 DEF Single, Merge
  <2> QED
    BY <2>4, <2>5 DEF Single, PatchedSlice
<1> QED
  BY <1>2, <1>3 DEF WantedSlice

\* A write of such a slice.
LEMMA PutSliceSingle ==
  ASSUME TypeOK, SlicesSingle, UNCHANGED sliceView,
         NEW l \in LeaderName, NEW new \in SUBSET EndpointSlice,
         Single(new), PutSlice(l, new)
  PROVE  SlicesSingle'
<1>1. /\ slice \in [LeaderName -> SUBSET EndpointSlice]
      /\ sliceWatch \in [LeaderName -> Seq(SUBSET EndpointSlice)]
  BY DEF TypeOK
<1> SUFFICES ASSUME NEW m \in LeaderName
             PROVE  /\ Single(slice'[m])
                    /\ \A i \in 1 .. Len(sliceWatch'[m]) :
                          Single(sliceWatch'[m][i])
  BY DEF SlicesSingle, Single
<1>2. Single(slice'[m])
  BY <1>1 DEF PutSlice, SlicesSingle
<1>3. CASE sliceWatch'[m] = sliceWatch[m]
  BY <1>2, <1>3 DEF SlicesSingle
<1>4. CASE sliceWatch'[m] = Append(sliceWatch[m], new)
  BY <1>1, <1>2, <1>4, AppendProperties DEF SlicesSingle
<1> QED
  BY <1>1, <1>3, <1>4 DEF PutSlice

\* A reconcile goes on with at most one leader.
LEMMA ReconcileLeaderSingle ==
  ASSUME TypeOK, NEW leader \in SUBSET Pod,
         NEW seen, ReconcileLeader(leader, seen),
         \A p, q \in leader : p = q
  PROVE  LeaderSingle'
<1>1. loc \in Locals
  BY DEF TypeOK
<1>2. loc'.leader \subseteq leader
  BY <1>1 DEF ReconcileLeader, Locals
<1> QED
  BY <1>2 DEF LeaderSingle

\* Every step of the reconciler keeps that.
LEMMA LeaderSingleController ==
  ASSUME TypeOK, PodsDistinct, LeaderSingle, SlicesSingle, Controller
  PROVE  LeaderSingle'
<1>0. loc \in Locals
  BY DEF TypeOK
<1>1. CASE loc'.leader = loc.leader
  BY <1>1 DEF LeaderSingle
<1>2. CASE Done \/ Fail
  BY <1>2 DEF Done, Fail, NoLocals, LeaderSingle
<1>3. CASE Reconcile \/ GetCurrentLeaderPod \/ DeleteUnresolvedSlice
  <2>1. CASE Reconcile
    BY <1>1, <1>2, <2>1 DEF Reconcile, NoLocals, LeaderSingle
  <2>2. CASE GetCurrentLeaderPod
    BY <1>1, <2>2, CurrentLeaderLocals
  <2>3. CASE DeleteUnresolvedSlice
    BY <1>1, <2>3 DEF DeleteUnresolvedSlice
  <2> QED
    BY <1>3, <2>1, <2>2, <2>3
<1>4. CASE ListPods
  <2>1. CASE ReconcileLeader({}, {})
    BY <2>1, ReconcileLeaderSingle
  <2>2. CASE ~ReconcileLeader({}, {})
    BY <1>0, <1>1, <1>2, <1>4, <2>2 DEF ListPods, Locals
  <2> QED
    BY <2>1, <2>2
<1>5. CASE SelectLeader
  <2>1. PICK seen \in {Targets(sliceView[LocalName]), {}} : Select(seen)
    BY <1>5 DEF SelectLeader
  <2> DEFINE leader == SelectLeaderPod(loc.pods, seen, loc.bypass)
  <2>2. leader \in SUBSET Pod /\ ReconcileLeader(leader, seen)
    BY <1>0, <2>1, SelectedFromList DEF Select, Locals
  <2>3. /\ loc.pods \in SUBSET Pod
        /\ Distinct(loc.pods)
        /\ Single(sliceView[LocalName])
    BY <1>0, LocalNameType DEF Locals, PodsDistinct, SlicesSingle
  <2>4. \A t, u \in seen : t = u
    BY <2>3 DEF Targets, Single
  <2>5. \A p, q \in leader : p = q
    BY <2>3, <2>4, SelectSingle
  <2> QED
    BY <2>2, <2>5, ReconcileLeaderSingle
<1>6. CASE ReconcileLeaderService
  BY <1>1, <1>2, <1>6 DEF ReconcileLeaderService
<1>7. CASE ReconcileEndpointSlice
  BY <1>2, <1>7 DEF ReconcileEndpointSlice
<1>8. CASE CleanupLeaderResources
  BY <1>2, <1>8 DEF CleanupLeaderResources, CleanupByName, CleanupByLabel
<1> QED
  BY <1>3, <1>4, <1>5, <1>6, <1>7, <1>8 DEF Controller

\* A step that is not one of the reconciler leaves its leader, or forgets it.
LEMMA LeaderSingleOther ==
  ASSUME LeaderSingle, Informer \/ GarbageCollector \/ Environment
  PROVE  LeaderSingle'
<1>1. UNCHANGED loc \/ loc' = NoLocals
  <2>1. CASE Informer
    BY <2>1 DEF Informer, DeliverLeaderService, DeliverEndpointSlice
  <2>2. CASE GarbageCollector
    BY <2>2 DEF GarbageCollector, CollectLeaderService, CollectEndpointSlice
  <2>3. CASE Environment
    BY <2>3 DEF Environment, PodUpdated, PodCreated, PodDeleted, PodMatures,
                ServiceUpdated, ServiceDeleted, ServiceCreated, CacheExpires,
                Resync, Restart
  <2> QED
    BY <2>1, <2>2, <2>3
<1> QED
  BY <1>1 DEF LeaderSingle, NoLocals

-----------------------------------------------------------------------------
(***************************************************************************)
(* What a step does to the slices and their copies.                        *)
(***************************************************************************)

\* A write of one slice: the reconciler's last one, or a deletion.
OneWrite ==
    /\ UNCHANGED <<sliceView, everReady>>
    /\ \E l \in LeaderName :
          \/ PutSlice(l, {})
          \/ \E owners \in SUBSET LeaderService : WriteSlice(l, owners)

NoWrite ==
    /\ UNCHANGED <<slice, sliceView, sliceWatch>>
    /\ everReady \subseteq everReady'

\* A step writes at most one slice.  If it writes none it delivers a version of
\* one to the informer, or restarts the controller, or leaves all copies alone.
LEMMA SliceSteps ==
  ASSUME TypeOK, Next
  PROVE  \/ OneWrite
         \/ NoWrite
         \/ \E l \in LeaderName : DeliverEndpointSlice(l)
         \/ Restart
<1> USE DEF cluster, api, informer
<1>1. CASE Controller
  <2>1. CASE DeleteUnresolvedSlice
    BY <2>1, LocalNameType DEF DeleteUnresolvedSlice, OneWrite, NoWrite
  <2>2. CASE ReconcileEndpointSlice
    <3>1. leaderSvcView[LocalName] \in SUBSET LeaderService
      BY LocalNameType DEF TypeOK
    <3> QED
      BY <2>2, <3>1, LocalNameType DEF ReconcileEndpointSlice, OneWrite, NoWrite
  <2>3. CASE Controller /\ ~DeleteUnresolvedSlice /\ ~ReconcileEndpointSlice
    BY <2>3 DEF Controller, Reconcile, ListPods, GetCurrentLeaderPod,
                SelectLeader, ReconcileLeaderService, CleanupLeaderResources,
                NoWrite
  <2> QED
    BY <1>1, <2>1, <2>2, <2>3
<1>2. CASE Informer
  BY <1>2 DEF Informer, DeliverLeaderService, NoWrite
<1>3. CASE GarbageCollector
  <2>1. ASSUME NEW l \in LeaderName, CollectLeaderService(l)
        PROVE  NoWrite
    BY <2>1 DEF CollectLeaderService, NoWrite
  <2>2. ASSUME NEW l \in LeaderName, CollectEndpointSlice(l)
        PROVE  OneWrite
    BY <2>2 DEF CollectEndpointSlice, OneWrite
  <2> QED
    BY <1>3, <2>1, <2>2 DEF GarbageCollector
<1>4. CASE Environment
  BY <1>4 DEF Environment, PodUpdated, PodCreated, PodDeleted, PodMatures,
              ServiceUpdated, ServiceDeleted, ServiceCreated, CacheExpires,
              Resync, NoWrite
<1> QED
  BY <1>1, <1>2, <1>3, <1>4 DEF Next

\* A delivery moves a version of a slice from the watch to the informer.
LEMMA DeliverySingle ==
  ASSUME TypeOK, SlicesSingle, NEW l \in LeaderName, DeliverEndpointSlice(l)
  PROVE  SlicesSingle'
<1> DEFINE w == sliceWatch[l]
<1>1. w \in Seq(SUBSET EndpointSlice) /\ w # <<>>
  BY DEF TypeOK, DeliverEndpointSlice
<1>2. /\ Len(w) \in Nat /\ Len(w) # 0
      /\ Head(w) = w[1]
      /\ Len(Tail(w)) = Len(w) - 1
      /\ \A i \in 1 .. Len(Tail(w)) : Tail(w)[i] = w[i + 1]
  BY <1>1, HeadTailProperties, EmptySeq, LenProperties
<1>3. /\ sliceView'[l] = Head(w) /\ sliceWatch'[l] = Tail(w)
      /\ \A m \in LeaderName \ {l} : /\ sliceView'[m] = sliceView[m]
                                    /\ sliceWatch'[m] = sliceWatch[m]
      /\ UNCHANGED slice
  BY DEF TypeOK, DeliverEndpointSlice, api
<1>4. Single(sliceView'[l])
  BY <1>2, <1>3 DEF SlicesSingle
<1>5. ASSUME NEW i \in 1 .. Len(Tail(w))
      PROVE  Single(Tail(w)[i])
  BY <1>2 DEF SlicesSingle
<1>6. \A m \in LeaderName :
         /\ Single(slice[m])
         /\ Single(sliceView'[m])
         /\ \A i \in 1 .. Len(sliceWatch'[m]) : Single(sliceWatch'[m][i])
  BY <1>3, <1>4, <1>5 DEF SlicesSingle
<1> QED
  BY <1>3, <1>6 DEF SlicesSingle, Single

\* Every step keeps the copies of the slices single.
LEMMA SlicesSingleNext ==
  ASSUME TypeOK, LeaderSingle, SlicesSingle, Next
  PROVE  SlicesSingle'
<1>1. CASE OneWrite
  <2>1. UNCHANGED sliceView
    BY <1>1 DEF OneWrite
  <2>2. ASSUME NEW l \in LeaderName, PutSlice(l, {})
        PROVE  SlicesSingle'
    <3>1. {} \in SUBSET EndpointSlice /\ Single({})
      BY DEF Single
    <3> QED
      BY <2>1, <2>2, <3>1, PutSliceSingle
  <2>3. ASSUME NEW l \in LeaderName, NEW owners \in SUBSET LeaderService,
               WriteSlice(l, owners)
        PROVE  SlicesSingle'
    BY <2>1, <2>3, WantedSliceType, WantedSliceSingle, PutSliceSingle
    DEF WriteSlice
  <2> QED
    BY <1>1, <2>2, <2>3 DEF OneWrite
<1>2. CASE NoWrite
  BY <1>2 DEF NoWrite, SlicesSingle, Single
<1>3. ASSUME NEW l \in LeaderName, DeliverEndpointSlice(l)
      PROVE  SlicesSingle'
  BY <1>3, DeliverySingle
<1>4. CASE Restart
  <2>1. UNCHANGED slice
    BY <1>4 DEF Restart, api
  <2>2. CASE UNCHANGED <<sliceView, sliceWatch>>
    BY <2>1, <2>2 DEF SlicesSingle, Single
  <2>3. CASE \A l \in LeaderName :
                sliceView'[l] = slice[l] /\ sliceWatch'[l] = <<>>
    BY <2>1, <2>3 DEF SlicesSingle, Single
  <2> QED
    BY <1>4, <2>2, <2>3 DEF Restart, informer
<1> QED
  BY <1>1, <1>2, <1>3, <1>4, SliceSteps

-----------------------------------------------------------------------------

RoutingInv ==
    TypeOK /\ ReadyInv /\ PodsDistinct /\ LeaderSingle /\ SlicesSingle

\* The invariant that the refinement rests on.
LEMMA RoutingInvariant == Spec => []RoutingInv
<1>1. Init => RoutingInv
  <2>1. Init => LeaderSingle /\ SlicesSingle
    BY DEF Init, NoLocals, LeaderSingle, SlicesSingle, Single
  <2>2. Init => PodsDistinct
    <3>1. Cardinality(InitPods) \in Nat /\ \A p \in InitPods : p.uid \in Nat
      BY PodAssumption, FS_CardinalityType DEF Pod, PodUid
    <3>2. ASSUME NEW p \in InitPods
          PROVE  p.uid < 1 + Cardinality(InitPods)
      BY <3>1, PodAssumption
    <3>3. Distinct(InitPods)
      BY PodAssumption DEF Distinct
    <3>4. ASSUME Init
          PROVE  /\ pods = InitPods /\ nextPodUid = 1 + Cardinality(InitPods)
                 /\ loc.pods = {}
      BY <3>4 DEF Init, NoLocals
    <3> QED
      BY <3>2, <3>3, <3>4 DEF PodsDistinct, Distinct
  <2> QED
    BY <2>1, <2>2, TypeInit, ReadyInit DEF RoutingInv
<1>2. RoutingInv /\ [Next]_vars => RoutingInv'
  <2>1. RoutingInv /\ UNCHANGED vars => RoutingInv'
    <3> USE DEF vars, cluster, api, informer
    <3>1. TypeOK /\ UNCHANGED vars => TypeOK'
      BY DEF TypeOK
    <3>2. ReadyInv /\ UNCHANGED vars => ReadyInv'
      BY DEF ReadyInv, PodsReady, LeaderReady, CacheReady, ServicesReady,
             SlicesReady, RoutesReady
    <3>3. SlicesSingle /\ UNCHANGED vars => SlicesSingle'
      BY DEF SlicesSingle, Single
    <3>4. PodsDistinct /\ LeaderSingle /\ UNCHANGED vars
             => PodsDistinct' /\ LeaderSingle'
      BY DEF PodsDistinct, Distinct, LeaderSingle
    <3> QED
      BY <3>1, <3>2, <3>3, <3>4 DEF RoutingInv
  <2>2. RoutingInv /\ Next => TypeOK' /\ ReadyInv'
    BY TypeController, TypeInformer, TypeGarbageCollector, TypeEnvironment,
       ReadyController, ReadyInformer, ReadyGarbageCollector, ReadyEnvironment
    DEF Next, RoutingInv
  <2>3. RoutingInv /\ Next => PodsDistinct' /\ LeaderSingle' /\ SlicesSingle'
    BY PodsDistinctNext, LeaderSingleController, LeaderSingleOther,
       SlicesSingleNext
    DEF Next, RoutingInv
  <2> QED
    BY <2>1, <2>2, <2>3 DEF RoutingInv
<1> QED
  BY <1>1, <1>2, PTL DEF Spec

\* A write of one slice is a step of LeaderRouting: it routes to one Pod that
\* was Ready, or to none.
LEMMA OneWriteRoutes ==
  ASSUME RoutingInv, RoutingInv', OneWrite
  PROVE  LR!Next
<1>0. slice \in [LeaderName -> SUBSET EndpointSlice]
  BY DEF RoutingInv, TypeOK
<1>1. PICK l \in LeaderName : \E new : PutSlice(l, new)
  BY DEF OneWrite, WriteSlice
<1>2. UNCHANGED everReady
  BY DEF OneWrite
<1> DEFINE R(s) == [m \in LeaderName |-> Uids(Targets(s[m]))]
<1>3. \A m \in LeaderName \ {l} : slice'[m] = slice[m]
  BY <1>0, <1>1 DEF PutSlice
<1>4. R(slice') = [R(slice) EXCEPT ![l] = Uids(Targets(slice'[l]))]
  BY <1>3, Zenon
<1>5. /\ Uids(Targets(slice'[l])) \subseteq everReady
      /\ \A u, v \in Uids(Targets(slice'[l])) : u = v
  <2>1. Single(slice'[l]) /\ RoutesReady(slice[l])'
    BY DEF RoutingInv, SlicesSingle, ReadyInv, SlicesReady, RoutesReady, Single
  <2>2. \A e \in slice'[l] : \A t \in e.target : t.uid \in everReady
    BY <1>2, <2>1 DEF RoutesReady
  <2> QED
    BY <2>1, <2>2 DEF Uids, Targets, Single
<1>6. Uids(Targets(slice'[l])) \subseteq PodUid
  BY <1>2, <1>5 DEF RoutingInv, TypeOK
<1>7. CASE Uids(Targets(slice'[l])) = {}
  BY <1>2, <1>4, <1>7 DEF LR!Next, LR!Unroute
<1>8. ASSUME NEW u \in Uids(Targets(slice'[l]))
      PROVE  LR!Next
  <2>1. Uids(Targets(slice'[l])) = {u}
    BY <1>5, <1>8
  <2> QED
    BY <1>2, <1>4, <1>5, <1>6, <1>8, <2>1 DEF LR!Next, LR!RouteTo
<1> QED
  BY <1>7, <1>8

\* Every step of the reconciler and of what surrounds it is a step of
\* LeaderRouting, or changes nothing there.
LEMMA RoutingStep ==
  ASSUME RoutingInv, RoutingInv', [Next]_vars
  PROVE  [LR!Next]_LR!vars
<1>1. CASE UNCHANGED vars
  BY <1>1 DEF vars, cluster, api, LR!vars
<1>2. CASE OneWrite
  BY <1>2, OneWriteRoutes
<1>3. CASE UNCHANGED slice /\ everReady \subseteq everReady'
  BY <1>3 DEF LR!Next, LR!BecomeReady
<1>4. CASE Restart \/ \E l \in LeaderName : DeliverEndpointSlice(l)
  BY <1>3, <1>4 DEF Restart, DeliverEndpointSlice, api, cluster
<1> QED
  BY <1>1, <1>2, <1>3, <1>4, SliceSteps DEF NoWrite, RoutingInv

\* The reconciler implements LeaderRouting, in every execution and for every
\* cluster: the leader Service leads to at most one Pod at a time, which had
\* been Ready before it was chosen, and moves from one to the next in one step.
THEOREM ImplementsLeaderRouting == Spec => LeaderRoutingImplemented
<1>1. Init => LR!Init
  BY DEF Init, LR!Init, Uids, Targets
<1>2. RoutingInv /\ RoutingInv' /\ [Next]_vars => [LR!Next]_LR!vars
  BY RoutingStep
<1> QED
  BY <1>1, <1>2, RoutingInvariant, PTL DEF Spec, LeaderRoutingImplemented, LR!Spec

=============================================================================
