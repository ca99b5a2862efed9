-------------------------- MODULE FailClosedProofs --------------------------
(***************************************************************************)
(* Port resolution fails closed.  Two arguments meet: between the          *)
(* selection and the write the leader is one that declares the port, if    *)
(* the Service names one (LeaderDeclares); and the informer that has       *)
(* nothing left to deliver holds what the API server holds (InSync), so a  *)
(* reconcile that ends and leaves no event behind found the slice as it    *)
(* wants it (QuietSlice).                                                  *)
(***************************************************************************)
EXTENDS StickyLeaderProofs

\* The newest copy of a slice that is on its way to the reconciler.
Newest(l) ==
    IF sliceWatch[l] = <<>> THEN sliceView[l]
    ELSE sliceWatch[l][Len(sliceWatch[l])]

InSync == \A l \in LeaderName : Newest(l) = slice[l]

-----------------------------------------------------------------------------

\* A write of a slice becomes the newest copy.
LEMMA PutSliceInSync ==
  ASSUME TypeOK, InSync, UNCHANGED sliceView,
         NEW l \in LeaderName, NEW new \in SUBSET EndpointSlice,
         PutSlice(l, new)
  PROVE  InSync'
<1>1. /\ slice \in [LeaderName -> SUBSET EndpointSlice]
      /\ sliceWatch \in [LeaderName -> Seq(SUBSET EndpointSlice)]
  BY DEF TypeOK
<1> SUFFICES ASSUME NEW m \in LeaderName
             PROVE  Newest(m)' = slice'[m]
  BY DEF InSync
<1>2. CASE sliceWatch'[m] = sliceWatch[m] /\ slice'[m] = slice[m]
  BY <1>2 DEF InSync, Newest
<1>3. CASE sliceWatch'[m] = Append(sliceWatch[m], new) /\ slice'[m] = new
  <2>1. /\ Len(sliceWatch'[m]) = Len(sliceWatch[m]) + 1
        /\ sliceWatch'[m][Len(sliceWatch[m]) + 1] = new
        /\ sliceWatch'[m] # <<>>
    BY <1>1, <1>3, AppendProperties, EmptySeq
  <2> QED
    BY <1>3, <2>1 DEF Newest
<1> QED
  BY <1>1, <1>2, <1>3 DEF PutSlice

\* A delivery takes the oldest copy; the newest is the same as before.
LEMMA DeliveryInSync ==
  ASSUME TypeOK, InSync, NEW l \in LeaderName, DeliverEndpointSlice(l)
  PROVE  InSync'
<1> DEFINE w == sliceWatch[l]
<1>1. w \in Seq(SUBSET EndpointSlice) /\ w # <<>>
  BY DEF TypeOK, DeliverEndpointSlice
<1>2. /\ Len(w) \in Nat /\ Len(w) # 0
      /\ Head(w) = w[1]
      /\ Tail(w) \in Seq(SUBSET EndpointSlice)
      /\ Len(Tail(w)) = Len(w) - 1
      /\ \A i \in 1 .. Len(Tail(w)) : Tail(w)[i] = w[i + 1]
  BY <1>1, HeadTailProperties, EmptySeq, LenProperties
<1>3. /\ sliceView'[l] = Head(w) /\ sliceWatch'[l] = Tail(w)
      /\ \A m \in LeaderName \ {l} : /\ sliceView'[m] = sliceView[m]
                                    /\ sliceWatch'[m] = sliceWatch[m]
      /\ UNCHANGED slice
  BY DEF TypeOK, DeliverEndpointSlice, api
<1>4. w[Len(w)] = slice[l]
  BY <1>1 DEF InSync, Newest
<1>5. Newest(l)' = slice'[l]
  <2>1. CASE Tail(w) = <<>>
    <3>1. Len(Tail(w)) = 0
      BY <2>1, EmptySeq
    <3>2. Len(w) = 1
      BY <1>2, <3>1
    <3>3. sliceView'[l] = slice[l] /\ sliceWatch'[l] = <<>>
      BY <1>2, <1>3, <1>4, <2>1, <3>2
    <3> QED
      BY <1>3, <3>3 DEF Newest
  <2>2. CASE Tail(w) # <<>>
    BY <1>2, <1>3, <1>4, <2>2, EmptySeq DEF Newest
  <2> QED
    BY <2>1, <2>2
<1>6. ASSUME NEW m \in LeaderName \ {l}
      PROVE  Newest(m)' = slice'[m]
  BY <1>3 DEF InSync, Newest
<1> QED
  BY <1>5, <1>6 DEF InSync

\* A write of a slice puts a set of slices there.
LEMMA OneWritePuts ==
  ASSUME TypeOK, OneWrite
  PROVE  \E l \in LeaderName, new \in SUBSET EndpointSlice : PutSlice(l, new)
<1>1. PICK l \in LeaderName :
         \/ PutSlice(l, {})
         \/ \E owners \in SUBSET LeaderService : WriteSlice(l, owners)
  BY DEF OneWrite
<1>2. CASE PutSlice(l, {})
  <2>1. {} \in SUBSET EndpointSlice
    OBVIOUS
  <2> QED
    BY <1>2, <2>1
<1>3. ASSUME NEW owners \in SUBSET LeaderService, WriteSlice(l, owners)
      PROVE  \E new \in SUBSET EndpointSlice : PutSlice(l, new)
  BY <1>3, WantedSliceType DEF WriteSlice
<1> QED
  BY <1>1, <1>2, <1>3

\* Every step keeps the newest copies true.
LEMMA InSyncNext ==
  ASSUME TypeOK, InSync, Next
  PROVE  InSync'
<1>1. CASE OneWrite
  <2>1. PICK l \in LeaderName, new \in SUBSET EndpointSlice : PutSlice(l, new)
    BY <1>1, OneWritePuts
  <2>2. UNCHANGED sliceView
    BY <1>1 DEF OneWrite
  <2> QED
    BY <2>1, <2>2, PutSliceInSync
<1>2. CASE NoWrite
  BY <1>2 DEF NoWrite, InSync, Newest
<1>3. ASSUME NEW l \in LeaderName, DeliverEndpointSlice(l)
      PROVE  InSync'
  BY <1>3, DeliveryInSync
<1>4. CASE Restart
  <2>1. UNCHANGED slice
    BY <1>4 DEF Restart, api
  <2>2. CASE UNCHANGED informer
    BY <2>1, <2>2 DEF informer, InSync, Newest
  <2>3. CASE sliceView' = slice /\ sliceWatch' = [l \in LeaderName |-> <<>>]
    BY <2>1, <2>3 DEF InSync, Newest
  <2> QED
    BY <1>4, <2>2, <2>3 DEF Restart
<1> QED
  BY <1>1, <1>2, <1>3, <1>4, SliceSteps

-----------------------------------------------------------------------------

\* The API server holds no slice of another content than an event announces.
LEMMA QuietWrite ==
  ASSUME TypeOK, NEW m \in LeaderName, NEW new \in SUBSET EndpointSlice,
         PutSlice(m, new), NEW l \in LeaderName, sliceWatch'[l] = <<>>
  PROVE  /\ slice'[l] = slice[l] /\ sliceWatch[l] = <<>>
         /\ l = m => new = slice[l]
<1>1. /\ slice \in [LeaderName -> SUBSET EndpointSlice]
      /\ sliceWatch \in [LeaderName -> Seq(SUBSET EndpointSlice)]
  BY DEF TypeOK
<1>2. Append(sliceWatch[m], new) # <<>>
  BY <1>1, AppendProperties, EmptySeq
<1> QED
  BY <1>1, <1>2 DEF PutSlice

\* A last write that changes nothing, when no event is on its way, found the
\* slice as the reconcile wants it.
LEMMA QuietSlice ==
  ASSUME RoutingInv, InSync, NEW l \in LeaderName,
         NEW owners \in SUBSET LeaderService, WriteSlice(l, owners),
         sliceWatch'[l] = <<>>
  PROVE  /\ slice'[l] = slice[l] /\ sliceView[l] = slice[l]
         /\ \A g \in slice[l] : g.target = NewTarget
         /\ \E f \in slice[l] : /\ f \in WantedSlice(l, owners)
                                /\ f.ports = loc.ports
<1>0. /\ TypeOK
      /\ slice[l] \in SUBSET EndpointSlice
      /\ sliceView[l] \in SUBSET EndpointSlice
  BY DEF RoutingInv, TypeOK
<1>1. /\ slice'[l] = slice[l] /\ sliceWatch[l] = <<>>
      /\ WantedSlice(l, owners) = slice[l]
  BY <1>0, WantedSliceType, QuietWrite DEF WriteSlice
<1>2. sliceView[l] = slice[l] /\ Single(slice[l])
  BY <1>1 DEF InSync, Newest, RoutingInv, SlicesSingle
<1>3. slice[l] # {}
  <2>1. NewSlice(owners) # {}
    BY DEF NewSlice
  <2> QED
    BY <1>1, <1>2, <2>1 DEF WantedSlice
<1>4. PICK e \in slice[l] : TRUE
  BY <1>3
<1> DEFINE f == PatchSlice(e, e)
<1>5. f \in slice[l]
  BY <1>1, <1>2, <1>3, <1>4 DEF WantedSlice, PatchedSlice
<1>6. f.target = NewTarget /\ f.ports = loc.ports
  BY <1>0, <1>4 DEF PatchSlice, EndpointSlice, Merge
<1>7. \A g \in slice[l] : g.target = NewTarget
  BY <1>2, <1>5, <1>6 DEF Single
<1> QED
  BY <1>1, <1>2, <1>5, <1>6, <1>7

-----------------------------------------------------------------------------
(***************************************************************************)
(* The leader of a Service that names its port.                            *)
(***************************************************************************)

LeaderDeclares ==
    (pc \in LeaderChosen /\ Source.port = "named") =>
        \A p \in loc.leader : NamedPort[p.uid] # 0

\* The reconcile goes on with a leader only if the ports resolve for it.
LEMMA LeaderDeclaresNext ==
  ASSUME TypeOK, LeaderDeclares, Next
  PROVE  LeaderDeclares'
<1>1. CASE UNCHANGED <<pc, loc>>
  BY <1>1, LocalNameStays DEF LeaderDeclares
<1>2. CASE Controller
  <2> SUFFICES ASSUME pc' \in LeaderChosen
               PROVE  LeaderDeclares'
    BY DEF LeaderDeclares
  <2>1. CASE pc \in LeaderChosen
    <3>1. UNCHANGED loc
      BY <1>2, <2>1, AfterSelection
    <3> QED
      BY <2>1, <3>1, LocalNameStays DEF LeaderDeclares
  <2>2. CASE ListPods /\ ReconcileLeader({}, {})
    <3>1. loc'.leader = {}
      BY <2>2 DEF ReconcileLeader, TypeOK, Locals
    <3> QED
      BY <3>1 DEF LeaderDeclares
  <2>3. CASE SelectLeader
    <3>1. PICK leader : /\ loc'.svc = loc.svc
                        /\ \/ /\ PortsResolve(Source, leader)
                              /\ loc'.leader = leader
                           \/ loc'.leader = {}
      <4>1. PICK seen : Select(seen)
        BY <2>3 DEF SelectLeader
      <4> QED
        BY <4>1 DEF Select, ReconcileLeader, TypeOK, Locals
    <3>2. Source' = Source
      BY <3>1, LocalNameStays
    <3> QED
      BY <3>1, <3>2 DEF LeaderDeclares, PortsResolve
  <2> QED
    BY <1>2, <2>1, <2>2, <2>3, SelectionSteps
<1>3. CASE Restart
  BY <1>3 DEF Restart, LeaderDeclares, LeaderChosen
<1> QED
  BY <1>1, <1>2, <1>3, BackgroundSteps DEF Next

\* A new endpoint in a slice is the leader's; a patch leaves the others alone.
LEMMA NewEndpointDeclares ==
  ASSUME TypeOK, LeaderDeclares, Next
  PROVE  OnlyDeclaredPort
<1> SUFFICES ASSUME pc = "slice", Source.port = "named",
                    NEW l \in LeaderName, NEW f \in slice'[l],
                    \A e \in slice[l] : f.target # e.target,
                    NEW t \in f.target
             PROVE  NamedPort[t.uid] # 0
  BY DEF OnlyDeclaredPort
<1>1. f \notin slice[l] /\ slice'[l] # {}
  OBVIOUS
<1>2. PICK owners : WriteSlice(l, owners)
  BY <1>1, SliceWrites
<1>3. f \in WantedSlice(l, owners)
  BY <1>2 DEF WriteSlice, PutSlice, TypeOK
<1>4. f.target = NewTarget
  <2>1. CASE f \in NewSlice(owners)
    BY <2>1 DEF NewSlice
  <2>2. CASE f \in PatchedSlice(l)
    <3>1. PICK d \in slice[l], v \in sliceView[l] : f = PatchSlice(d, v)
      BY <2>2 DEF PatchedSlice
    <3>2. d \in EndpointSlice
      BY DEF TypeOK
    <3>3. f.target = Merge(v.target, NewTarget, d.target)
      BY <3>1, <3>2 DEF PatchSlice, EndpointSlice
    <3> QED
      BY <3>3 DEF Merge
  <2> QED
    BY <1>3, <2>1, <2>2 DEF WantedSlice
<1>5. PICK p \in loc.leader : t = Ref(p)
  BY <1>4 DEF NewTarget
<1> QED
  BY <1>5 DEF LeaderDeclares, LeaderChosen, Ref

\* A reconcile without a leader that ends well found no endpoint in the slice,
\* or its write is an event that brings it back.
LEMMA NoRouteStays ==
  ASSUME RoutingInv, InSync, Next
  PROVE  NoRouteLeft
<1> SUFFICES ASSUME pc = "slice", loc.leader = {}, pc' = "idle", ~queued',
                    sliceWatch'[LocalName] = <<>>
             PROVE  Targets(slice'[LocalName]) = {}
  BY DEF NoRouteLeft
<1>0. TypeOK /\ LocalName \in LeaderName
  BY LocalNameType DEF RoutingInv
<1>1. CASE ReconcileEndpointSlice
  <2>1. leaderSvcView[LocalName] \in SUBSET LeaderService
    BY <1>0 DEF TypeOK
  <2>2. PICK owners \in SUBSET LeaderService : WriteSlice(LocalName, owners)
    BY <1>1, <2>1 DEF ReconcileEndpointSlice, Fail
  <2>3. /\ slice'[LocalName] = slice[LocalName]
        /\ \A g \in slice[LocalName] : g.target = NewTarget
    BY <1>0, <2>2, QuietSlice
  <2>4. NewTarget = {}
    BY DEF NewTarget
  <2> QED
    BY <2>3, <2>4 DEF Targets
<1>2. CASE Restart
  <2>1. sliceView'[LocalName] = {} /\ slice' = slice
    BY <1>0, <1>2 DEF Restart, api
  <2>2. InSync'
    BY <1>0, InSyncNext
  <2>3. slice'[LocalName] = {}
    BY <1>0, <2>1, <2>2 DEF InSync, Newest
  <2> QED
    BY <2>3 DEF Targets
<1>3. CASE Controller
  BY <1>1, <1>3
  DEF Controller, Reconcile, ListPods, GetCurrentLeaderPod, SelectLeader,
      DeleteUnresolvedSlice, ReconcileLeaderService, CleanupLeaderResources
<1> QED
  BY <1>0, <1>2, <1>3, BackgroundSteps DEF Next

FailClosedInv == RoutingInv /\ InSync /\ LeaderDeclares

LEMMA FailClosedInvariant == Spec => []FailClosedInv
<1>1. Init => InSync /\ LeaderDeclares
  BY DEF Init, InSync, Newest, LeaderDeclares, LeaderChosen
<1>2. RoutingInv /\ InSync /\ LeaderDeclares /\ [Next]_vars =>
         InSync' /\ LeaderDeclares'
  <2>1. CASE Next
    BY <2>1, InSyncNext, LeaderDeclaresNext DEF RoutingInv
  <2>2. CASE UNCHANGED vars
    <3>1. UNCHANGED <<slice, sliceView, sliceWatch, pc, loc>>
      BY <2>2 DEF vars, api, informer
    <3> QED
      BY <3>1, LocalNameStays DEF InSync, Newest, LeaderDeclares
  <2> QED
    BY <2>1, <2>2
<1> QED
  BY <1>1, <1>2, RoutingInvariant, PTL DEF Spec, FailClosedInv

\* For any Pods, edits of the ports, lags, faults and crashes: a Service that
\* names its port is only given endpoints that declare it, and a reconcile
\* that found nobody to route to does not end with a route left behind that
\* nothing will come back to (resolveServicePorts, the deletion whose errors
\* are ignored, and the patch of reconcileEndpointSlice).
THEOREM NamedPortsFailClosed == Spec => FailClosed
<1>1. FailClosedInv /\ Next => OnlyDeclaredPort /\ NoRouteLeft
  BY NewEndpointDeclares, NoRouteStays DEF FailClosedInv, RoutingInv
<1>2. FailClosedInv /\ [Next]_vars => [OnlyDeclaredPort /\ NoRouteLeft]_vars
  BY <1>1
<1> QED
  BY <1>2, FailClosedInvariant, PTL DEF FailClosed, Spec

=============================================================================
