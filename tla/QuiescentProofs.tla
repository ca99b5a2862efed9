-------------------------- MODULE QuiescentProofs --------------------------
(***************************************************************************)
(* Once the controller has nothing left to do, the leader Service routes   *)
(* to a Ready Pod of the source Service, for all values of the constants   *)
(* under two conditions: labels of Pods do not change, because the watch   *)
(* predicate does not look at them, and with min-ready-duration the API    *)
(* server validates slices, because no event tells that a Pod has matured. *)
(*                                                                         *)
(* A reconcile reads the Service, the Pods and the slice in steps of their *)
(* own, and anything may change in between.  The argument is that whatever *)
(* changes adds the key to the work queue.  As long as the key is not on   *)
(* it, what the reconcile has read is still true (ReconcileInv, FreshInv), *)
(* and so is what it made of that (ChoiceInv); a reconcile that ends well  *)
(* either wrote a new slice, whose event brings the key back, or found the *)
(* slice right (RestInv).                                                  *)
(*                                                                         *)
(* The same invariants of the work queue show, without any condition, that *)
(* a cleanup which deletes the leader Service of a Service that is served  *)
(* again leaves the key on the queue.                                      *)
(***************************************************************************)
EXTENDS FailClosedProofs

LabelsStay == "relabel" \notin PodChanges

Attentive == LabelsStay /\ (StrictAPI \/ ~FlapDamping)

Serving == {"list", "current", "select"} \cup LeaderChosen

\* There is at most one source Service, and unless the work queue says that
\* something has changed, the opted-in cache has its selector ...
OptedInInv ==
    /\ \A s, t \in svc : s = t
    /\ svc # {} /\ ~queued => optedIn = OptedInEntry

\* ... and the reconcile in progress works on it as it is.
ReconcileInv ==
    /\ pc = "idle" => loc = NoLocals
    /\ pc = "list" => loc.pods = {}
    /\ pc = "cleanup" /\ ~queued => \A s \in svc : ~s.enabled
    /\ pc \in Serving /\ ~queued => loc.svc = svc /\ \A s \in svc : Served(s)

\* A Pod of a list and the same Pod now: it may have matured, which no event
\* tells.
Grown(p, q) == q = p \/ q = [p EXCEPT !.mature = TRUE]

Fresh(P, Q) ==
    /\ ~FlapDamping => P = Q
    /\ \A p \in P : \E q \in Q : Grown(p, q)

FreshInv ==
    pc \in Serving \ {"list"} /\ ~queued =>
        \A s \in svc : Fresh(loc.pods, Matching(s))

\* What the selection made of the list and of the endpoints that it saw.
ChoiceInv ==
    pc \in LeaderChosen =>
        /\ loc.leader \subseteq loc.pods
        /\ \A p \in loc.leader : IsPodReady(p)
        /\ loc.leader # {} => loc.ports = ResolveServicePorts(Source, loc.leader)
        /\ ~Sticky => loc.leader \subseteq Earliest(Candidates(loc.pods))
        /\ KeptPod = {} =>
              \A p \in Earliest(Candidates(loc.pods)) :
                  p \in loc.leader \/ ~PortsResolve(Source, {p})
        /\ ~queued => loc.seen \in {{}, Targets(sliceView[LocalName])}

\* Slice e routes as Service s asks for, and a Pod that matures does not change
\* that.
RoutesToLeader(e, s) ==
    \E p \in Matching(s) :
        /\ IsPodReady(p)
        /\ e.target = {Ref(p)}
        /\ e.ports = ResolveServicePorts(s, {p})
        /\ ~Sticky /\ ~FlapDamping => p \in Earliest(Candidates(Matching(s)))

RoutesNowhere(e, s) ==
    /\ ~FlapDamping
    /\ e.target = {}
    /\ \A p \in Earliest(Candidates(Matching(s))) :
          ~p.ip \/ ~PortsResolve(s, {p})

Right(e, s) == RoutesToLeader(e, s) \/ RoutesNowhere(e, s)

RestInv ==
    (pc = "idle" /\ ~queued) =>
        \A s \in svc : Served(s) =>
            LET l == GetLeaderServiceName(s)
            IN  sliceWatch[l] = <<>> => \E e \in slice[l] : Right(e, s)

-----------------------------------------------------------------------------
(***************************************************************************)
(* The source Service and the opted-in cache.                              *)
(***************************************************************************)

\* An update of the source Service replaces it.
LEMMA ServiceSteps ==
  ASSUME Next
  PROVE  svc' = svc \/ svc' = {} \/ \E t : svc' = {t}
<1> USE DEF cluster
<1>1. CASE Controller
  BY <1>1 DEF Controller, Reconcile, ListPods, GetCurrentLeaderPod,
              SelectLeader, DeleteUnresolvedSlice, ReconcileLeaderService,
              ReconcileEndpointSlice, CleanupLeaderResources
<1>2. CASE Informer
  BY <1>2 DEF Informer, DeliverLeaderService, DeliverEndpointSlice
<1>3. CASE GarbageCollector
  BY <1>3 DEF GarbageCollector, CollectLeaderService, CollectEndpointSlice
<1>4. CASE ServiceUpdated \/ ServiceDeleted \/ ServiceCreated
  BY <1>4 DEF ServiceUpdated, ServiceDeleted, ServiceCreated
<1>5. CASE Environment /\ ~(ServiceUpdated \/ ServiceDeleted \/ ServiceCreated)
  BY <1>5 DEF Environment, PodUpdated, PodCreated, PodDeleted, PodMatures,
              CacheExpires, Resync, Restart
<1> QED
  BY <1>1, <1>2, <1>3, <1>4, <1>5 DEF Next, Environment

\* What a step of the reconciler does to the work queue and the opted-in cache.
LEMMA ControllerQueue ==
  ASSUME TypeOK, Controller
  PROVE  /\ UNCHANGED <<pods, svc, sliceView>>
         /\ \/ Reconcile
            \/ UNCHANGED optedIn /\ (queued => queued')
<1> USE DEF cluster, informer
<1>1. CASE Reconcile
  BY <1>1 DEF Reconcile
<1>2. CASE ListPods \/ GetCurrentLeaderPod \/ SelectLeader
              \/ DeleteUnresolvedSlice
  BY <1>2 DEF ListPods, Fail, GetCurrentLeaderPod, SelectLeader,
              DeleteUnresolvedSlice
<1>3. CASE ReconcileLeaderService \/ ReconcileEndpointSlice
  BY <1>3 DEF ReconcileLeaderService, ReconcileEndpointSlice, Done, Fail
<1>4. CASE CleanupLeaderResources
  BY <1>4 DEF CleanupLeaderResources, CleanupByName, CleanupByLabel, Done, Fail
<1> QED
  BY <1>1, <1>2, <1>3, <1>4 DEF Controller

LEMMA OptedInInvNext ==
  ASSUME TypeOK, OptedInInv, Next
  PROVE  OptedInInv'
<1>1. \A s, t \in svc' : s = t
  BY ServiceSteps DEF OptedInInv
<1>2. ASSUME svc' # {}, ~queued'
      PROVE  optedIn' = OptedInEntry'
  <2>1. svc' = svc => OptedInEntry' = OptedInEntry
    BY DEF OptedInEntry
  <2>2. CASE Controller
    <3>1. CASE Reconcile
      BY <1>2, <2>1, <3>1 DEF Reconcile, Fail, cluster
    <3>2. CASE UNCHANGED <<svc, optedIn>> /\ (queued => queued')
      BY <1>2, <2>1, <3>2 DEF OptedInInv
    <3> QED
      BY <2>2, <3>1, <3>2, ControllerQueue
  <2>3. CASE Informer \/ GarbageCollector \/ Environment
    <3>1. ~Restart
      BY <1>2 DEF Restart, cluster
    <3>2. svc' = svc /\ ~queued /\ optedIn = OptedInEntry
      BY <1>2, <2>3, <3>1, BackgroundSteps DEF OptedInInv
    <3>3. CASE PodUpdated \/ PodCreated \/ PodDeleted
      BY <2>1, <3>2, <3>3
      DEF PodUpdated, PodCreated, PodDeleted, MapPodToService
    <3>4. CASE UNCHANGED optedIn
      BY <2>1, <3>2, <3>4
    <3> QED
      BY <2>3, <3>1, <3>3, <3>4
      DEF Informer, DeliverLeaderService, DeliverEndpointSlice,
          GarbageCollector, CollectLeaderService, CollectEndpointSlice,
          Environment, PodMatures, ServiceUpdated, ServiceDeleted,
          ServiceCreated, CacheExpires, Resync
  <2> QED
    BY <2>2, <2>3 DEF Next
<1> QED
  BY <1>1, <1>2 DEF OptedInInv


-----------------------------------------------------------------------------
(***************************************************************************)
(* The reconcile in progress.                                              *)
(***************************************************************************)

\* A reconcile begins, goes on, or ends.
LEMMA ControllerSteps ==
  ASSUME TypeOK, Controller
  PROVE  \/ Reconcile
         \/ /\ pc \in Serving /\ pc' \in Serving \ {"list"}
            /\ loc'.svc = loc.svc
         \/ pc' = "idle" /\ loc' = NoLocals
<1>0. loc \in Locals
  BY DEF TypeOK
<1> USE DEF Serving, LeaderChosen
<1>1. CASE ListPods
  BY <1>0, <1>1 DEF ListPods, Fail, ReconcileLeader, Locals
<1>2. CASE SelectLeader
  BY <1>2, SelectLeaderLocals DEF SelectLeader, Select, ReconcileLeader
<1>3. CASE GetCurrentLeaderPod \/ DeleteUnresolvedSlice
  BY <1>3, CurrentLeaderLocals DEF GetCurrentLeaderPod, DeleteUnresolvedSlice
<1>4. CASE ReconcileLeaderService
  BY <1>4 DEF ReconcileLeaderService, Fail
<1>5. CASE ReconcileEndpointSlice
  BY <1>5 DEF ReconcileEndpointSlice, Done, Fail
<1>6. CASE CleanupLeaderResources
  BY <1>6 DEF CleanupLeaderResources, CleanupByName, CleanupByLabel, Done, Fail
<1> QED
  BY <1>1, <1>2, <1>3, <1>4, <1>5, <1>6 DEF Controller

LEMMA ReconcileInvNext ==
  ASSUME TypeOK, OptedInInv, ReconcileInv, Next
  PROVE  ReconcileInv'
<1>0. loc \in Locals
  BY DEF TypeOK
<1> USE DEF Serving, LeaderChosen
<1>1. CASE Reconcile
  BY <1>0, <1>1
  DEF Reconcile, Fail, cluster, OptedInInv, ReconcileInv, NoLocals, Locals,
      Served
<1>2. CASE Controller /\ ~Reconcile
  <2>1. svc' = svc /\ (queued => queued')
    BY <1>2, ControllerQueue
  <2>2. CASE /\ pc \in Serving /\ pc' \in Serving \ {"list"}
             /\ loc'.svc = loc.svc
    BY <2>1, <2>2 DEF ReconcileInv
  <2>3. CASE pc' = "idle" /\ loc' = NoLocals
    BY <2>3 DEF ReconcileInv
  <2> QED
    BY <1>2, <2>2, <2>3, ControllerSteps
<1>3. CASE Informer \/ GarbageCollector \/ Environment
  <2>1. CASE Restart
    BY <2>1 DEF Restart, ReconcileInv
  <2>2. CASE ~Restart
    BY <1>3, <2>2, BackgroundSteps DEF ReconcileInv
  <2> QED
    BY <2>1, <2>2
<1> QED
  BY <1>2, <1>3, <1>1 DEF Next

-----------------------------------------------------------------------------
(***************************************************************************)
(* The list of Pods.                                                       *)
(***************************************************************************)

\* What an update of a Pod leaves, or tells.
LEMMA UpdatesTell ==
  ASSUME LabelsStay, NEW p \in Pod, NEW q \in Updates(p)
  PROVE  q.label = p.label /\ MeaningfulUpdate(p, q)
<1>1. q.label = p.label
  BY DEF LabelsStay, Updates
<1>2. q # p /\ p.status # "Failed" /\ (q.status = p.status => q.mature = p.mature)
  BY DEF Updates
<1>3. \/ \E st \in {"Ready", "NotReady", "Failed"} :
            q = [p EXCEPT !.status = st, !.mature = FALSE]
      \/ q = [p EXCEPT !.deleting = TRUE]
      \/ \E b \in BOOLEAN : q = [p EXCEPT !.ip = b]
      \/ \E x \in Label : q = [p EXCEPT !.label = x]
  BY DEF Updates
<1>4. CASE \E st \in {"Ready", "NotReady", "Failed"} :
             q = [p EXCEPT !.status = st, !.mature = FALSE]
  <2>1. PICK st \in {"Ready", "NotReady", "Failed"} :
           q = [p EXCEPT !.status = st, !.mature = FALSE]
    BY <1>4
  <2>2. q.status = st /\ q.mature = FALSE
    BY <2>1 DEF Pod
  <2>3. st # p.status
    <3>1. SUFFICES ASSUME st = p.status PROVE FALSE
      OBVIOUS
    <3>2. p.mature = FALSE
      BY <1>2, <2>2, <3>1
    <3> QED
      BY <1>2, <2>1, <3>1, <3>2 DEF Pod
  <2> QED
    BY <1>1, <1>2, <2>2, <2>3 DEF MeaningfulUpdate, IsPodReady, Pod
<1>5. CASE q = [p EXCEPT !.deleting = TRUE]
  <2>1. p.deleting # TRUE
    BY <1>2, <1>5 DEF Pod
  <2> QED
    BY <1>1, <1>5, <2>1 DEF MeaningfulUpdate, Pod
<1>6. CASE \E b \in BOOLEAN : q = [p EXCEPT !.ip = b]
  <2>1. PICK b \in BOOLEAN : q = [p EXCEPT !.ip = b]
    BY <1>6
  <2>2. p.ip # b
    BY <1>2, <2>1 DEF Pod
  <2> QED
    BY <1>1, <2>1, <2>2 DEF MeaningfulUpdate, Pod
<1>7. CASE \E x \in Label : q = [p EXCEPT !.label = x]
  <2>1. PICK x \in Label : q = [p EXCEPT !.label = x]
    BY <1>7
  <2>2. x = p.label
    BY <1>1, <2>1 DEF Pod
  <2> QED
    BY <1>2, <2>1, <2>2 DEF Pod
<1> QED
  BY <1>3, <1>4, <1>5, <1>6, <1>7

\* Of a served Service, what changes the Pods that it selects adds it to the
\* work queue - except that a Pod matures.
LEMMA MatchingSteps ==
  ASSUME TypeOK, LabelsStay, OptedInInv, Next, ~Restart, ~queued, ~queued',
         NEW s \in svc, Served(s)
  PROVE  \/ Matching(s)' = Matching(s)
         \/ /\ FlapDamping
            /\ \A p \in Matching(s) : \E q \in Matching(s)' : Grown(p, q)
<1>0. pods \in SUBSET Pod
  BY DEF TypeOK
<1>1. svc = {s} /\ optedIn = {s.selector}
  BY DEF OptedInInv, OptedInEntry, Served
<1>2. \A P : MapPodToService(P) => \A p \in P : ~Selects(s, p)
  BY <1>1 DEF MapPodToService, Selects
<1>3. CASE PodUpdated
  <2>0. PICK p \in pods : \E q \in Updates(p) :
           /\ pods' = (pods \ {p}) \cup {q}
           /\ MeaningfulUpdate(p, q) => MapPodToService({p, q})
    BY <1>3 DEF PodUpdated
  <2>1. PICK q \in Updates(p) :
           /\ pods' = (pods \ {p}) \cup {q}
           /\ MeaningfulUpdate(p, q) => MapPodToService({p, q})
    BY <2>0
  <2>2. ~Selects(s, p) /\ ~Selects(s, q)
    BY <1>0, <1>2, <2>1, UpdatesTell
  <2> QED
    BY <2>1, <2>2 DEF Matching
<1>4. CASE PodCreated
  <2>1. PICK n \in PodName, x \in Label :
           /\ pods' = pods \cup {NewPod(n, x)}
           /\ MapPodToService({NewPod(n, x)})
    BY <1>4 DEF PodCreated
  <2>2. ~Selects(s, NewPod(n, x))
    BY <1>2, <2>1
  <2> QED
    BY <2>1, <2>2 DEF Matching
<1>5. CASE PodDeleted
  <2>1. PICK p \in pods : pods' = pods \ {p} /\ MapPodToService({p})
    BY <1>5 DEF PodDeleted
  <2>2. ~Selects(s, p)
    BY <1>2, <2>1
  <2> QED
    BY <2>1, <2>2 DEF Matching
<1>6. CASE PodMatures
  <2>1. PICK p \in pods : pods' = (pods \ {p}) \cup {[p EXCEPT !.mature = TRUE]}
    BY <1>6 DEF PodMatures
  <2>2. [p EXCEPT !.mature = TRUE].label = p.label
    BY <1>0 DEF Pod
  <2>3. \A r \in Matching(s) : \E q \in Matching(s)' : Grown(r, q)
    BY <2>1, <2>2 DEF Matching, Selects, Grown
  <2> QED
    BY <1>6, <2>3 DEF PodMatures
<1>7. CASE UNCHANGED pods
  BY <1>7 DEF Matching
<1>8. CASE Controller
  BY <1>7, <1>8, ControllerQueue
<1> QED
  BY <1>3, <1>4, <1>5, <1>6, <1>7, <1>8
  DEF Next, cluster, Informer, DeliverLeaderService, DeliverEndpointSlice,
      GarbageCollector, CollectLeaderService, CollectEndpointSlice,
      Environment, ServiceUpdated, ServiceDeleted, ServiceCreated,
      CacheExpires, Resync


\* A list that was fresh stays so.
LEMMA FreshStays ==
  ASSUME TypeOK, NEW P, NEW s, Fresh(P, Matching(s)),
         \/ Matching(s)' = Matching(s)
         \/ /\ FlapDamping
            /\ \A p \in Matching(s) : \E q \in Matching(s)' : Grown(p, q)
  PROVE  Fresh(P, Matching(s)')
<1>1. CASE Matching(s)' = Matching(s)
  BY <1>1
<1>2. CASE /\ FlapDamping
           /\ \A p \in Matching(s) : \E q \in Matching(s)' : Grown(p, q)
  <2>1. \A p \in Matching(s) : p \in Pod
    BY DEF TypeOK, Matching
  <2>2. ASSUME NEW p \in P
        PROVE  \E q \in Matching(s)' : Grown(p, q)
    <3>1. PICK q \in Matching(s) : Grown(p, q)
      BY DEF Fresh
    <3>2. PICK r \in Matching(s)' : Grown(q, r)
      BY <1>2
    <3>3. Grown(p, r)
      <4>1. q \in Pod
        BY <2>1
      <4>2. CASE q = p
        BY <3>2, <4>2
      <4>3. CASE q = [p EXCEPT !.mature = TRUE]
        <5>1. [q EXCEPT !.mature = TRUE] = q
          BY <4>1, <4>3 DEF Pod
        <5> QED
          BY <3>2, <4>3, <5>1 DEF Grown
      <4> QED
        BY <3>1, <4>2, <4>3 DEF Grown
    <3> QED
      BY <3>3
  <2> QED
    BY <1>2, <2>2 DEF Fresh
<1> QED
  BY <1>1, <1>2

\* Only a List takes the Pods of a reconcile.
LEMMA ControllerPods ==
  ASSUME TypeOK, Controller, pc' \in Serving \ {"list"}
  PROVE  \/ ListPods
         \/ pc \in Serving \ {"list"} /\ loc'.pods = loc.pods
<1>0. loc \in Locals
  BY DEF TypeOK
<1> USE DEF Serving, LeaderChosen
<1>1. CASE Reconcile
  BY <1>1 DEF Reconcile, Fail
<1>2. CASE SelectLeader
  BY <1>2, SelectLeaderLocals DEF SelectLeader
<1>3. CASE GetCurrentLeaderPod \/ DeleteUnresolvedSlice
  BY <1>3, CurrentLeaderLocals DEF GetCurrentLeaderPod, DeleteUnresolvedSlice
<1>4. CASE ReconcileLeaderService \/ ReconcileEndpointSlice
  BY <1>4 DEF ReconcileLeaderService, ReconcileEndpointSlice, Done, Fail
<1>5. CASE CleanupLeaderResources
  BY <1>5 DEF CleanupLeaderResources, CleanupByName, CleanupByLabel, Done, Fail
<1> QED
  BY <1>1, <1>2, <1>3, <1>4, <1>5 DEF Controller

LEMMA FreshInvNext ==
  ASSUME TypeOK, LabelsStay, OptedInInv, ReconcileInv, FreshInv, Next
  PROVE  FreshInv'
<1> SUFFICES ASSUME pc' \in Serving \ {"list"}, ~queued', NEW s \in svc'
             PROVE  Fresh(loc'.pods, Matching(s)')
  BY DEF FreshInv
<1>0. loc \in Locals
  BY DEF TypeOK
<1>1. CASE Controller
  <2>1. ~Reconcile
    BY DEF Reconcile, Fail, Serving, LeaderChosen
  <2>2. UNCHANGED <<pods, svc>> /\ ~queued
    BY <1>1, <2>1, ControllerQueue
  <2>3. Matching(s)' = Matching(s)
    BY <2>2 DEF Matching
  <2>4. CASE ListPods
    <3>1. loc.svc = {s} /\ loc.pods = {}
      BY <2>2, <2>4 DEF ListPods, ReconcileInv, OptedInInv, Serving
    <3>2. {p \in pods : \E t \in loc.svc : Selects(t, p)} = Matching(s)
      BY <3>1 DEF Matching
    <3>3. loc'.pods = Matching(s)
      BY <1>0, <2>4, <3>1, <3>2
      DEF ListPods, Fail, ReconcileLeader, Locals, Serving, LeaderChosen
    <3> QED
      BY <2>3, <3>3 DEF Fresh, Grown
  <2>5. CASE pc \in Serving \ {"list"} /\ loc'.pods = loc.pods
    BY <2>2, <2>3, <2>5 DEF FreshInv
  <2> QED
    BY <1>1, <2>4, <2>5, ControllerPods
<1>2. CASE Informer \/ GarbageCollector \/ Environment
  <2>1. ~Restart
    BY DEF Restart, Serving, LeaderChosen
  <2>2. UNCHANGED <<pc, loc, svc>> /\ ~queued
    BY <1>2, <2>1, BackgroundSteps
  <2>3. Fresh(loc.pods, Matching(s)) /\ Served(s)
    BY <2>2 DEF FreshInv, ReconcileInv
  <2>4. \/ Matching(s)' = Matching(s)
        \/ /\ FlapDamping
           /\ \A p \in Matching(s) : \E q \in Matching(s)' : Grown(p, q)
    BY <2>1, <2>2, <2>3, MatchingSteps
  <2> QED
    BY <2>2, <2>3, <2>4, FreshStays
<1> QED
  BY <1>1, <1>2 DEF Next


-----------------------------------------------------------------------------
(***************************************************************************)
(* The choice of the leader.                                               *)
(***************************************************************************)

\* An earliest candidate that cannot be routed to is why there is no leader.
LEMMA EarliestUnresolved ==
  ASSUME NEW P \in SUBSET Pod, Distinct(P), NEW p \in Earliest(Candidates(P)),
         NEW s, ~PortsResolve(s, Earliest(Candidates(P)))
  PROVE  ~PortsResolve(s, {p})
<1>1. \A q \in Earliest(Candidates(P)) : q = p
  <2>1. Single({})
    BY DEF Single
  <2>2. \A q \in Earliest(Candidates(P)) : q \in SelectLeaderPod(P, {}, TRUE)
    BY DEF SelectLeaderPod
  <2> QED
    BY <2>1, <2>2, SelectSingle
<1> QED
  BY <1>1 DEF PortsResolve

LEMMA SelectLeaderChoice ==
  ASSUME RoutingInv, SelectLeader
  PROVE  ChoiceInv'
<1>0. /\ TypeOK
      /\ loc.pods \in SUBSET Pod /\ Distinct(loc.pods)
      /\ UNCHANGED sliceView
  BY DEF RoutingInv, TypeOK, Locals, PodsDistinct, SelectLeader, informer
<1>1. PICK seen \in {Targets(sliceView[LocalName]), {}} :
         LET leader == SelectLeaderPod(loc.pods, seen, loc.bypass)
         IN  /\ loc'.svc = loc.svc /\ loc'.pods = loc.pods
             /\ loc'.seen = seen
             /\ \/ /\ loc'.leader = leader
                   /\ loc'.ports = ResolveServicePorts(Source, leader)
                \/ ~PortsResolve(Source, leader) /\ loc'.leader = {}
  BY <1>0, SelectLeaderLocals
<1> DEFINE leader == SelectLeaderPod(loc.pods, seen, loc.bypass)
<1>2. Source' = Source /\ LocalName' = LocalName
  BY <1>1, LocalNameStays
<1>3. KeptPod' = Kept(loc.pods, seen)
  BY <1>1 DEF KeptPod
<1>4. leader \subseteq loc.pods /\ \A p \in leader : IsPodReady(p)
  BY SelectedFromList
<1>5. ~Sticky \/ KeptPod' = {} => leader = Earliest(Candidates(loc.pods))
  BY <1>3 DEF SelectLeaderPod
<1> HIDE DEF leader
<1>6. \/ /\ loc'.leader = leader
         /\ loc'.ports = ResolveServicePorts(Source, leader)
      \/ ~PortsResolve(Source, leader) /\ loc'.leader = {}
  BY <1>1 DEF leader
<1>7. ASSUME KeptPod' = {}, NEW p \in Earliest(Candidates(loc'.pods))
      PROVE  p \in loc'.leader \/ ~PortsResolve(Source, {p})
  BY <1>0, <1>1, <1>5, <1>6, <1>7, EarliestUnresolved
<1>8. loc'.leader # {} => /\ loc'.leader = leader
                          /\ loc'.ports = ResolveServicePorts(Source, leader)
  BY <1>6
<1>9. loc'.leader \subseteq leader
  BY <1>6
<1>10. /\ loc'.leader # {} =>
             loc'.ports = ResolveServicePorts(Source', loc'.leader)
       /\ \A p \in Earliest(Candidates(loc'.pods)) :
             KeptPod' = {} => p \in loc'.leader \/ ~PortsResolve(Source', {p})
       /\ loc'.seen \in {{}, Targets(sliceView'[LocalName'])}
  BY <1>0, <1>1, <1>2, <1>7, <1>8
<1> QED
  BY <1>1, <1>4, <1>5, <1>9, <1>10 DEF ChoiceInv

LEMMA ChoiceInvNext ==
  ASSUME RoutingInv, ReconcileInv, ChoiceInv, Next
  PROVE  ChoiceInv'
<1>0. TypeOK
  BY DEF RoutingInv
<1>1. CASE UNCHANGED <<pc, loc>> /\ (queued => queued')
              /\ (queued' \/ UNCHANGED sliceView)
  <2>1. KeptPod' = KeptPod /\ Source' = Source /\ LocalName' = LocalName
    BY <1>1, LocalNameStays DEF KeptPod
  <2> QED
    BY <1>1, <2>1 DEF ChoiceInv
<1>2. CASE Controller
  <2> SUFFICES ASSUME pc' \in LeaderChosen
               PROVE  ChoiceInv'
    BY DEF ChoiceInv
  <2>1. CASE pc \in LeaderChosen
    <3>1. UNCHANGED <<loc, sliceView, queued>>
      BY <1>0, <1>2, <2>1, AfterSelection
    <3>2. KeptPod' = KeptPod /\ Source' = Source /\ LocalName' = LocalName
      BY <3>1, LocalNameStays DEF KeptPod
    <3> QED
      BY <2>1, <3>1, <3>2 DEF ChoiceInv
  <2>2. CASE ListPods /\ ReconcileLeader({}, {})
    <3>1. loc.pods = {}
      BY <2>2 DEF ListPods, ReconcileInv
    <3>2. loc'.leader = {} /\ loc'.pods = {} /\ loc'.seen = {}
      BY <1>0, <2>2, <3>1 DEF ReconcileLeader, TypeOK, Locals
    <3> QED
      BY <3>2 DEF ChoiceInv, Earliest, Candidates
  <2> QED
    BY <1>0, <1>2, <2>1, <2>2, SelectionSteps, SelectLeaderChoice
<1>3. CASE Informer \/ GarbageCollector \/ Environment
  <2>1. CASE Restart
    BY <2>1 DEF Restart, ChoiceInv, LeaderChosen
  <2> QED
    BY <1>0, <1>1, <1>3, <2>1, BackgroundSteps
<1> QED
  BY <1>2, <1>3 DEF Next


-----------------------------------------------------------------------------
(***************************************************************************)
(* The end of a reconcile, and what comes after it.                        *)
(***************************************************************************)

\* Ports are resolved for a Pod by its UID.
LEMMA GrownSame ==
  ASSUME NEW p \in Pod, NEW q, NEW s, Grown(p, q)
  PROVE  /\ Ref(q) = Ref(p)
         /\ IsPodReady(q) = IsPodReady(p)
         /\ ResolveServicePorts(s, {q}) = ResolveServicePorts(s, {p})
<1>1. q.uid = p.uid /\ q.name = p.name /\ q.status = p.status
  BY DEF Grown, Pod
<1>2. {NamedPort[r.uid] : r \in {q}} = {NamedPort[r.uid] : r \in {p}}
  BY <1>1
<1> QED
  BY <1>1, <1>2 DEF Ref, IsPodReady, ResolveServicePorts

\* A slice that is as the reconcile wants it is right.
LEMMA WantedIsRight ==
  ASSUME TypeOK, LeaderSingle, FreshInv, ChoiceInv, pc = "slice", ~queued,
         StrictAPI \/ ~FlapDamping, NEW s \in svc, s = Source,
         NEW f, f.target = NewTarget, f.ports = loc.ports,
         StrictAPI => f.target # {}, NewTarget = {} => KeptPod = {}
  PROVE  Right(f, s)
<1>1. /\ loc.leader \subseteq loc.pods
      /\ \A p \in loc.leader : IsPodReady(p)
      /\ loc.leader # {} => loc.ports = ResolveServicePorts(s, loc.leader)
      /\ ~Sticky => loc.leader \subseteq Earliest(Candidates(loc.pods))
      /\ KeptPod = {} => \A p \in Earliest(Candidates(loc.pods)) :
                            p \in loc.leader \/ ~PortsResolve(s, {p})
  BY DEF ChoiceInv, LeaderChosen
<1>2. Fresh(loc.pods, Matching(s))
  BY DEF FreshInv, Serving, LeaderChosen
<1>3. CASE NewTarget # {}
  <2>1. PICK p \in loc.leader : p.ip
    BY <1>3 DEF NewTarget
  <2>2. loc.leader = {p}
    BY DEF LeaderSingle
  <2>3. f.target = {Ref(p)} /\ f.ports = ResolveServicePorts(s, {p})
    BY <1>1, <2>1, <2>2 DEF NewTarget
  <2>4. p \in Pod /\ IsPodReady(p)
    BY <1>1 DEF TypeOK, Locals
  <2>5. CASE ~FlapDamping
    BY <1>1, <1>2, <2>3, <2>4, <2>5 DEF Fresh, Right, RoutesToLeader
  <2>6. CASE FlapDamping
    <3>1. PICK q \in Matching(s) : Grown(p, q)
      BY <1>1, <1>2 DEF Fresh
    <3> QED
      BY <2>3, <2>4, <2>6, <3>1, GrownSame DEF Right, RoutesToLeader
  <2> QED
    BY <2>5, <2>6
<1>4. CASE NewTarget = {}
  <2>1. ~FlapDamping /\ loc.pods = Matching(s)
    BY <1>2, <1>4 DEF Fresh
  <2>2. \A p \in loc.leader : ~p.ip
    BY <1>4 DEF NewTarget
  <2> QED
    BY <1>1, <1>4, <2>1, <2>2 DEF Right, RoutesNowhere
<1> QED
  BY <1>3, <1>4

\* A last write that changes nothing, when no event is on its way, found the
\* slice right.
LEMMA QuietReconcile ==
  ASSUME RoutingInv, InSync, FreshInv, ChoiceInv, pc = "slice", ~queued,
         StrictAPI \/ ~FlapDamping, NEW s \in svc, s = Source,
         NEW l \in LeaderName, l = LocalName,
         NEW owners \in SUBSET LeaderService, WriteSlice(l, owners),
         sliceWatch'[l] = <<>>
  PROVE  \E f \in slice'[l] : Right(f, s)
<1>1. /\ slice'[l] = slice[l] /\ sliceView[l] = slice[l]
      /\ \A g \in slice[l] : g.target = NewTarget
  BY QuietSlice
<1>2. PICK f \in slice[l] : f \in WantedSlice(l, owners) /\ f.ports = loc.ports
  BY QuietSlice
<1>3. StrictAPI => f.target # {}
  BY <1>2 DEF WriteSlice, SliceAccepted, ValidSlice
<1>4. NewTarget = {} => KeptPod = {}
  <2>1. NewTarget = {} => Targets(sliceView[l]) = {}
    BY <1>1 DEF Targets
  <2>2. loc.seen \in {{}, Targets(sliceView[l])}
    BY DEF ChoiceInv, LeaderChosen
  <2> QED
    BY <2>1, <2>2 DEF KeptPod, Kept, Uids
<1>5. Right(f, s)
  BY <1>1, <1>2, <1>3, <1>4, WantedIsRight DEF RoutingInv
<1> QED
  BY <1>1, <1>2, <1>5


\* A slice that is right stays so while no Pod that the Service selects changes,
\* but for one that matures.
LEMMA RightStays ==
  ASSUME TypeOK, NEW s, NEW e, Right(e, s),
         \/ Matching(s)' = Matching(s)
         \/ /\ FlapDamping
            /\ \A p \in Matching(s) : \E q \in Matching(s)' : Grown(p, q)
  PROVE  Right(e, s)'
<1>1. CASE Matching(s)' = Matching(s)
  BY <1>1 DEF Right, RoutesToLeader, RoutesNowhere
<1>2. CASE /\ FlapDamping
           /\ \A p \in Matching(s) : \E q \in Matching(s)' : Grown(p, q)
  <2>1. PICK p \in Matching(s) :
           /\ IsPodReady(p)
           /\ e.target = {Ref(p)}
           /\ e.ports = ResolveServicePorts(s, {p})
    BY <1>2 DEF Right, RoutesToLeader, RoutesNowhere
  <2>2. PICK q \in Matching(s)' : Grown(p, q)
    BY <1>2
  <2>3. p \in Pod
    BY DEF TypeOK, Matching
  <2>4. /\ Ref(q) = Ref(p)
        /\ IsPodReady(q) = IsPodReady(p)
        /\ ResolveServicePorts(s, {q}) = ResolveServicePorts(s, {p})
    BY <2>2, <2>3, GrownSame
  <2> QED
    BY <1>2, <2>1, <2>2, <2>4 DEF Right, RoutesToLeader
<1> QED
  BY <1>1, <1>2

\* A reconcile that ends and leaves nothing on the work queue wrote the slice,
\* or had none to write.
LEMMA ControllerEnds ==
  ASSUME TypeOK, OptedInInv, ReconcileInv, Controller, pc' = "idle", ~queued',
         NEW s \in svc, Served(s)
  PROVE  /\ pc = "slice" /\ ~queued
         /\ \E owners \in SUBSET LeaderService : WriteSlice(LocalName, owners)
<1>1. CASE Reconcile
  BY <1>1 DEF Reconcile, Fail, OptedInInv, Served
<1>2. CASE ListPods \/ GetCurrentLeaderPod \/ SelectLeader
              \/ DeleteUnresolvedSlice
  BY <1>2 DEF ListPods, Fail, ReconcileLeader, GetCurrentLeaderPod,
              SelectLeader, Select, DeleteUnresolvedSlice
<1>3. CASE ReconcileLeaderService
  BY <1>3 DEF ReconcileLeaderService, Fail
<1>4. CASE ReconcileEndpointSlice
  <2>1. leaderSvcView[LocalName] \in SUBSET LeaderService
    BY LocalNameType DEF TypeOK
  <2> QED
    BY <1>4, <2>1 DEF ReconcileEndpointSlice, Done, Fail
<1>5. CASE CleanupLeaderResources
  BY <1>5 DEF CleanupLeaderResources, CleanupByName, CleanupByLabel, Done,
              Fail, ReconcileInv, Served
<1> QED
  BY <1>1, <1>2, <1>3, <1>4, <1>5 DEF Controller

\* At rest no slice changes but by the garbage collector, which is an event.
LEMMA RestSlices ==
  ASSUME TypeOK, Next, pc = "idle", ~queued', ~Restart,
         NEW l \in LeaderName, sliceWatch'[l] = <<>>
  PROVE  slice'[l] = slice[l] /\ sliceWatch[l] = <<>>
<1>1. CASE OneWrite
  <2>1. PICK m \in LeaderName, new \in SUBSET EndpointSlice : PutSlice(m, new)
    BY <1>1, OneWritePuts
  <2> QED
    BY <2>1, QuietWrite
<1>2. CASE NoWrite
  BY <1>2 DEF NoWrite
<1>3. ASSUME NEW m \in LeaderName, DeliverEndpointSlice(m)
      PROVE  FALSE
  BY <1>3 DEF DeliverEndpointSlice
<1> QED
  BY <1>1, <1>2, <1>3, SliceSteps

RestingInv ==
    /\ RoutingInv
    /\ InSync
    /\ OptedInInv
    /\ ReconcileInv
    /\ FreshInv
    /\ ChoiceInv
    /\ RestInv

LEMMA RestInvNext ==
  ASSUME Attentive, RestingInv, Next
  PROVE  RestInv'
<1> SUFFICES ASSUME pc' = "idle", ~queued', NEW s \in svc', Served(s),
                    sliceWatch'[GetLeaderServiceName(s)] = <<>>
             PROVE  \E e \in slice'[GetLeaderServiceName(s)] : Right(e, s)'
  BY DEF RestInv, Served, GetLeaderServiceName
<1> DEFINE l == GetLeaderServiceName(s)
<1>0. /\ TypeOK /\ RoutingInv /\ OptedInInv /\ ReconcileInv
      /\ InSync /\ FreshInv /\ ChoiceInv
      /\ l \in LeaderName
  BY LeaderNameType DEF RestingInv, RoutingInv
<1>1. ~Restart
  BY DEF Restart, cluster
<1>2. CASE Controller
  <2>1. UNCHANGED <<pods, svc>>
    BY <1>0, <1>2, ControllerQueue
  <2>2. PICK owners \in SUBSET LeaderService :
           pc = "slice" /\ ~queued /\ WriteSlice(LocalName, owners)
    BY <1>0, <1>2, <2>1, ControllerEnds
  <2>3. s = Source /\ l = LocalName
    <3>1. loc.svc = {s}
      BY <1>0, <2>1, <2>2 DEF ReconcileInv, OptedInInv, Serving, LeaderChosen
    <3>2. (CHOOSE t \in {s} : TRUE) = s
      OBVIOUS
    <3> QED
      BY <3>1, <3>2 DEF Source, LocalName
  <2>4. PICK f \in slice'[l] : Right(f, s)
    BY <1>0, <2>1, <2>2, <2>3, QuietReconcile DEF Attentive
  <2>5. Matching(s)' = Matching(s)
    BY <2>1 DEF Matching
  <2>6. Right(f, s)'
    BY <1>0, <2>4, <2>5, RightStays
  <2> QED
    BY <2>6
<1>3. CASE Informer \/ GarbageCollector \/ Environment
  <2>1. UNCHANGED <<pc, svc>> /\ ~queued
    BY <1>0, <1>1, <1>3, BackgroundSteps
  <2>2. slice'[l] = slice[l] /\ sliceWatch[l] = <<>>
    BY <1>0, <1>1, <2>1, RestSlices
  <2>3. PICK e \in slice[l] : Right(e, s)
    BY <2>1, <2>2 DEF RestingInv, RestInv
  <2>4. \/ Matching(s)' = Matching(s)
        \/ /\ FlapDamping
           /\ \A p \in Matching(s) : \E q \in Matching(s)' : Grown(p, q)
    BY <1>0, <1>1, <2>1, MatchingSteps DEF Attentive
  <2>5. Right(e, s)'
    BY <1>0, <2>3, <2>4, RightStays
  <2> QED
    BY <2>2, <2>5
<1> QED
  BY <1>2, <1>3 DEF Next

-----------------------------------------------------------------------------

LEMMA RestingInvariant ==
  ASSUME Attentive
  PROVE  Spec => []RestingInv
<1>1. Init => InSync /\ OptedInInv /\ ReconcileInv /\ FreshInv /\ ChoiceInv
                  /\ RestInv
  <2>1. Init => InSync
    BY DEF Init, InSync, Newest
  <2>2. Init => OptedInInv
    BY ServiceAssumption DEF Init, OptedInInv
  <2>3. Init => ReconcileInv /\ FreshInv /\ ChoiceInv
    BY DEF Init, ReconcileInv, FreshInv, ChoiceInv, Serving, LeaderChosen
  <2>4. Init => RestInv
    BY DEF Init, RestInv
  <2> QED
    BY <2>1, <2>2, <2>3, <2>4
<1>2. RestingInv /\ RoutingInv' /\ [Next]_vars => RestingInv'
  <2>1. CASE Next
    <3>1. RestingInv /\ Next => InSync' /\ OptedInInv' /\ ReconcileInv'
      BY InSyncNext, OptedInInvNext, ReconcileInvNext DEF RestingInv, RoutingInv
    <3>2. RestingInv /\ Next => FreshInv' /\ ChoiceInv'
      BY FreshInvNext, ChoiceInvNext DEF RestingInv, RoutingInv, Attentive
    <3> QED
      BY <2>1, <3>1, <3>2, RestInvNext DEF RestingInv
  <2>2. CASE UNCHANGED vars
    <3>1. UNCHANGED <<pods, svc, slice, sliceView, sliceWatch, optedIn, queued,
                      pc, loc>>
      BY <2>2 DEF vars, cluster, api, informer
    <3>2. KeptPod' = KeptPod /\ Source' = Source /\ LocalName' = LocalName
      BY <3>1, LocalNameStays DEF KeptPod
    <3>3. InSync => InSync'
      BY <3>1 DEF InSync, Newest
    <3>4. OptedInInv => OptedInInv'
      BY <3>1 DEF OptedInInv, OptedInEntry
    <3>5. ReconcileInv => ReconcileInv'
      BY <3>1 DEF ReconcileInv
    <3>6. FreshInv => FreshInv'
      BY <3>1 DEF FreshInv, Matching
    <3>7. ChoiceInv => ChoiceInv'
      BY <3>1, <3>2 DEF ChoiceInv
    <3>8. RestInv => RestInv'
      BY <3>1 DEF RestInv, Right, RoutesToLeader, RoutesNowhere, Matching
    <3> QED
      BY <3>3, <3>4, <3>5, <3>6, <3>7, <3>8 DEF RestingInv
  <2> QED
    BY <2>1, <2>2
<1> QED
  BY <1>1, <1>2, RoutingInvariant, PTL DEF Spec, RestingInv

\* A right slice routes to a Ready Pod on its port, or to none with a reason.
LEMMA RightRoutes ==
  ASSUME NEW e, NEW s, Right(e, s)
  PROVE  Routes(e, s)
BY DEF Right, RoutesToLeader, RoutesNowhere, Routes

LEMMA RestRouted == RestingInv => QuiescentRouted
<1> SUFFICES ASSUME RestingInv, Quiescent, NEW s \in svc, Served(s)
             PROVE  /\ leaderSvc[GetLeaderServiceName(s)] # {}
                    /\ \E e \in slice[GetLeaderServiceName(s)] : Routes(e, s)
  BY DEF QuiescentRouted
<1>1. PICK e \in slice[GetLeaderServiceName(s)] : Right(e, s)
  BY LeaderNameType DEF RestingInv, RestInv, Quiescent
<1> QED
  BY <1>1, RightRoutes, LeaderNameType DEF Quiescent

\* Whatever Pods, users, faults, lags and crashes did before: when the work
\* queue is empty, the watches have been delivered and the garbage collector
\* has nothing to do, the leader Service leads to a Ready Pod of its source
\* Service on the right port, or to none because none can be routed to.
THEOREM RestIsRouted ==
  ASSUME Attentive
  PROVE  Spec => []QuiescentRouted
BY RestingInvariant, RestRouted, PTL

LEMMA RestEarliest ==
  ASSUME ~FlapDamping
  PROVE  RestingInv => EarliestLeads
<1> SUFFICES ASSUME RestingInv, Quiescent, ~Sticky, NEW s \in svc, Served(s),
                    NEW e \in slice[GetLeaderServiceName(s)],
                    NEW p \in Lookup(e.target),
                    NEW q \in Candidates(Matching(s))
             PROVE  /\ CreatedAt[p.uid] <= CreatedAt[q.uid]
                    /\ CreatedAt[p.uid] = CreatedAt[q.uid] => p.name <= q.name
  BY DEF EarliestLeads
<1>1. PICK f \in slice[GetLeaderServiceName(s)] : Right(f, s)
  BY LeaderNameType DEF RestingInv, RestInv, Quiescent
<1>2. e.target = f.target
  BY <1>1, LeaderNameType DEF RestingInv, RoutingInv, SlicesSingle, Single
<1>3. p \in pods /\ Ref(p) \in f.target
  BY <1>2 DEF Lookup
<1>4. PICK r \in Matching(s) :
         /\ f.target = {Ref(r)}
         /\ r \in Earliest(Candidates(Matching(s)))
  BY <1>1, <1>3 DEF Right, RoutesToLeader, RoutesNowhere
<1>5. p = r
  BY <1>3, <1>4
  DEF Matching, Ref, RestingInv, RoutingInv, PodsDistinct, Distinct
<1>6. p = q \/ Before(p, q)
  BY <1>4, <1>5 DEF Earliest
<1>7. p \in Pod /\ q \in Pod
  BY <1>3 DEF RestingInv, RoutingInv, TypeOK, Candidates, Matching
<1>8. /\ CreatedAt[p.uid] \in Nat /\ CreatedAt[q.uid] \in Nat
      /\ p.name \in Nat /\ q.name \in Nat
  BY <1>7, PodAssumption DEF Pod
<1> QED
  BY <1>6, <1>8 DEF Before

\* Without stickiness and min-ready-duration, the Pod that leads at rest is the
\* earliest Ready one, whatever was cached or written on the way.
THEOREM EarliestLeadsAtRest ==
  ASSUME LabelsStay, ~FlapDamping
  PROVE  Spec => []EarliestLeads
<1>1. Attentive
  BY DEF Attentive
<1> QED
  BY <1>1, RestingInvariant, RestEarliest, PTL

-----------------------------------------------------------------------------

ServingInv == TypeOK /\ OptedInInv /\ ReconcileInv

LEMMA ServingInvariant == Spec => []ServingInv
<1>1. Init => OptedInInv
  BY ServiceAssumption DEF Init, OptedInInv
<1>2. Init => ReconcileInv
  BY DEF Init, ReconcileInv, Serving, LeaderChosen
<1>3. TypeOK /\ OptedInInv /\ ReconcileInv /\ [Next]_vars =>
         OptedInInv' /\ ReconcileInv'
  <2>1. CASE Next
    BY <2>1, OptedInInvNext, ReconcileInvNext
  <2>2. CASE UNCHANGED vars
    <3>1. UNCHANGED <<svc, optedIn, queued, pc, loc>>
      BY <2>2 DEF vars, cluster
    <3> QED
      BY <3>1 DEF OptedInInv, OptedInEntry, ReconcileInv
  <2> QED
    BY <2>1, <2>2
<1> QED
  BY <1>1, <1>2, <1>3, TypeCorrect, PTL DEF Spec, ServingInv

\* A reconcile that cleans up although the source Service is served has been
\* overtaken by an edit, and only the next reconcile takes that off the queue.
LEMMA CleanupRestores ==
  ASSUME ServingInv, Next
  PROVE  ServedIsRestored
<1> SUFFICES ASSUME pc = "cleanup", NEW s \in svc, Served(s)
             PROVE  queued'
  BY DEF ServedIsRestored
<1>1. queued
  BY DEF ServingInv, ReconcileInv, Served
<1>2. CASE Controller
  <2>1. ~Reconcile
    BY DEF Reconcile
  <2> QED
    BY <1>1, <1>2, <2>1, ControllerQueue DEF ServingInv
<1>3. CASE Restart
  BY <1>3 DEF Restart
<1> QED
  BY <1>1, <1>2, <1>3, BackgroundSteps DEF Next, ServingInv

\* For any edits, deletions, re-creations, failed reads and crashes: when the
\* cleanup deletes the leader Service of a Service that is served again, the
\* next reconcile restores it (cleanupLeaderResources, which deletes by name or
\* by label, and the work queue).
THEOREM CleanupRestoresServed == Spec => CleanupKeepsServed
<1>1. ServingInv /\ [Next]_vars => [ServedIsRestored]_vars
  BY CleanupRestores
<1> QED
  BY <1>1, ServingInvariant, PTL DEF CleanupKeepsServed, Spec

=============================================================================
