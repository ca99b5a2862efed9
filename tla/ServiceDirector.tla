--------------------------- MODULE ServiceDirector ---------------------------
(***************************************************************************)
(* The reconciler of pkg/director/service_director.go for one opted-in     *)
(* source Service: it elects one Ready Pod of the Service as the leader    *)
(* and routes the selector-less leader Service to it, through one          *)
(* EndpointSlice.                                                          *)
(*                                                                         *)
(* Every read of the reconciler is answered by an informer, which may lag  *)
(* behind the API server; every write goes to the API server.  The         *)
(* reconciler only reads Pods and the source Service, so `pods' and `svc'  *)
(* are the informer's copies of them.  The leader Services and the         *)
(* EndpointSlices, which it writes, exist twice: at the API server and in  *)
(* the informer, with the watch events not yet delivered in between.       *)
(*                                                                         *)
(* A set of at most one element stands for a pointer that may be nil, an   *)
(* object that may not exist, or an annotation that may not be there.      *)
(***************************************************************************)
EXTENDS Integers, Sequences, FiniteSets

CONSTANTS
    PodName,        \* names of Pods; their order is the lexical order
    MaxPodUid,      \* bound on the number of Pods ever created
    CreatedAt,      \* creation timestamp of a Pod, by UID (ties happen)
    NamedPort,      \* number of the container port a Pod declares under the
                    \* name the Service targets, 0 if it declares none
    Label,          \* values of the label that the Service selects by
    LeaderName,     \* names of leader Services
    DefaultLeader,  \* <service>-leader
    Custom,         \* values of the leader-service-name annotation
    UserServices,   \* leader names taken by Services of the user
    Sticky,         \* the sticky annotation is not "false"
    FlapDamping,    \* the min-ready-duration annotation is positive
    CacheEnabled,   \* the leader Pod cache is enabled
    StrictAPI,      \* the API server validates what is written
    InitPods,       \* Pods at the start
    InitSvc,        \* source Service at the start
    PodChanges,     \* kinds of Pod updates that happen
    SvcChanges,     \* kinds of updates of the source Service that happen
    Budget,         \* how often the environment acts: fields pod, svc,
                    \* fault and restart
    MaxLag          \* bound on the undelivered watch events of one object

PodUid == 1 .. MaxPodUid

ServicePort == 80

Pod == [name : PodName, uid : PodUid, label : Label,
        status : {"NotReady", "Ready", "Failed"}, mature : BOOLEAN,
        deleting : BOOLEAN, ip : BOOLEAN]

PodRef == [name : PodName, uid : PodUid]

PortNumber == Nat \ {0}

\* `port' is the Service's targetPort; "none" means that it has no port.
SourceService == [uid : Nat, enabled : BOOLEAN, selector : SUBSET Label,
                  custom : Custom, port : {"none", "number", "named"}]

LeaderService == [uid : Nat, managed : BOOLEAN, owner : Nat,
                  leader : SUBSET PodUid, ports : SUBSET PortNumber]

EndpointSlice == [owner : Nat, target : SUBSET PodRef,
                  ports : SUBSET PortNumber]

PodChangeKind == {"ready", "unready", "fail", "terminate", "getIP", "loseIP",
                  "relabel", "create", "delete"}

SvcChangeKind == {"enable", "disable", "select", "rename", "retarget",
                  "delete", "create"}

ASSUME PodAssumption ==
    /\ PodName \subseteq Nat
    /\ MaxPodUid \in Nat
    /\ CreatedAt \in [PodUid -> Nat]
    /\ NamedPort \in [PodUid -> Nat]
    /\ InitPods \subseteq Pod /\ IsFiniteSet(InitPods)
    /\ \A p \in InitPods : p.uid <= Cardinality(InitPods)
    /\ \A p, q \in InitPods : p.uid = q.uid => p = q
    /\ PodChanges \subseteq PodChangeKind

ASSUME ServiceAssumption ==
    /\ DefaultLeader \in LeaderName
    /\ UserServices \subseteq LeaderName
    /\ InitSvc \subseteq SourceService
    /\ \A s, t \in InitSvc : s = t
    /\ \A s \in InitSvc : s.uid # 0
    /\ SvcChanges \subseteq SvcChangeKind

ASSUME BoundAssumption ==
    /\ Budget \in [{"pod", "svc", "fault", "restart"} -> Nat]
    /\ MaxLag \in Nat \ {0}

ASSUME FlagAssumption ==
    /\ Sticky \in BOOLEAN
    /\ FlapDamping \in BOOLEAN
    /\ CacheEnabled \in BOOLEAN
    /\ StrictAPI \in BOOLEAN

VARIABLES
    pods,            \* Pods of the namespace, as the informer has them
    svc,             \* source Service, as the informer has it
    nextPodUid,      \* UID of the next Pod
    everReady,       \* history: UIDs of the Pods that were ever Ready
    leaderSvc,       \* leader Services at the API server
    slice,           \* EndpointSlices at the API server
    nextUid,         \* UID of the next Service
    leaderSvcView,   \* leader Services in the informer
    sliceView,       \* EndpointSlices in the informer
    leaderSvcWatch,  \* versions of a leader Service not yet delivered
    sliceWatch,      \* versions of an EndpointSlice not yet delivered
    leaderPodCache,  \* the reconciler's cached leader Pod
    optedIn,         \* the opted-in cache's entry: the Service's selector
    queued,          \* the work queue holds the source Service
    pc,              \* what the reconcile in progress does next
    loc,             \* its local variables
    left             \* what is left of Budget

cluster  == <<pods, svc, nextPodUid, everReady>>
api      == <<leaderSvc, slice, nextUid>>
informer == <<leaderSvcView, sliceView, leaderSvcWatch, sliceWatch>>
vars     == <<cluster, api, informer, leaderPodCache, optedIn, queued, pc,
              loc, left>>

Step == {"idle", "list", "current", "select", "unresolved", "service",
         "slice", "cleanup"}

\* `seen' is history: the endpoints that the selection saw in the slice.
Locals == [svc : SUBSET SourceService, pods : SUBSET Pod,
           cur : SUBSET PodUid, bypass : BOOLEAN, seen : SUBSET PodRef,
           leader : SUBSET Pod, ports : SUBSET PortNumber]

NoLocals == [svc |-> {}, pods |-> {}, cur |-> {}, bypass |-> FALSE,
             seen |-> {}, leader |-> {}, ports |-> {}]

-----------------------------------------------------------------------------
(***************************************************************************)
(* Helpers of the reconciler.                                              *)
(***************************************************************************)

IsPodReady(p) == p.status = "Ready"

GetLeaderServiceName(s) ==
    IF s.custom \in LeaderName THEN s.custom ELSE DefaultLeader

\* The Service that the reconcile in progress has read, and its leader's name.
Source == CHOOSE s \in loc.svc : TRUE

LocalName == GetLeaderServiceName(Source)

Ref(p) == [name |-> p.name, uid |-> p.uid]

Uids(P) == {p.uid : p \in P}

\* updateLeaderPodCache and clearLeaderPodCache
CacheEntry(P) == IF CacheEnabled THEN {Ref(p) : p \in P} ELSE {}

\* What the opted-in cache holds of the source Service after an update.
OptedInEntry == {s.selector : s \in {t \in svc : t.enabled /\ t.selector # {}}}

Selects(s, p) == p.label \in s.selector

-----------------------------------------------------------------------------
(***************************************************************************)
(* Ends of a reconcile: nil takes the key off, an error requeues it.       *)
(***************************************************************************)

\* Mutant of Done: the key is taken off although it was added again meanwhile.
DoneForgetsKey ==
    /\ pc' = "idle"
    /\ loc' = NoLocals
    /\ queued' = FALSE

Done ==
    /\ pc' = "idle"
    /\ loc' = NoLocals
    /\ UNCHANGED queued

\* Mutant of Fail: the error is logged and dropped.
SwallowError == Done

Fail ==
    /\ pc' = "idle"
    /\ loc' = NoLocals
    /\ queued' = TRUE

\* A disturbance: reads or writes of one step fail, or an answer is lost.
Faulty ==
    /\ left.fault > 0
    /\ left' = [left EXCEPT !.fault = @ - 1]

(***************************************************************************)
(* Writes to the API server.  A write that changes the object produces a   *)
(* watch event, one that does not produces none.                           *)
(***************************************************************************)

PutLeaderService(l, new) ==
    /\ Len(leaderSvcWatch[l]) < MaxLag
    /\ leaderSvc' = [leaderSvc EXCEPT ![l] = new]
    /\ leaderSvcWatch' = IF new = leaderSvc[l] THEN leaderSvcWatch
                         ELSE [leaderSvcWatch EXCEPT ![l] = Append(@, new)]

PutSlice(l, new) ==
    /\ Len(sliceWatch[l]) < MaxLag
    /\ slice' = [slice EXCEPT ![l] = new]
    /\ sliceWatch' = IF new = slice[l] THEN sliceWatch
                     ELSE [sliceWatch EXCEPT ![l] = Append(@, new)]

-----------------------------------------------------------------------------
(***************************************************************************)
(* Reconcile, one action per read or write.                                *)
(***************************************************************************)

Reconcile ==
    /\ pc = "idle"
    /\ queued
    /\ \/ /\ optedIn' = OptedInEntry
          /\ queued' = FALSE
          /\ UNCHANGED left
          /\ \/ /\ \A s \in svc : ~s.enabled
                /\ pc' = "cleanup"
                /\ UNCHANGED loc
             \/ /\ \E s \in svc : s.enabled /\ s.selector = {}
                /\ UNCHANGED <<pc, loc>>
             \/ /\ \E s \in svc : s.enabled /\ s.selector # {}
                /\ pc' = "list"
                /\ loc' = [NoLocals EXCEPT !.svc = svc]
       \/ /\ svc = {}  \* the List that refreshes the opted-in cache fails
          /\ pc' = "cleanup"
          /\ queued' = FALSE
          /\ UNCHANGED <<optedIn, loc, left>>
       \/ /\ Faulty    \* the Get of the source Service fails
          /\ optedIn' \in {optedIn, OptedInEntry}
          /\ Fail
    /\ UNCHANGED <<cluster, api, informer, leaderPodCache>>

(***************************************************************************)
(* resolveServicePorts.  A named targetPort needs a leader that declares   *)
(* it; everything else resolves.                                           *)
(***************************************************************************)
\* Mutant of PortsResolve: any leader will do.
AnyLeaderResolves(s, leader) == s.port = "named" => leader # {}

PortsResolve(s, leader) ==
    s.port = "named" =>
        leader # {} /\ \A p \in leader : NamedPort[p.uid] # 0

ResolveServicePorts(s, leader) ==
    CASE s.port = "none"   -> {}
      [] s.port = "number" -> {ServicePort}
      [] s.port = "named"  -> {NamedPort[p.uid] : p \in leader}

\* reconcileLeaderService up to its first write
ReconcileLeader(leader, seen) ==
    IF PortsResolve(Source, leader)
    THEN /\ pc' = "service"
         /\ loc' = [loc EXCEPT !.seen = seen, !.leader = leader,
                               !.ports = ResolveServicePorts(Source, leader)]
    ELSE /\ pc' = "unresolved"
         /\ loc' = [loc EXCEPT !.seen = seen, !.leader = {}, !.ports = {}]

ListPods ==
    /\ pc = "list"
    /\ LET found == {p \in pods : \E s \in loc.svc : Selects(s, p)}
       IN  \/ /\ found = {}
              /\ ReconcileLeader({}, {})
              /\ UNCHANGED <<queued, left>>
           \/ /\ found # {}
              /\ pc' = "current"
              /\ loc' = [loc EXCEPT !.pods = found]
              /\ UNCHANGED <<queued, left>>
           \/ Faulty /\ Fail
    /\ UNCHANGED <<cluster, api, informer, leaderPodCache, optedIn>>

(***************************************************************************)
(* getCurrentLeaderPod and the leader fast path: the leader is the cached  *)
(* Pod if it still exists with the same UID, else the EndpointSlice's; if  *)
(* it is unhealthy it is forgotten and the next selection is not sticky.   *)
(* A read that fails counts as one that finds nothing.                     *)
(***************************************************************************)
Lookup(refs) == {p \in pods : Ref(p) \in refs}

Targets(slices) == UNION {e.target : e \in slices}

Unhealthy(p) == p.deleting \/ ~IsPodReady(p) \/ ~p.ip

\* The fast path, after reads that answered as they did.
CurrentLeader(cached, seen, found) ==
    LET cur == IF cached # {} THEN cached ELSE found
        bypass == \E p \in cur : Unhealthy(p)
    IN  /\ loc' = [loc EXCEPT !.cur = IF bypass THEN {} ELSE Uids(cur),
                              !.bypass = bypass]
        /\ leaderPodCache' = IF bypass THEN {}
                             ELSE IF cached # {} \/ seen = {}
                                  THEN leaderPodCache
                                  ELSE CacheEntry(cur)

GetCurrentLeaderPod ==
    /\ pc = "current"
    /\ \E cached \in {Lookup(leaderPodCache), {}},
          seen \in {sliceView[LocalName], {}} :
       \E found \in {Lookup(Targets(seen)), {}} :
          /\ CurrentLeader(cached, seen, found)
          /\ \/ /\ cached = Lookup(leaderPodCache)
                /\ seen = sliceView[LocalName]
                /\ found = Lookup(Targets(seen))
                /\ UNCHANGED left
             \/ /\ cached = {}
                /\ \/ Lookup(leaderPodCache) # {}
                   \/ seen # sliceView[LocalName]
                   \/ found # Lookup(Targets(seen))
                /\ Faulty
    /\ pc' = "select"
    /\ UNCHANGED <<cluster, api, informer, optedIn, queued>>

(***************************************************************************)
(* selectLeaderPod: keep the EndpointSlice's Pod while it is Ready, else   *)
(* the earliest Ready Pod, by creation timestamp and then by name.         *)
(***************************************************************************)
\* Mutant of Before: the newest Pod comes first.
NewestFirst(p, q) ==
    \/ CreatedAt[q.uid] < CreatedAt[p.uid]
    \/ CreatedAt[p.uid] = CreatedAt[q.uid] /\ p.name < q.name

Before(p, q) ==
    \/ CreatedAt[p.uid] < CreatedAt[q.uid]
    \/ CreatedAt[p.uid] = CreatedAt[q.uid] /\ p.name < q.name

Earliest(P) == {p \in P : \A q \in P : q = p \/ Before(p, q)}

\* Mutant of Candidates: readiness is not looked at.
AnyPod(P) == P

Candidates(P) == {p \in P : IsPodReady(p) /\ (FlapDamping => p.mature)}

\* The Pods among P that are Ready and that an endpoint refers to.
Kept(P, refs) == {p \in P : IsPodReady(p) /\ p.uid \in Uids(refs)}

\* Mutant of SelectLeaderPod: stickiness is forgotten.
AlwaysEarliest(P, refs, bypass) == Earliest(Candidates(P))

SelectLeaderPod(P, refs, bypass) ==
    IF Sticky /\ ~bypass /\ Kept(P, refs) # {}
    THEN Kept(P, refs)
    ELSE Earliest(Candidates(P))

\* The selection, the cache update on a change, and the port resolution.
Select(seen) ==
    LET leader == SelectLeaderPod(loc.pods, seen, loc.bypass)
    IN  /\ leaderPodCache' = IF Uids(leader) # loc.cur
                             THEN CacheEntry(leader)
                             ELSE leaderPodCache
        /\ ReconcileLeader(leader, seen)

\* Whatever error the Get of the slice returns, there is no leader to keep.
SelectLeader ==
    /\ pc = "select"
    /\ \/ /\ Select(Targets(sliceView[LocalName]))
          /\ UNCHANGED left
       \/ /\ Sticky /\ ~loc.bypass
          /\ Faulty
          /\ Select({})
    /\ UNCHANGED <<cluster, api, informer, optedIn, queued>>

(***************************************************************************)
(* Ports did not resolve: the EndpointSlice is deleted, if the informer    *)
(* has it; errors of the Get and the deletion are ignored.                 *)
(***************************************************************************)
DeleteUnresolvedSlice ==
    /\ pc = "unresolved"
    /\ \/ /\ sliceView[LocalName] # {}
          /\ PutSlice(LocalName, {})
          /\ UNCHANGED left
       \/ /\ sliceView[LocalName] = {}
          /\ UNCHANGED <<slice, sliceWatch, left>>
       \/ /\ sliceView[LocalName] # {}
          /\ Faulty
          /\ UNCHANGED <<slice, sliceWatch>>
    /\ pc' = "service"
    /\ UNCHANGED <<cluster, leaderSvc, nextUid, leaderSvcView, sliceView,
                   leaderSvcWatch, leaderPodCache, optedIn, queued, loc>>

(***************************************************************************)
(* The create-or-patch of the leader Service.  What the informer holds     *)
(* decides between the two, and is the base of the merge patch: only the   *)
(* fields in which it differs from the wanted object are sent.             *)
(***************************************************************************)
Merge(base, want, have) == IF want = base THEN have ELSE want

\* Mutant of NewLeaderService: no ownerReference to the source Service.
UnownedLeaderService ==
    {[uid |-> nextUid, managed |-> TRUE, owner |-> 0,
      leader |-> Uids(loc.leader), ports |-> loc.ports] : s \in loc.svc}

NewLeaderService ==
    {[uid |-> nextUid, managed |-> TRUE, owner |-> s.uid,
      leader |-> Uids(loc.leader), ports |-> loc.ports] : s \in loc.svc}

PatchLeaderService(o, v) ==
    [o EXCEPT !.leader = Merge(v.leader, Uids(loc.leader), @),
              !.ports = Merge(v.ports, loc.ports, @)]

PatchedLeaderService(l) ==
    {PatchLeaderService(o, v) : o \in leaderSvc[l], v \in leaderSvcView[l]}

\* ValidateService: a Service that is not headless has a port
ValidLeaderService(new) == StrictAPI => \A o \in new : o.ports # {}

\* The object the write asks for, and whether the API server accepts it.
WantedLeaderService(l) ==
    IF leaderSvcView[l] = {} THEN NewLeaderService ELSE PatchedLeaderService(l)

LeaderServiceAccepted(l) ==
    /\ (leaderSvcView[l] = {}) = (leaderSvc[l] = {})
    /\ ValidLeaderService(WantedLeaderService(l))

WriteLeaderService(l) ==
    /\ LeaderServiceAccepted(l)
    /\ PutLeaderService(l, WantedLeaderService(l))
    /\ nextUid' = IF leaderSvc[l] = {} THEN nextUid + 1 ELSE nextUid

ReconcileLeaderService ==
    /\ pc = "service"
    /\ \/ /\ WriteLeaderService(LocalName)
          /\ pc' = "slice"
          /\ UNCHANGED <<queued, loc, left>>
       \/ /\ ~LeaderServiceAccepted(LocalName)
          /\ Fail
          /\ UNCHANGED <<leaderSvc, leaderSvcWatch, nextUid, left>>
       \/ /\ Faulty
          /\ Fail
          /\ \/ WriteLeaderService(LocalName)
             \/ UNCHANGED <<leaderSvc, leaderSvcWatch, nextUid>>
    /\ UNCHANGED <<cluster, slice, leaderSvcView, sliceView, sliceWatch,
                   leaderPodCache, optedIn>>

(***************************************************************************)
(* reconcileEndpointSlice.  The owner of a new EndpointSlice is looked up  *)
(* in the informer, which may not have the leader Service yet, or fail     *)
(* (UID 0).                                                                *)
(***************************************************************************)
NewTarget == {Ref(p) : p \in {q \in loc.leader : q.ip}}

NewSlice(owners) ==
    {[owner |-> u, target |-> NewTarget, ports |-> loc.ports] :
        u \in IF owners = {} THEN {0} ELSE {o.uid : o \in owners}}

\* Mutant of PatchSlice: the ports are not updated.
PatchTargetOnly(e, v) == [e EXCEPT !.target = Merge(v.target, NewTarget, @)]

\* Mutant of PatchSlice: the new endpoint joins the one that is there.
AddTarget(e, v) == [PatchTargetOnly(e, v) EXCEPT !.target = @ \cup e.target,
                                                 !.ports = loc.ports]

PatchSlice(e, v) ==
    [e EXCEPT !.target = Merge(v.target, NewTarget, @),
              !.ports = Merge(v.ports, loc.ports, @)]

PatchedSlice(l) == {PatchSlice(e, v) : e \in slice[l], v \in sliceView[l]}

\* ValidateEndpointSlice and ValidateOwnerReferences: an endpoint has an
\* address and an owner has a UID
ValidSlice(new) == StrictAPI => \A o \in new : o.target # {} /\ o.owner # 0

WantedSlice(l, owners) ==
    IF sliceView[l] = {} THEN NewSlice(owners) ELSE PatchedSlice(l)

SliceAccepted(l, owners) ==
    /\ loc.leader # {} => loc.ports # {}
    /\ (sliceView[l] = {}) = (slice[l] = {})
    /\ ValidSlice(WantedSlice(l, owners))

\* Mutant of WriteSlice: without a leader there is nothing to write.
SkipWithoutLeader(l, owners) ==
    \/ /\ loc.leader # {}
       /\ SliceAccepted(l, owners)
       /\ PutSlice(l, WantedSlice(l, owners))
    \/ /\ loc.leader = {}
       /\ UNCHANGED <<slice, sliceWatch>>

WriteSlice(l, owners) ==
    SliceAccepted(l, owners) /\ PutSlice(l, WantedSlice(l, owners))

ReconcileEndpointSlice ==
    /\ pc = "slice"
    /\ \/ /\ WriteSlice(LocalName, leaderSvcView[LocalName])
          /\ Done
          /\ UNCHANGED left
       \/ /\ ~SliceAccepted(LocalName, leaderSvcView[LocalName])
          /\ Fail
          /\ UNCHANGED <<slice, sliceWatch, left>>
       \/ /\ Faulty
          /\ Fail
          /\ \/ WriteSlice(LocalName, leaderSvcView[LocalName])
             \/ UNCHANGED <<slice, sliceWatch>>
       \/ /\ Faulty  \* the lookup of the owner fails
          /\ WriteSlice(LocalName, {})
          /\ Done
    /\ UNCHANGED <<cluster, leaderSvc, nextUid, leaderSvcView, sliceView,
                   leaderSvcWatch, leaderPodCache, optedIn>>

(***************************************************************************)
(* cleanupLeaderResources reads the source Service again.  If it exists,   *)
(* the Service with the leader's name is deleted, whoever made it; if it   *)
(* does not or the Get fails, every Service with the labels that zen-lead  *)
(* sets.  A failed Get of the leader Service is taken for its absence.     *)
(***************************************************************************)
CleanupByName(l) ==
    \/ /\ leaderSvcView[l] = {}
       /\ Done
       /\ UNCHANGED <<leaderSvc, leaderSvcWatch, left>>
    \/ /\ leaderSvcView[l] # {} /\ leaderSvc[l] # {}
       /\ PutLeaderService(l, {})
       /\ Done
       /\ UNCHANGED left
    \/ /\ leaderSvcView[l] # {} /\ leaderSvc[l] = {}
       /\ Fail
       /\ UNCHANGED <<leaderSvc, leaderSvcWatch, left>>
    \/ /\ leaderSvcView[l] # {}
       /\ Faulty
       /\ \/ Fail /\ PutLeaderService(l, {})
          \/ (Fail \/ Done) /\ UNCHANGED <<leaderSvc, leaderSvcWatch>>

Labelled == {l \in LeaderName : \E v \in leaderSvcView[l] : v.managed}

\* Errors of the List and of the deletions are logged and ignored.
CleanupByLabel(deleted) ==
    /\ \A l \in deleted : Len(leaderSvcWatch[l]) < MaxLag
    /\ leaderSvc' = [l \in LeaderName |->
                        IF l \in deleted THEN {} ELSE leaderSvc[l]]
    /\ leaderSvcWatch' = [l \in LeaderName |->
           IF leaderSvc'[l] = leaderSvc[l] THEN leaderSvcWatch[l]
           ELSE Append(leaderSvcWatch[l], {})]
    /\ Done

CleanupLeaderResources ==
    /\ pc = "cleanup"
    /\ \/ \E s \in svc : CleanupByName(GetLeaderServiceName(s))
       \/ svc = {} /\ UNCHANGED left /\ CleanupByLabel(Labelled)
       \/ Faulty /\ \E deleted \in SUBSET Labelled : CleanupByLabel(deleted)
    /\ UNCHANGED <<cluster, slice, nextUid, leaderSvcView, sliceView,
                   sliceWatch, leaderPodCache, optedIn>>

\* The entry of the leader Pod cache reaches its TTL.
CacheExpires ==
    /\ leaderPodCache # {}
    /\ leaderPodCache' = {}
    /\ UNCHANGED <<cluster, api, informer, optedIn, queued, pc, loc, left>>

-----------------------------------------------------------------------------
(***************************************************************************)
(* The informer and the event handlers of SetupWithManager.                *)
(***************************************************************************)

\* An event of the leader Service enqueues that Service, not the source.
DeliverLeaderService(l) ==
    /\ leaderSvcWatch[l] # <<>>
    /\ leaderSvcView' = [leaderSvcView EXCEPT ![l] = Head(leaderSvcWatch[l])]
    /\ leaderSvcWatch' = [leaderSvcWatch EXCEPT ![l] = Tail(@)]
    /\ UNCHANGED <<cluster, api, sliceView, sliceWatch, leaderPodCache,
                   optedIn, queued, pc, loc, left>>

\* mapEndpointSliceToService: its event enqueues the source Service.
DeliverEndpointSlice(l) ==
    /\ sliceWatch[l] # <<>>
    /\ sliceView' = [sliceView EXCEPT ![l] = Head(sliceWatch[l])]
    /\ sliceWatch' = [sliceWatch EXCEPT ![l] = Tail(@)]
    /\ queued' = TRUE
    /\ UNCHANGED <<cluster, api, leaderSvcView, leaderSvcWatch,
                   leaderPodCache, optedIn, pc, loc, left>>

\* Mutant of MeaningfulUpdate: a change of readiness is not looked for.
IgnoresReadiness(p, q) == p.deleting # q.deleting \/ p.ip # q.ip

\* The UpdateFunc of podPredicate.
MeaningfulUpdate(p, q) ==
    \/ IsPodReady(p) # IsPodReady(q)
    \/ p.deleting # q.deleting
    \/ p.ip # q.ip
    \/ (p.status = "Failed") # (q.status = "Failed")

(***************************************************************************)
(* mapPodToService, for the Pods of one event.  An empty cache entry is    *)
(* refreshed, unless other Services of the namespace keep the cache from   *)
(* being empty or the List of the refresh fails.                           *)
(***************************************************************************)
MapPodToService(P) ==
    /\ optedIn' \in IF optedIn = {} THEN {{}, OptedInEntry} ELSE {optedIn}
    /\ queued' = (queued \/ \E p \in P, s \in optedIn' : p.label \in s)

SpendPod ==
    /\ left.pod > 0
    /\ left' = [left EXCEPT !.pod = @ - 1]

SpendSvc ==
    /\ left.svc > 0
    /\ left' = [left EXCEPT !.svc = @ - 1]

\* What one update can make of a Pod.
Updates(p) ==
    {q \in {[p EXCEPT !.status = "Ready", !.mature = FALSE],
            [p EXCEPT !.status = "NotReady", !.mature = FALSE],
            [p EXCEPT !.status = "Failed", !.mature = FALSE],
            [p EXCEPT !.deleting = TRUE],
            [p EXCEPT !.ip = TRUE],
            [p EXCEPT !.ip = FALSE]}
           \cup {[p EXCEPT !.label = x] : x \in Label} :
        /\ q # p
        /\ p.status # "Failed"
        /\ q.status # p.status =>
              \/ q.status = "Ready" /\ "ready" \in PodChanges
              \/ q.status = "NotReady" /\ "unready" \in PodChanges
              \/ q.status = "Failed" /\ "fail" \in PodChanges
        /\ q.status = p.status => q.mature = p.mature
        /\ q.deleting # p.deleting => "terminate" \in PodChanges
        /\ q.ip # p.ip => (IF q.ip THEN "getIP" ELSE "loseIP") \in PodChanges
        /\ q.label # p.label => "relabel" \in PodChanges}

PodUpdated ==
    /\ SpendPod
    /\ \E p \in pods : \E q \in Updates(p) :
          /\ pods' = (pods \ {p}) \cup {q}
          /\ IF MeaningfulUpdate(p, q)
             THEN MapPodToService({p, q})
             ELSE UNCHANGED <<optedIn, queued>>
    /\ everReady' = everReady \cup Uids({p \in pods' : IsPodReady(p)})
    /\ UNCHANGED <<svc, nextPodUid, api, informer, leaderPodCache, pc, loc>>

NewPod(n, x) ==
    [name |-> n, uid |-> nextPodUid, label |-> x, status |-> "NotReady",
     mature |-> FALSE, deleting |-> FALSE, ip |-> FALSE]

PodCreated ==
    /\ "create" \in PodChanges
    /\ SpendPod
    /\ nextPodUid \in PodUid
    /\ \E n \in PodName, x \in Label :
          /\ \A q \in pods : q.name # n
          /\ pods' = pods \cup {NewPod(n, x)}
          /\ MapPodToService({NewPod(n, x)})
    /\ nextPodUid' = nextPodUid + 1
    /\ UNCHANGED <<svc, everReady, api, informer, leaderPodCache, pc, loc>>

PodDeleted ==
    /\ "delete" \in PodChanges
    /\ SpendPod
    /\ \E p \in pods :
          /\ pods' = pods \ {p}
          /\ MapPodToService({p})
    /\ UNCHANGED <<svc, nextPodUid, everReady, api, informer, leaderPodCache,
                   pc, loc>>

\* A Pod has been Ready for min-ready-duration.  Nothing changes but the
\* time, so there is no event.
PodMatures ==
    /\ FlapDamping
    /\ \E p \in pods : /\ IsPodReady(p)
                       /\ ~p.mature
                       /\ pods' = (pods \ {p}) \cup {[p EXCEPT !.mature = TRUE]}
    /\ UNCHANGED <<svc, nextPodUid, everReady, api, informer, leaderPodCache,
                   optedIn, queued, pc, loc, left>>

\* The edits of the source Service that its user can make.
Edits(s) ==
    {t \in [uid : {s.uid}, enabled : BOOLEAN,
            selector : {{}} \cup {{x} : x \in Label}, custom : Custom,
            port : IF s.port = "none" THEN {"none"}
                                      ELSE {"number", "named"}] :
        /\ t # s
        /\ t.enabled # s.enabled =>
              (IF t.enabled THEN "enable" ELSE "disable") \in SvcChanges
        /\ t.selector # s.selector => "select" \in SvcChanges
        /\ t.custom # s.custom => "rename" \in SvcChanges
        /\ t.port # s.port => "retarget" \in SvcChanges}

ServiceUpdated ==
    /\ SpendSvc
    /\ \E s \in svc : \E t \in Edits(s) : svc' = {t}
    /\ queued' = TRUE
    /\ UNCHANGED <<pods, nextPodUid, everReady, api, informer,
                   leaderPodCache, optedIn, pc, loc>>

ServiceDeleted ==
    /\ "delete" \in SvcChanges
    /\ SpendSvc
    /\ svc # {}
    /\ svc' = {}
    /\ queued' = TRUE
    /\ UNCHANGED <<pods, nextPodUid, everReady, api, informer,
                   leaderPodCache, optedIn, pc, loc>>

ServiceCreated ==
    /\ "create" \in SvcChanges
    /\ SpendSvc
    /\ svc = {}
    /\ \E t \in InitSvc : svc' = {[t EXCEPT !.uid = nextUid]}
    /\ nextUid' = nextUid + 1
    /\ queued' = TRUE
    /\ UNCHANGED <<pods, nextPodUid, everReady, leaderSvc, slice, informer,
                   leaderPodCache, optedIn, pc, loc>>

\* The informer's periodic resync sends an update for every object.
Resync ==
    /\ svc # {} \/ \E l \in LeaderName : sliceView[l] # {}
    /\ queued' = TRUE
    /\ UNCHANGED <<cluster, api, informer, leaderPodCache, optedIn, pc, loc,
                   left>>

(***************************************************************************)
(* A crash of the controller, or another replica taking over: the caches   *)
(* and the reconcile in progress are lost.  A restarted process lists      *)
(* everything anew; the informers of a standby have been running, and go   *)
(* on from what they have.  Each object they hold is enqueued.             *)
(***************************************************************************)
Restart ==
    /\ left.restart > 0
    /\ left' = [left EXCEPT !.restart = @ - 1]
    /\ leaderPodCache' = {}
    /\ optedIn' = {}
    /\ pc' = "idle"
    /\ loc' = NoLocals
    /\ \/ /\ leaderSvcView' = leaderSvc
          /\ sliceView' = slice
          /\ leaderSvcWatch' = [l \in LeaderName |-> <<>>]
          /\ sliceWatch' = [l \in LeaderName |-> <<>>]
       \/ UNCHANGED informer
    /\ queued' = (svc # {} \/ \E l \in LeaderName : sliceView'[l] # {})
    /\ UNCHANGED <<cluster, api>>

(***************************************************************************)
(* Kubernetes' garbage collector deletes an object whose owner is gone.    *)
(***************************************************************************)
OwnerGone(o) == o.owner # 0 /\ \A s \in svc : s.uid # o.owner

CollectLeaderService(l) ==
    /\ \E o \in leaderSvc[l] : OwnerGone(o)
    /\ PutLeaderService(l, {})
    /\ UNCHANGED <<cluster, slice, nextUid, leaderSvcView, sliceView,
                   sliceWatch, leaderPodCache, optedIn, queued, pc, loc, left>>

CollectEndpointSlice(l) ==
    /\ \E e \in slice[l] : \A o \in leaderSvc[l] : o.uid # e.owner
    /\ PutSlice(l, {})
    /\ UNCHANGED <<cluster, leaderSvc, nextUid, leaderSvcView, sliceView,
                   leaderSvcWatch, leaderPodCache, optedIn, queued, pc, loc,
                   left>>

-----------------------------------------------------------------------------

UserService == [uid |-> 1, managed |-> FALSE, owner |-> 0, leader |-> {},
                ports |-> {ServicePort}]

Init ==
    /\ pods = InitPods
    /\ svc = InitSvc
    /\ nextPodUid = 1 + Cardinality(InitPods)
    /\ everReady = Uids({p \in InitPods : IsPodReady(p)})
    /\ leaderSvc = [l \in LeaderName |->
                       IF l \in UserServices THEN {UserService} ELSE {}]
    /\ slice = [l \in LeaderName |-> {}]
    /\ nextUid = 2 + Cardinality(InitSvc)
    /\ leaderSvcView = leaderSvc
    /\ sliceView = slice
    /\ leaderSvcWatch = [l \in LeaderName |-> <<>>]
    /\ sliceWatch = [l \in LeaderName |-> <<>>]
    /\ leaderPodCache = {}
    /\ optedIn = {}
    /\ queued = (InitSvc # {})
    /\ pc = "idle"
    /\ loc = NoLocals
    /\ left = Budget

Controller ==
    \/ Reconcile
    \/ ListPods
    \/ GetCurrentLeaderPod
    \/ SelectLeader
    \/ DeleteUnresolvedSlice
    \/ ReconcileLeaderService
    \/ ReconcileEndpointSlice
    \/ CleanupLeaderResources

Informer ==
    \E l \in LeaderName : DeliverLeaderService(l) \/ DeliverEndpointSlice(l)

GarbageCollector ==
    \E l \in LeaderName : CollectLeaderService(l) \/ CollectEndpointSlice(l)

Environment ==
    \/ PodUpdated
    \/ PodCreated
    \/ PodDeleted
    \/ PodMatures
    \/ ServiceUpdated
    \/ ServiceDeleted
    \/ ServiceCreated
    \/ CacheExpires
    \/ Resync
    \/ Restart

Next == Controller \/ Informer \/ GarbageCollector \/ Environment

(***************************************************************************)
(* The work queue is served (a failed key comes back after a backoff), the *)
(* watches deliver, and the garbage collector runs.  Nothing else has to   *)
(* happen: Pods, users, faults, restarts, the cache's TTL and the resync.  *)
(***************************************************************************)
Fairness ==
    /\ WF_vars(Controller)
    /\ \A l \in LeaderName :
          /\ WF_vars(DeliverLeaderService(l))
          /\ WF_vars(DeliverEndpointSlice(l))
          /\ WF_vars(CollectLeaderService(l))
          /\ WF_vars(CollectEndpointSlice(l))

Spec == Init /\ [][Next]_vars

FairSpec == Spec /\ Fairness

-----------------------------------------------------------------------------
(***************************************************************************)
(* Properties.                                                             *)
(***************************************************************************)

\* Every variable holds a value of its type; above all, no port number 0 gets
\* into a leader Service or a slice (resolveNamedPort fails instead).
TypeOK ==
    /\ pods \subseteq Pod
    /\ svc \subseteq SourceService
    /\ nextPodUid \in Nat
    /\ everReady \subseteq PodUid
    /\ leaderSvc \in [LeaderName -> SUBSET LeaderService]
    /\ slice \in [LeaderName -> SUBSET EndpointSlice]
    /\ nextUid \in Nat
    /\ leaderSvcView \in [LeaderName -> SUBSET LeaderService]
    /\ sliceView \in [LeaderName -> SUBSET EndpointSlice]
    /\ leaderSvcWatch \in [LeaderName -> Seq(SUBSET LeaderService)]
    /\ sliceWatch \in [LeaderName -> Seq(SUBSET EndpointSlice)]
    /\ leaderPodCache \subseteq PodRef
    /\ optedIn \subseteq SUBSET Label
    /\ queued \in BOOLEAN
    /\ pc \in Step
    /\ loc \in Locals
    /\ pc \notin {"idle", "cleanup"} => loc.svc # {}
    /\ left \in [{"pod", "svc", "fault", "restart"} -> Nat]

\* Traffic never reaches a Pod that was not Ready before it was chosen: the
\* target of a slice, wherever its copy is, the Pod the leader Service is
\* annotated with, the cached leader and the one about to be written all
\* were Ready once (selectLeaderPod keeps and picks Ready Pods only).
LeaderWasReady ==
    /\ \A l \in LeaderName :
          /\ Uids(Targets(slice[l])) \subseteq everReady
          /\ Uids(Targets(sliceView[l])) \subseteq everReady
          /\ \A o \in leaderSvc[l] : o.leader \subseteq everReady
    /\ Uids(leaderPodCache) \subseteq everReady
    /\ Uids(loc.leader) \subseteq everReady

\* Nothing is left to do: no reconcile runs or waits, every watch event has
\* been delivered, and the garbage collector has nothing to collect.
Quiescent ==
    /\ pc = "idle"
    /\ ~queued
    /\ \A l \in LeaderName :
          /\ leaderSvcWatch[l] = <<>>
          /\ sliceWatch[l] = <<>>
          /\ \A o \in leaderSvc[l] : ~OwnerGone(o)
          /\ \A e \in slice[l] : \E o \in leaderSvc[l] : o.uid = e.owner

\* The source Service is one that the reconciler serves.
Served(s) == s.enabled /\ s.selector # {}

Matching(s) == {p \in pods : Selects(s, p)}

\* Slice e routes to a Ready Pod of Service s on that Pod's port, or to none
\* because no Pod is a candidate or the earliest one cannot be routed to.
Routes(e, s) ==
    \/ \E p \in Matching(s) :
          /\ IsPodReady(p)
          /\ e.target = {Ref(p)}
          /\ e.ports = ResolveServicePorts(s, {p})
    \/ /\ e.target = {}
       /\ \A p \in Earliest(Candidates(Matching(s))) :
             ~p.ip \/ ~PortsResolve(s, {p})

\* Whatever happened before - Pods, edits, lost writes, stale reads, crashes -
\* once the controller has nothing left to do the leader Service exists and
\* its slice routes to a Ready Pod of the source Service, on the right port.
\* No event that matters was missed, and no write based on a stale copy stays
\* (Reconcile, mapPodToService, mapEndpointSliceToService, the merge patches).
QuiescentRouted ==
    Quiescent =>
        \A s \in svc : Served(s) =>
            LET l == GetLeaderServiceName(s)
            IN  leaderSvc[l] # {} /\ \E e \in slice[l] : Routes(e, s)

\* Neither a leader Service made by zen-lead nor its slice remains.
Removed ==
    \A l \in LeaderName :
        /\ \A o \in leaderSvc[l] : ~o.managed
        /\ l \notin UserServices => slice[l] = {}

\* The cleanup reads the source Service again, and the user may have opted in
\* since the reconcile decided to clean up; a failed read may also lead it to
\* the leader Services by their labels.  When it deletes that of a Service that
\* is served again, the key is in the queue, so the next reconcile restores it.
ServedIsRestored ==
    \A l \in LeaderName :
        (/\ pc = "cleanup"
         /\ leaderSvc[l] # {} /\ leaderSvc'[l] = {}
         /\ \E s \in svc : Served(s) /\ l = GetLeaderServiceName(s)) => queued'

CleanupKeepsServed == [][ServedIsRestored]_vars

\* Without stickiness the leader is a function of the Pods: once the controller
\* has nothing left to do, the slice routes to the earliest candidate, whatever
\* the cache and the slice held on the way (selectLeaderPod).
EarliestLeads ==
    (Quiescent /\ ~Sticky) =>
        \A s \in svc : Served(s) =>
            \A e \in slice[GetLeaderServiceName(s)] :
                \A p \in Lookup(e.target), q \in Candidates(Matching(s)) :
                    /\ CreatedAt[p.uid] <= CreatedAt[q.uid]
                    /\ CreatedAt[p.uid] = CreatedAt[q.uid] => p.name <= q.name

\* With stickiness a slice's leader is replaced only by a reconcile that did
\* not see it Ready, that bypassed stickiness because its current leader was
\* terminating, not Ready or without address, or whose selection did not see
\* this leader in the slice: its Get failed, or the informer lagged
\* (selectLeaderPod reads the slice from the informer, getCurrentLeaderPod
\* first looks in its cache).
StickyLeader ==
    \A l \in LeaderName : \A e \in slice[l], f \in slice'[l] :
        (e.target # {} /\ f.target # e.target) =>
            \/ ~Sticky
            \/ \A p \in loc.pods : Ref(p) \in e.target => ~IsPodReady(p)
            \/ loc.bypass
            \/ loc.seen # e.target

StickyLeaderStays == [][StickyLeader]_vars

\* A slice is only given an endpoint that declares the port its Service names.
OnlyDeclaredPort ==
    (pc = "slice" /\ Source.port = "named") =>
        \A l \in LeaderName : \A f \in slice'[l] :
            (\A e \in slice[l] : f.target # e.target) =>
                \A t \in f.target : NamedPort[t.uid] # 0

\* A reconcile that chose no leader, or one without the port, and ends without
\* being repeated leaves no endpoint behind that no event will come back to.
NoRouteLeft ==
    (pc = "slice" /\ loc.leader = {} /\ pc' = "idle" /\ ~queued') =>
        \/ Targets(slice'[LocalName]) = {}
        \/ sliceWatch'[LocalName] # <<>>

\* Port resolution fails closed (resolveServicePorts), also when the informer
\* does not have the slice or its deletion fails, which is logged and ignored:
\* the patch of reconcileEndpointSlice or the next reconcile drops the route.
FailClosed == [][OnlyDeclaredPort /\ NoRouteLeft]_vars

\* The reconciler implements LeaderRouting: seen from a client of the leader
\* Service, Pods, stale copies, retries, collected slices and crashes only ever
\* move its traffic from one Pod that had been Ready to another, or to none; a
\* slice never holds two endpoints (selectLeaderPod, and the merge patches that
\* reconcileEndpointSlice sends).
LR == INSTANCE LeaderRouting
          WITH Name  <- LeaderName,
               Uid   <- PodUid,
               ready <- everReady,
               route <- [l \in LeaderName |-> Uids(Targets(slice[l]))]

LeaderRoutingImplemented == LR!Spec

-----------------------------------------------------------------------------
(***************************************************************************)
(* Liveness.                                                               *)
(***************************************************************************)

\* Some Pod of the source Service can lead, and none stands in the way: every
\* Ready one has an address and the port.
Routable ==
    \E s \in svc :
        /\ Served(s)
        /\ Candidates(Matching(s)) # {}
        /\ \A p \in Matching(s) : IsPodReady(p) => p.ip /\ PortsResolve(s, {p})

Routed ==
    \E s \in svc : \E e \in slice[GetLeaderServiceName(s)] :
        \E p \in Matching(s) : IsPodReady(p) /\ e.target = {Ref(p)}

\* If from some time on Pods can lead, then from some time on the slice routes
\* to a Ready Pod: retries, stale reads and events bring the reconciler there.
EventuallyRouted == <>[]Routable => <>[]Routed

\* After its source Service is gone for good, what was made for it goes as well
\* (cleanupLeaderResources and the ownerReferences).
DeletedSourceLeavesNothing == <>[](svc = {}) => <>[]Removed

=============================================================================
