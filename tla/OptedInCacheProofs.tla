-------------------------- MODULE OptedInCacheProofs --------------------------
(***************************************************************************)
(* Theorems about the cache of opted-in Services, for any Services, Pods,  *)
(* number of workers and number of faults.                                 *)
(*                                                                         *)
(* Both properties are about the state where nothing is left to do, so     *)
(* their invariants say what is still to be done while something is wrong: *)
(* CurrentInv for the entries of the cache and of each List on its way     *)
(* into it, EventInv for the Pods that a Service has not heard of.         *)
(***************************************************************************)
EXTENDS OptedInCache, FiniteSetTheorems, SequenceTheorems, TLAPS

-----------------------------------------------------------------------------
(***************************************************************************)
(* Types.                                                                  *)
(***************************************************************************)

LEMMA ListServicesType ==
    ASSUME Typed
    PROVE  ListServices \subseteq Entry
BY DEF Typed, ListServices, EntryOf, Entry, ServiceSpec

LEMMA TruncationsType ==
    ASSUME NEW C, NEW D \in Truncations(C)
    PROVE  D \subseteq C
BY DEF Truncations

LEMMA HeldType ==
    ASSUME NEW C \in SUBSET Entry
    PROVE  Hold(C) \in SUBSET HeldEntry
<1>1. ASSUME NEW e \in C
      PROVE  [name |-> e.name, selectors |-> {e.selector}, shared |-> TRUE]
                \in HeldEntry
  BY DEF Entry, HeldEntry
<1> QED
  BY <1>1 DEF Hold

LEMMA UnshareType ==
    ASSUME NEW H \in SUBSET HeldEntry, NEW N
    PROVE  Unshare(H, N) \in SUBSET HeldEntry
BY DEF Unshare, HeldEntry

LEMMA OverwriteType ==
    ASSUME NEW H \in SUBSET HeldEntry, NEW s \in Service,
           NEW selector \in SUBSET Label
    PROVE  Overwrite(H, s, selector) \in SUBSET HeldEntry
BY DEF Overwrite, HeldEntry

LEMMA IdleTypes == IdleHandler \in HandlerState /\ IdleWorker \in WorkerState
BY DEF IdleHandler, HandlerState, IdleWorker, WorkerState

LEMMA FaultyType ==
    ASSUME Typed, Faulty
    PROVE  left' \in [{"pod", "svc", "fault"} -> Nat]
BY DEF Typed, Faulty

LEMMA InitType == Init => Typed
BY CacheAssumption, IdleTypes DEF Init, Typed, CacheAssumption

LEMMA StartReconcileType ==
    ASSUME Typed, NEW s \in Service, StartReconcile(s)
    PROVE  Typed'
<1>1. worker' \in [Service -> WorkerState]
  <2>1. worker[s] \in WorkerState /\ svc[s] \in SUBSET ServiceSpec
    BY DEF Typed
  <2>2. /\ [worker[s] EXCEPT !.pc = "update", !.spec = svc[s]] \in WorkerState
        /\ [worker[s] EXCEPT !.pc = "refresh"] \in WorkerState
        /\ [worker[s] EXCEPT !.pc = "refresh", !.failed = TRUE] \in WorkerState
    BY <2>1 DEF WorkerState
  <2> QED
    BY <2>2 DEF StartReconcile, Typed
<1>2. left' \in [{"pod", "svc", "fault"} -> Nat]
  BY FaultyType DEF StartReconcile, Typed
<1> QED
  BY <1>1, <1>2 DEF StartReconcile, Typed

LEMMA LockForRefreshType ==
    ASSUME Typed, NEW s \in Service, LockForRefresh(s)
    PROVE  Typed'
<1>1. PICK C \in Truncations(ListServices) :
          worker' = [worker EXCEPT ![s] =
                        [@ EXCEPT !.pc = "list services", !.listed = C]]
  BY DEF LockForRefresh
<1>2. C \in SUBSET Entry
  BY ListServicesType, TruncationsType
<1>3. worker' \in [Service -> WorkerState]
  BY <1>1, <1>2 DEF Typed, WorkerState
<1> QED
  BY <1>3 DEF LockForRefresh, Typed

LEMMA EndType ==
    ASSUME Typed, NEW s \in Service, NEW failed, End(s, failed)
    PROVE  worker' \in [Service -> WorkerState] /\ queue' \subseteq Service
BY IdleTypes DEF Typed, End

LEMMA RefreshForMissingType ==
    ASSUME Typed, NEW s \in Service, RefreshForMissing(s)
    PROVE  Typed'
<1>1. worker' \in [Service -> WorkerState] /\ queue' \subseteq Service
  BY EndType DEF RefreshForMissing
<1>2. /\ cache' \subseteq Entry
      /\ left' \in [{"pod", "svc", "fault"} -> Nat]
  BY FaultyType DEF RefreshForMissing, Refresh, Typed, WorkerState
<1>3. handler' \in HandlerState
  <2>1. handler.held \in SUBSET HeldEntry
    BY DEF Typed, HandlerState
  <2>2. Unshare(handler.held, Service) \in SUBSET HeldEntry
    BY <2>1, UnshareType
  <2> QED
    BY <2>1, <2>2 DEF RefreshForMissing, Typed, HandlerState
<1> QED
  BY <1>1, <1>2, <1>3 DEF RefreshForMissing, Refresh, Typed

LEMMA UpdateForServiceType ==
    ASSUME Typed, NEW s \in Service, UpdateForService(s)
    PROVE  Typed'
<1>1. PICK x \in worker[s].spec :
          \/ /\ Served(x)
             /\ AddOrUpdate(s, x)
             /\ worker' = [worker EXCEPT ![s].pc = "list"]
             /\ UNCHANGED <<queue, left>>
          \/ /\ ~Served(x)
             /\ Remove(s)
             /\ \/ End(s, FALSE) /\ UNCHANGED left
                \/ ~x.enabled /\ Faulty /\ End(s, TRUE)
  BY DEF UpdateForService
<1>2. /\ x \in ServiceSpec
      /\ handler.held \in SUBSET HeldEntry
  BY DEF Typed, WorkerState, HandlerState
<1>3. CASE Served(x) /\ AddOrUpdate(s, x)
           /\ worker' = [worker EXCEPT ![s].pc = "list"]
           /\ UNCHANGED <<queue, left>>
  <2>1. handler' \in HandlerState
    BY <1>2, <1>3, OverwriteType DEF AddOrUpdate, Typed, HandlerState, ServiceSpec
  <2>2. cache' \subseteq Entry
    BY <1>2, <1>3 DEF AddOrUpdate, Typed, ServiceSpec, Entry, EntryOf
  <2>3. worker' \in [Service -> WorkerState]
    BY <1>3 DEF Typed, WorkerState
  <2> QED
    BY <1>3, <2>1, <2>2, <2>3 DEF UpdateForService, Typed
<1>4. CASE Remove(s) /\ \/ End(s, FALSE) /\ UNCHANGED left
                        \/ Faulty /\ End(s, TRUE)
  <2>1. handler' \in HandlerState
    BY <1>2, <1>4, UnshareType DEF Remove, Typed, HandlerState
  <2>2. cache' \subseteq Entry
    BY <1>4 DEF Remove, Typed
  <2>3. left' \in [{"pod", "svc", "fault"} -> Nat]
    BY <1>4, FaultyType DEF Typed
  <2>4. worker' \in [Service -> WorkerState] /\ queue' \subseteq Service
    BY <1>4, EndType
  <2> QED
    BY <2>1, <2>2, <2>3, <2>4 DEF UpdateForService, Typed
<1> QED
  BY <1>1, <1>3, <1>4

LEMMA ListPodsType ==
    ASSUME Typed, NEW s \in Service, ListPods(s)
    PROVE  Typed'
<1>1. worker' \in [Service -> WorkerState] /\ queue' \subseteq Service
  BY EndType DEF ListPods
<1>2. left' \in [{"pod", "svc", "fault"} -> Nat]
  BY FaultyType DEF ListPods, Typed
<1>3. seen' \in [Service -> SUBSET PodState]
  <2>1. UNION {Matching(x) : x \in worker[s].spec} \in SUBSET PodState
    BY DEF Typed, Matching
  <2> QED
    BY <2>1 DEF ListPods, Typed
<1> QED
  BY <1>1, <1>2, <1>3 DEF ListPods, Typed

LEMMA HandlerType ==
    ASSUME Typed, HandlerStep
    PROVE  Typed'
<1>1. CASE TakeEvent
  <2>1. podEvents' \in Seq(Pod) /\ Head(podEvents) \in Pod
    BY <1>1 DEF TakeEvent, Typed
  <2>2. handler' \in HandlerState
    BY <1>1, <2>1 DEF TakeEvent, Typed, HandlerState
  <2> QED
    BY <1>1, <2>1, <2>2 DEF TakeEvent, Typed
<1>2. CASE Hit
  <2>1. handler' \in HandlerState
    BY <1>2, HeldType DEF Hit, Typed, HandlerState
  <2> QED
    BY <1>2, <2>1 DEF Hit, Typed
<1>3. CASE Miss
  <2>1. \A C \in Truncations(ListServices) : C \in SUBSET Entry
    BY ListServicesType, TruncationsType
  <2>2. Hold(cache) \in SUBSET HeldEntry
    BY HeldType DEF Typed
  <2>3. /\ [handler EXCEPT !.pc = "match", !.held = Hold(cache)] \in HandlerState
        /\ \A C \in SUBSET Entry :
              [handler EXCEPT !.pc = "list", !.listed = C] \in HandlerState
    BY <2>2 DEF Typed, HandlerState
  <2>4. handler' \in HandlerState
    BY <1>3, <2>1, <2>3 DEF Miss
  <2> QED
    BY <1>3, <2>4 DEF Miss, Typed
<1>4. CASE RefreshForEvent
  <2>1. /\ cache' \subseteq Entry
        /\ left' \in [{"pod", "svc", "fault"} -> Nat]
    BY <1>4, FaultyType DEF RefreshForEvent, Refresh, Typed, HandlerState
  <2>2. handler' \in HandlerState
    BY <1>4, <2>1, HeldType DEF RefreshForEvent, Typed, HandlerState
  <2> QED
    BY <1>4, <2>1, <2>2 DEF RefreshForEvent, Refresh, Typed
<1>5. CASE Match
  BY <1>5, IdleTypes DEF Match, Typed, HandlerState, HeldEntry
<1> QED
  BY <1>1, <1>2, <1>3, <1>4, <1>5 DEF HandlerStep

LEMMA EnvironmentType ==
    ASSUME Typed, Environment
    PROVE  Typed'
<1>1. CASE PodChanged
  <2>1. PICK p \in Pod :
          /\ \/ /\ \A q \in pods : q.name # p
                /\ pods' = pods \cup {[name |-> p, ready |-> FALSE]}
             \/ \E q \in pods :
                   /\ q.name = p
                   /\ \/ pods' = pods \ {q}
                      \/ pods' = (pods \ {q}) \cup {[q EXCEPT !.ready = ~@]}
          /\ podEvents' = Append(podEvents, p)
    BY <1>1 DEF PodChanged
  <2>2. pods' \subseteq PodState
    <3>1. [name |-> p, ready |-> FALSE] \in PodState
      BY DEF PodState
    <3>2. ASSUME NEW q \in pods
          PROVE  [q EXCEPT !.ready = ~@] \in PodState
      BY DEF Typed, PodState
    <3> QED
      BY <2>1, <3>1, <3>2 DEF Typed
  <2>3. podEvents' \in Seq(Pod)
    BY <2>1 DEF Typed
  <2> QED
    BY <1>1, <2>2, <2>3 DEF PodChanged, Spend, Typed
<1>2. CASE ServiceChanged
  <2>1. svc' \in [Service -> SUBSET ServiceSpec] /\ queue' \subseteq Service
    BY <1>2, CacheAssumption DEF ServiceChanged, Typed, CacheAssumption
  <2> QED
    BY <1>2, <2>1 DEF ServiceChanged, Spend, Typed
<1> QED
  BY <1>1, <1>2 DEF Environment

LEMMA TypeStep ==
    ASSUME Typed, [Next]_vars
    PROVE  Typed'
<1>1. CASE \E s \in Service : ReconcileStep(s)
  BY <1>1, StartReconcileType, LockForRefreshType, RefreshForMissingType,
     UpdateForServiceType, ListPodsType DEF ReconcileStep
<1>2. CASE UNCHANGED vars
  BY <1>2 DEF vars, Typed
<1> QED
  BY <1>1, <1>2, HandlerType, EnvironmentType DEF Next

(***************************************************************************)
(* The cache is well formed.                                               *)
(***************************************************************************)

CacheFormed ==
    /\ \A s \in Service : \A x, y \in svc[s] : x = y
    /\ WellFormed(cache)
    /\ WellFormed(handler.listed)
    /\ \A s \in Service : WellFormed(worker[s].listed)

LEMMA NothingFormed == WellFormed({})
BY DEF WellFormed

\* A List has one entry per Service, also when it is cut.
LEMMA ListFormed ==
    ASSUME CacheFormed, NEW C \in Truncations(ListServices)
    PROVE  WellFormed(C)
<1>1. \A e \in ListServices :
          \E s \in Service : \E x \in svc[s] : Served(x) /\ e = EntryOf(s, x)
  BY DEF ListServices
<1>2. \A s, x : EntryOf(s, x).name = s /\ EntryOf(s, x).selector = x.selector
  BY DEF EntryOf
<1>3. WellFormed(ListServices)
  BY <1>1, <1>2 DEF CacheFormed, WellFormed, Served
<1>4. C \subseteq ListServices
  BY TruncationsType
<1> QED
  BY <1>3, <1>4 DEF WellFormed

\* A worker that goes on keeps its List.
LEMMA SameList ==
    ASSUME NEW w \in WorkerState, NEW p, NEW x
    PROVE  /\ [w EXCEPT !.pc = p].listed = w.listed
           /\ [w EXCEPT !.pc = p, !.spec = x].listed = w.listed
           /\ [w EXCEPT !.pc = p, !.failed = x].listed = w.listed
BY DEF WorkerState

LEMMA ReconcileFormed ==
    ASSUME Typed, CacheFormed, NEW s \in Service, ReconcileStep(s)
    PROVE  CacheFormed'
<1> USE DEF CacheFormed
<1>0. /\ worker \in [Service -> WorkerState]
      /\ handler \in HandlerState
      /\ IdleWorker.listed = {}
  BY DEF Typed, IdleWorker
<1>1. CASE StartReconcile(s)
  <2>0. /\ [worker[s] EXCEPT !.pc = "update", !.spec = svc[s]].listed
              = worker[s].listed
        /\ [worker[s] EXCEPT !.pc = "refresh"].listed = worker[s].listed
        /\ [worker[s] EXCEPT !.pc = "refresh", !.failed = TRUE].listed
              = worker[s].listed
    BY <1>0, SameList
  <2>1. \A t \in Service : worker'[t].listed = worker[t].listed
    BY <1>0, <1>1, <2>0 DEF StartReconcile
  <2> QED
    BY <1>1, <2>1 DEF StartReconcile
<1>2. CASE LockForRefresh(s)
  <2>1. \A t \in Service :
            \/ worker'[t].listed = worker[t].listed
            \/ worker'[t].listed \in Truncations(ListServices)
    BY <1>0, <1>2 DEF LockForRefresh, WorkerState
  <2>2. \A t \in Service : WellFormed(worker'[t].listed)
    BY <2>1, ListFormed
  <2> QED
    BY <1>2, <2>2 DEF LockForRefresh
<1>3. ASSUME NEW failed, End(s, failed)
      PROVE  \A t \in Service : WellFormed(worker'[t].listed)
  BY <1>0, <1>3, NothingFormed DEF End
<1>4. CASE RefreshForMissing(s)
  <2>1. WellFormed(cache') /\ UNCHANGED svc
    BY <1>4 DEF RefreshForMissing, Refresh
  <2>2. handler'.listed = handler.listed
    BY <1>0, <1>4 DEF RefreshForMissing, HandlerState
  <2> QED
    BY <1>3, <1>4, <2>1, <2>2 DEF RefreshForMissing
<1>5. CASE UpdateForService(s)
  <2>1. PICK x \in worker[s].spec :
          \/ /\ Served(x)
             /\ AddOrUpdate(s, x)
             /\ worker' = [worker EXCEPT ![s].pc = "list"]
          \/ /\ Remove(s)
             /\ End(s, FALSE) \/ End(s, TRUE)
    BY <1>5 DEF UpdateForService
  <2>2. UNCHANGED svc
    BY <1>5 DEF UpdateForService
  <2>3. CASE /\ Served(x)
             /\ AddOrUpdate(s, x)
             /\ worker' = [worker EXCEPT ![s].pc = "list"]
    <3>1. WellFormed(cache')
      BY <2>3 DEF AddOrUpdate, WellFormed, EntryOf, Served
    <3>2. handler'.listed = handler.listed
      BY <1>0, <2>3 DEF AddOrUpdate, HandlerState
    <3>3. \A t \in Service : worker'[t].listed = worker[t].listed
      <4>1. [worker[s] EXCEPT !.pc = "list"].listed = worker[s].listed
        BY <1>0, SameList
      <4>2. worker' = [worker EXCEPT ![s] = [worker[s] EXCEPT !.pc = "list"]]
        BY <2>3
      <4> QED
        BY <1>0, <4>1, <4>2
    <3> QED
      BY <2>2, <3>1, <3>2, <3>3
  <2>4. CASE Remove(s) /\ (End(s, FALSE) \/ End(s, TRUE))
    <3>1. WellFormed(cache')
      BY <2>4 DEF Remove, WellFormed
    <3>2. handler'.listed = handler.listed
      BY <1>0, <2>4 DEF Remove, HandlerState
    <3> QED
      BY <1>3, <2>2, <2>4, <3>1, <3>2
  <2> QED
    BY <2>1, <2>3, <2>4
<1>6. CASE ListPods(s)
  BY <1>3, <1>6 DEF ListPods
<1> QED
  BY <1>1, <1>2, <1>4, <1>5, <1>6 DEF ReconcileStep

LEMMA HandlerFormed ==
    ASSUME Typed, CacheFormed, HandlerStep
    PROVE  CacheFormed'
<1> USE DEF CacheFormed
<1>1. UNCHANGED <<svc, worker>>
  BY DEF HandlerStep, TakeEvent, Hit, Miss, RefreshForEvent, Match
<1>2. handler \in HandlerState
  BY DEF Typed
<1>3. WellFormed(cache')
  BY DEF HandlerStep, TakeEvent, Hit, Miss, RefreshForEvent, Refresh, Match
<1>4. WellFormed(handler'.listed)
  <2>1. CASE TakeEvent \/ Hit
    <3>1. handler'.listed = handler.listed
      BY <1>2, <2>1 DEF TakeEvent, Hit, HandlerState
    <3> QED
      BY <3>1
  <2>2. CASE Miss
    <3>1. \/ handler'.listed = handler.listed
          \/ handler'.listed \in Truncations(ListServices)
      BY <1>2, <2>2 DEF Miss, HandlerState
    <3> QED
      BY <3>1, ListFormed
  <2>3. CASE RefreshForEvent
    <3>1. \A H : [handler EXCEPT !.pc = "match", !.held = H,
                                 !.listed = {}].listed = {}
      BY <1>2 DEF HandlerState
    <3>2. handler'.listed = {}
      BY <2>3, <3>1 DEF RefreshForEvent
    <3> QED
      BY <3>2, NothingFormed
  <2>4. CASE Match
    BY <2>4, NothingFormed DEF Match, IdleHandler
  <2> QED
    BY <2>1, <2>2, <2>3, <2>4 DEF HandlerStep
<1> QED
  BY <1>1, <1>3, <1>4

LEMMA FormedStep ==
    ASSUME Typed, CacheFormed, [Next]_vars
    PROVE  CacheFormed'
<1>1. CASE Environment
  <2>1. UNCHANGED <<cache, handler, worker>>
    BY <1>1 DEF Environment, PodChanged, ServiceChanged
  <2>2. ASSUME NEW s \in Service, NEW x \in svc'[s], NEW y \in svc'[s]
        PROVE  x = y
    <3>1. CASE PodChanged
      BY <2>2, <3>1 DEF PodChanged, CacheFormed
    <3>2. CASE ServiceChanged
      BY <2>2, <3>2 DEF ServiceChanged, CacheFormed, Typed
    <3> QED
      BY <1>1, <3>1, <3>2 DEF Environment
  <2> QED
    BY <2>1, <2>2 DEF CacheFormed
<1>2. CASE UNCHANGED vars
  BY <1>2 DEF vars, CacheFormed
<1> QED
  BY <1>1, <1>2, ReconcileFormed, HandlerFormed DEF Next

\* Every variable of the cache's model keeps its type, and the cache never has
\* two entries of a Service nor one without a selector, for any Services, Pods
\* and number of workers (the handlers and reconciles of service_director.go).
THEOREM TypeCorrect == Spec => []TypeOK
<1>1. Init => Typed /\ CacheFormed
  <2>1. IdleHandler.listed = {} /\ IdleWorker.listed = {}
    BY DEF IdleHandler, IdleWorker
  <2>2. ASSUME Init PROVE CacheFormed
    <3>1. \A s \in Service : worker[s] = IdleWorker
      BY <2>2 DEF Init
    <3>2. \A s \in Service : \A x, y \in svc[s] : x = y
      BY <2>2, CacheAssumption DEF Init, CacheAssumption
    <3> QED
      BY <2>1, <2>2, <3>1, <3>2, NothingFormed DEF Init, CacheFormed
  <2> QED
    BY <2>2, InitType
<1>2. Typed /\ CacheFormed /\ [Next]_vars => (Typed /\ CacheFormed)'
  BY TypeStep, FormedStep
<1>3. Typed /\ CacheFormed => TypeOK
  BY DEF CacheFormed, TypeOK
<1> QED
  BY <1>1, <1>2, <1>3, PTL DEF Spec

-----------------------------------------------------------------------------
(***************************************************************************)
(* The invariant of the cache.                                             *)
(***************************************************************************)

\* The part of C that is about Service s is what a List would give now.
Current(C, s) ==
    {e \in C : e.name = s} = {EntryOf(s, x) : x \in {y \in svc[s] : Served(y)}}

\* The reconcile of s has not updated the cache yet, and will do it from what
\* the informer has now, or come back.
Settling(s) ==
    \/ s \in queue
    \/ worker[s].pc = "update"
    \/ /\ worker[s].pc \in {"refresh", "list services"}
       /\ worker[s].failed \/ svc[s] = {}

\* The entry of a deleted Service may stay after a List that failed.
Excused(s) == svc[s] = {} /\ left.fault < Budget.fault

\* Who holds the lock across a List.
LockInv ==
    /\ \A s \in Service : worker[s].pc = "list services" <=> cacheMu = s
    /\ handler.pc = "list" <=> cacheMu = Handler

\* A reconcile works on the Service that the informer has now, or comes back.
SpecInv ==
    /\ \A s \in Service : \A x, y \in svc[s] : x = y
    /\ \A s \in Service :
          worker[s].pc \in {"update", "list"} =>
              worker[s].spec = svc[s] \/ s \in queue
    /\ left.fault <= Budget.fault

\* Of every Service, the cache and each List on its way into it have what is
\* current, or its reconcile is still to change the cache.
CurrentInv ==
    \A s \in Service :
        /\ Current(cache, s) \/ Settling(s) \/ Excused(s)
        /\ handler.pc = "list" => Current(handler.listed, s) \/ Settling(s)
        /\ \A w \in Service :
              worker[w].pc = "list services" =>
                  \/ Current(worker[w].listed, s)
                  \/ s \in queue
                  \/ s # w /\ Settling(s)

CacheInv == LockInv /\ SpecInv /\ (Roomy => CurrentInv)

LEMMA CurrentMeans ==
    ASSUME NEW C, NEW s
    PROVE  Current(C, s) <=>
              \A e : (e \in C /\ e.name = s) <=>
                        \E x \in svc[s] : Served(x) /\ e = EntryOf(s, x)
BY DEF Current

LEMMA ListMeans ==
    ASSUME Typed, NEW e
    PROVE  e \in ListServices <=>
              \E s \in Service : \E x \in svc[s] :
                 Served(x) /\ e = EntryOf(s, x)
<1> DEFINE U == {u \in Service \X ServiceSpec : u[2] \in svc[u[1]] /\ Served(u[2])}
<1>1. ASSUME NEW s \in Service, NEW x \in svc[s], Served(x)
      PROVE  <<s, x>> \in U
  <2>1. x \in ServiceSpec
    BY DEF Typed
  <2> QED
    BY <1>1, <2>1
<1>2. \A u \in U : u[1] \in Service /\ u[2] \in svc[u[1]] /\ Served(u[2])
  OBVIOUS
<1>3. ListServices = {EntryOf(u[1], u[2]) : u \in U}
  BY DEF ListServices
<1>4. ASSUME NEW s \in Service, NEW x \in svc[s], Served(x), e = EntryOf(s, x)
      PROVE  e \in ListServices
  <2>1. <<s, x>>[1] = s /\ <<s, x>>[2] = x
    OBVIOUS
  <2> HIDE DEF U
  <2> QED
    BY <1>1, <1>3, <1>4, <2>1
<1> HIDE DEF U
<1> QED
  BY <1>2, <1>3, <1>4

LEMMA ListIsCurrent ==
    ASSUME Typed, NEW s \in Service
    PROVE  Current(ListServices, s)
<1>1. \A t, x : EntryOf(t, x).name = t
  BY DEF EntryOf
<1> QED
  BY <1>1, ListMeans, CurrentMeans

\* A List of at most one entry per Service is not cut when there is room.
LEMMA RoomForAll ==
    ASSUME Typed, SpecInv, Roomy, NEW C \in Truncations(ListServices)
    PROVE  C = ListServices
<1> DEFINE N == {s \in Service : \E x \in svc[s] : Served(x)}
           f == [s \in N |-> EntryOf(s, CHOOSE x \in svc[s] : Served(x))]
<1>1. IsFiniteSet(N) /\ Cardinality(N) <= Cardinality(Service)
  BY CacheAssumption, FS_Subset DEF CacheAssumption
<1>2. f \in Surjection(N, ListServices)
  <2>1. \A s \in N : \A x \in svc[s] : Served(x) => f[s] = EntryOf(s, x)
    BY DEF SpecInv
  <2>2. \A s \in N : \E x \in svc[s] : Served(x) /\ f[s] = EntryOf(s, x)
    BY <2>1
  <2>3. f \in [N -> ListServices]
    BY <2>2, ListMeans
  <2>4. \A e \in ListServices : \E s \in N : f[s] = e
    BY <2>1, ListMeans
  <2> QED
    BY <2>3, <2>4 DEF Surjection
<1>3. /\ IsFiniteSet(ListServices)
      /\ Cardinality(ListServices) <= Cardinality(N)
  BY <1>1, <1>2, FS_Surjection
<1>4. /\ Cardinality(ListServices) \in Nat
      /\ Cardinality(N) \in Nat
      /\ Cardinality(Service) \in Nat
  BY <1>1, <1>3, CacheAssumption, FS_CardinalityType DEF CacheAssumption
<1>5. MaxCacheSize = 0 \/ Cardinality(ListServices) <= MaxCacheSize
  BY <1>1, <1>3, <1>4, CacheAssumption DEF Roomy, CacheAssumption
<1> QED
  BY <1>5 DEF Truncations

(***************************************************************************)
(* What each action does to the fields that the invariants read.           *)
(***************************************************************************)

LEMMA Holders ==
    /\ Nobody # Handler
    /\ \A s \in Service : s # Nobody /\ s # Handler
BY CacheAssumption DEF CacheAssumption, Nobody, Handler

LEMMA StartReconcileEffect ==
    ASSUME Typed, NEW s \in Service, StartReconcile(s)
    PROVE  /\ worker[s].pc = "idle"
           /\ \A w \in Service : w # s => worker'[w] = worker[w]
           /\ \/ /\ svc[s] # {} /\ left' = left
                 /\ worker'[s].pc = "update" /\ worker'[s].spec = svc[s]
              \/ /\ svc[s] = {} /\ left' = left
                 /\ worker'[s].pc = "refresh"
              \/ /\ Faulty
                 /\ worker'[s].pc = "refresh" /\ worker'[s].failed
<1>1. worker \in [Service -> WorkerState]
  BY DEF Typed
<1>2. /\ [worker[s] EXCEPT !.pc = "update", !.spec = svc[s]].pc = "update"
      /\ [worker[s] EXCEPT !.pc = "update", !.spec = svc[s]].spec = svc[s]
      /\ [worker[s] EXCEPT !.pc = "refresh"].pc = "refresh"
      /\ [worker[s] EXCEPT !.pc = "refresh", !.failed = TRUE].pc = "refresh"
      /\ [worker[s] EXCEPT !.pc = "refresh", !.failed = TRUE].failed
  BY <1>1 DEF WorkerState
<1>3. worker[s].pc = "idle"
  BY DEF StartReconcile, Active
<1>4. \A w \in Service : w # s => worker'[w] = worker[w]
  BY <1>1 DEF StartReconcile
<1>5. CASE /\ svc[s] # {}
           /\ worker' = [worker EXCEPT ![s] =
                           [@ EXCEPT !.pc = "update", !.spec = svc[s]]]
           /\ UNCHANGED left
  <2>1. worker'[s] = [worker[s] EXCEPT !.pc = "update", !.spec = svc[s]]
    BY <1>1, <1>5
  <2> QED
    BY <1>2, <1>3, <1>4, <1>5, <2>1
<1>6. CASE /\ svc[s] = {}
           /\ worker' = [worker EXCEPT ![s] = [@ EXCEPT !.pc = "refresh"]]
           /\ UNCHANGED left
  <2>1. worker'[s] = [worker[s] EXCEPT !.pc = "refresh"]
    BY <1>1, <1>6
  <2> QED
    BY <1>2, <1>3, <1>4, <1>6, <2>1
<1>7. CASE /\ Faulty
           /\ worker' = [worker EXCEPT ![s] =
                           [@ EXCEPT !.pc = "refresh", !.failed = TRUE]]
  <2>1. worker'[s] = [worker[s] EXCEPT !.pc = "refresh", !.failed = TRUE]
    BY <1>1, <1>7
  <2> QED
    BY <1>2, <1>3, <1>4, <1>7, <2>1
<1> QED
  BY <1>5, <1>6, <1>7 DEF StartReconcile

LEMMA LockForRefreshEffect ==
    ASSUME Typed, NEW s \in Service, LockForRefresh(s)
    PROVE  /\ worker[s].pc = "refresh"
           /\ \A w \in Service : w # s => worker'[w] = worker[w]
           /\ worker'[s].pc = "list services"
           /\ worker'[s].failed = worker[s].failed
           /\ worker'[s].listed \in Truncations(ListServices)
<1>1. PICK C \in Truncations(ListServices) :
          worker' = [worker EXCEPT ![s] =
                        [@ EXCEPT !.pc = "list services", !.listed = C]]
  BY DEF LockForRefresh
<1>2. worker \in [Service -> WorkerState]
  BY DEF Typed
<1>3. worker'[s] = [worker[s] EXCEPT !.pc = "list services", !.listed = C]
  BY <1>1, <1>2
<1>4. /\ worker'[s].pc = "list services"
      /\ worker'[s].failed = worker[s].failed
      /\ worker'[s].listed = C
  BY <1>2, <1>3 DEF WorkerState
<1>5. worker[s].pc = "refresh" /\ \A w \in Service : w # s => worker'[w] = worker[w]
  BY <1>1, <1>2 DEF LockForRefresh
<1> QED
  BY <1>4, <1>5

LEMMA EndEffect ==
    ASSUME Typed, NEW s \in Service, NEW failed, End(s, failed)
    PROVE  /\ worker'[s].pc = "idle"
           /\ \A w \in Service : w # s => worker'[w] = worker[w]
           /\ queue \subseteq queue'
           /\ failed => s \in queue'
BY DEF Typed, End, IdleWorker

\* The handler keeps its step and its Pod while a reconcile changes the cache.
LEMMA HeldEffect ==
    ASSUME Typed, NEW H, handler' = [handler EXCEPT !.held = H]
    PROVE  /\ handler'.pc = handler.pc
           /\ handler'.pod = handler.pod
           /\ handler'.listed = handler.listed
           /\ handler'.held = H
BY DEF Typed, HandlerState

LEMMA RefreshForMissingEffect ==
    ASSUME Typed, NEW s \in Service, RefreshForMissing(s)
    PROVE  /\ worker[s].pc = "list services"
           /\ worker'[s].pc = "idle"
           /\ \A w \in Service : w # s => worker'[w] = worker[w]
           /\ queue \subseteq queue'
           /\ worker[s].failed => s \in queue'
           /\ cacheMu' = Nobody
           /\ \/ cache' = worker[s].listed /\ left' = left
              \/ cache' = cache /\ Faulty
           /\ handler'.pc = handler.pc
           /\ handler'.pod = handler.pod
           /\ handler'.listed = handler.listed
           /\ handler'.held \in {handler.held, Unshare(handler.held, Service)}
<1>1. End(s, worker[s].failed)
  BY DEF RefreshForMissing
<1>2. /\ handler'.pc = handler.pc
      /\ handler'.pod = handler.pod
      /\ handler'.listed = handler.listed
      /\ handler'.held \in {handler.held, Unshare(handler.held, Service)}
  BY HeldEffect DEF RefreshForMissing
<1> QED
  BY <1>1, <1>2, EndEffect DEF RefreshForMissing, Refresh

LEMMA UpdateForServiceEffect ==
    ASSUME Typed, NEW s \in Service, UpdateForService(s)
    PROVE  /\ worker[s].pc = "update" /\ cacheMu = Nobody
           /\ \A w \in Service : w # s => worker'[w] = worker[w]
           /\ queue \subseteq queue'
           /\ handler'.pc = handler.pc
           /\ handler'.pod = handler.pod
           /\ handler'.listed = handler.listed
           /\ left' = left \/ Faulty
           /\ \E x \in worker[s].spec :
                 \/ /\ Served(x)
                    /\ cache' = {e \in cache : e.name # s} \cup {EntryOf(s, x)}
                    /\ handler'.held = Overwrite(handler.held, s, x.selector)
                    /\ worker'[s].pc = "list"
                    /\ worker'[s].spec = worker[s].spec
                    /\ queue' = queue
                 \/ /\ ~Served(x)
                    /\ cache' = {e \in cache : e.name # s}
                    /\ handler'.held = Unshare(handler.held, {s})
                    /\ worker'[s].pc = "idle"
<1>1. PICK x \in worker[s].spec :
          \/ /\ Served(x)
             /\ AddOrUpdate(s, x)
             /\ worker' = [worker EXCEPT ![s].pc = "list"]
             /\ UNCHANGED <<queue, left>>
          \/ /\ ~Served(x)
             /\ Remove(s)
             /\ \/ End(s, FALSE) /\ UNCHANGED left
                \/ ~x.enabled /\ Faulty /\ End(s, TRUE)
  BY DEF UpdateForService
<1>2. worker[s].pc = "update" /\ cacheMu = Nobody
  BY DEF UpdateForService, Unlocked
<1>3. CASE Served(x) /\ AddOrUpdate(s, x)
           /\ worker' = [worker EXCEPT ![s].pc = "list"]
           /\ UNCHANGED <<queue, left>>
  <2>1. worker'[s] = [worker[s] EXCEPT !.pc = "list"]
    BY <1>3 DEF Typed
  <2>2. worker'[s].pc = "list" /\ worker'[s].spec = worker[s].spec
    <3>1. worker[s] \in WorkerState
      BY DEF Typed
    <3> QED
      BY <2>1, <3>1 DEF WorkerState
  <2>3. \A w \in Service : w # s => worker'[w] = worker[w]
    BY <1>3 DEF Typed
  <2> QED
    BY <1>2, <1>3, <2>2, <2>3, HeldEffect DEF AddOrUpdate
<1>4. CASE ~Served(x) /\ Remove(s) /\ \/ End(s, FALSE) /\ UNCHANGED left
                                      \/ Faulty /\ End(s, TRUE)
  BY <1>2, <1>4, HeldEffect, EndEffect DEF Remove
<1> QED
  BY <1>1, <1>3, <1>4

LEMMA ListPodsEffect ==
    ASSUME Typed, NEW s \in Service, ListPods(s)
    PROVE  /\ worker[s].pc = "list"
           /\ worker'[s].pc = "idle"
           /\ \A w \in Service : w # s => worker'[w] = worker[w]
           /\ queue \subseteq queue'
           /\ left' = left \/ Faulty
           /\ \A w \in Service : w # s => seen'[w] = seen[w]
           /\ \/ seen'[s] = UNION {Matching(x) : x \in worker[s].spec}
              \/ s \in queue'
<1>1. End(s, FALSE) \/ End(s, TRUE)
  BY DEF ListPods
<1>2. worker[s].pc = "list" /\ (left' = left \/ Faulty)
  BY DEF ListPods
<1>3. \A w \in Service : w # s => seen'[w] = seen[w]
  BY DEF ListPods, Typed
<1>4. seen'[s] = UNION {Matching(x) : x \in worker[s].spec} \/ s \in queue'
  BY EndEffect DEF ListPods, Typed
<1> QED
  BY <1>1, <1>2, <1>3, <1>4, EndEffect

LEMMA TakeEventEffect ==
    ASSUME Typed, TakeEvent
    PROVE  /\ handler.pc = "idle"
           /\ handler'.pc \in {"hit", "miss"}
           /\ podEvents # <<>>
           /\ handler'.pod = {Head(podEvents)}
           /\ podEvents' = Tail(podEvents)
BY DEF TakeEvent, Typed, HandlerState

LEMMA HitEffect ==
    ASSUME Typed, Hit
    PROVE  /\ handler.pc = "hit"
           /\ handler'.pc = "match"
           /\ handler'.pod = handler.pod
           /\ handler'.held = Hold(cache)
BY DEF Hit, Typed, HandlerState

LEMMA MissEffect ==
    ASSUME Typed, Miss
    PROVE  /\ handler.pc = "miss" /\ cacheMu = Nobody
           /\ handler'.pod = handler.pod
           /\ \/ /\ handler'.pc = "match"
                 /\ handler'.held = Hold(cache)
                 /\ cacheMu' = cacheMu
              \/ /\ handler'.pc = "list"
                 /\ handler'.listed \in Truncations(ListServices)
                 /\ cacheMu' = Handler
<1>1. CASE /\ handler' = [handler EXCEPT !.pc = "match", !.held = Hold(cache)]
           /\ UNCHANGED cacheMu
  <2>1. /\ handler'.pc = "match"
        /\ handler'.pod = handler.pod
        /\ handler'.held = Hold(cache)
    BY <1>1 DEF Typed, HandlerState
  <2> QED
    BY <1>1, <2>1 DEF Miss, Unlocked
<1>2. CASE /\ cacheMu' = Handler
           /\ \E C \in Truncations(ListServices) :
                 handler' = [handler EXCEPT !.pc = "list", !.listed = C]
  <2>1. PICK C \in Truncations(ListServices) :
                 handler' = [handler EXCEPT !.pc = "list", !.listed = C]
    BY <1>2
  <2>2. /\ handler'.pc = "list"
        /\ handler'.pod = handler.pod
        /\ handler'.listed = C
    BY <2>1 DEF Typed, HandlerState
  <2> QED
    BY <1>2, <2>2 DEF Miss, Unlocked
<1> QED
  BY <1>1, <1>2 DEF Miss

LEMMA RefreshForEventEffect ==
    ASSUME Typed, RefreshForEvent
    PROVE  /\ handler.pc = "list"
           /\ handler'.pc = "match"
           /\ handler'.pod = handler.pod
           /\ handler'.held = Hold(cache')
           /\ cacheMu' = Nobody
           /\ \/ cache' = handler.listed /\ left' = left
              \/ cache' = cache /\ Faulty
BY DEF RefreshForEvent, Refresh, Typed, HandlerState

LEMMA InitCacheInv == Init => CacheInv
<1> SUFFICES ASSUME Init
             PROVE  CacheInv
  OBVIOUS
<1>1. \A s \in Service : worker[s].pc = "idle"
  BY DEF Init, IdleWorker
<1>2. handler.pc = "idle"
  BY DEF Init, IdleHandler
<1>3. LockInv
  BY <1>1, <1>2, Holders DEF Init, LockInv
<1>4. SpecInv
  BY <1>1, CacheAssumption DEF Init, SpecInv, CacheAssumption
<1>5. CurrentInv
  <2>1. ASSUME NEW s \in Service
        PROVE  Current(cache, s) \/ s \in queue
    <3>1. CASE InitSvc[s] = {}
      BY <3>1 DEF Init, Current
    <3> QED
      BY <3>1 DEF Init
  <2> QED
    BY <1>1, <1>2, <2>1 DEF CurrentInv, Settling
<1> QED
  BY <1>3, <1>4, <1>5 DEF CacheInv

(***************************************************************************)
(* The lock has one holder, and a reconcile works on what the informer has *)
(* or comes back.                                                          *)
(***************************************************************************)

LEMMA FaultSpent ==
    ASSUME Typed, left.fault <= Budget.fault, left' = left \/ Faulty
    PROVE  /\ left'.fault <= left.fault
           /\ left'.fault <= Budget.fault
           /\ left' # left => left'.fault < Budget.fault
<1>1. left.fault \in Nat /\ Budget.fault \in Nat
  BY CacheAssumption DEF Typed, CacheAssumption
<1>2. CASE Faulty
  <2>1. left'.fault = left.fault - 1
    BY <1>2 DEF Faulty, Typed
  <2> QED
    BY <1>1, <2>1
<1> QED
  BY <1>1, <1>2

LEMMA ReconcileLockInv ==
    ASSUME Typed, LockInv, SpecInv, NEW s \in Service, ReconcileStep(s)
    PROVE  LockInv' /\ SpecInv'
<1> USE Holders
<1>1. SUFFICES
        ASSUME svc' = svc,
               left' = left \/ Faulty,
               \A w \in Service : w # s => worker'[w] = worker[w],
               \A w \in Service : w # s => (w \in queue <=> w \in queue')
        PROVE  /\ worker'[s].pc = "list services" <=> cacheMu' = s
               /\ handler'.pc = handler.pc
               /\ \A w \in Service : w # s => (cacheMu' = w <=> cacheMu = w)
               /\ cacheMu' = Handler <=> cacheMu = Handler
               /\ worker'[s].pc \in {"update", "list"} =>
                     worker'[s].spec = svc[s] \/ s \in queue'
  <2>1. svc' = svc /\ (left' = left \/ Faulty)
    BY DEF ReconcileStep, StartReconcile, LockForRefresh, RefreshForMissing,
           Refresh, UpdateForService, ListPods
  <2>2. \A w \in Service : w # s =>
           worker'[w] = worker[w] /\ (w \in queue <=> w \in queue')
    BY DEF ReconcileStep, StartReconcile, LockForRefresh, RefreshForMissing,
           UpdateForService, ListPods, End, Typed
  <2>3. left'.fault <= Budget.fault
    BY <2>1, FaultSpent DEF SpecInv
  <2> QED
    BY <2>1, <2>2, <2>3 DEF LockInv, SpecInv
<1>2. CASE StartReconcile(s)
  BY <1>2, StartReconcileEffect DEF StartReconcile, LockInv
<1>3. CASE LockForRefresh(s)
  BY <1>3, LockForRefreshEffect DEF LockForRefresh, Unlocked
<1>4. CASE RefreshForMissing(s)
  <2>1. cacheMu = s
    BY <1>4, RefreshForMissingEffect DEF LockInv
  <2> QED
    BY <1>4, <2>1, RefreshForMissingEffect
<1>5. CASE UpdateForService(s)
  <2>1. cacheMu' = cacheMu
    BY <1>5 DEF UpdateForService
  <2>2. /\ worker'[s].pc \in {"idle", "list"}
        /\ worker'[s].pc = "list" => /\ worker'[s].spec = worker[s].spec
                                     /\ queue' = queue
    BY <1>5, UpdateForServiceEffect
  <2> QED
    BY <1>5, <2>1, <2>2, UpdateForServiceEffect DEF SpecInv
<1>6. CASE ListPods(s)
  BY <1>6, ListPodsEffect DEF ListPods, LockInv
<1> QED
  BY <1>2, <1>3, <1>4, <1>5, <1>6 DEF ReconcileStep

LEMMA HandlerLockInv ==
    ASSUME Typed, LockInv, SpecInv, HandlerStep
    PROVE  LockInv' /\ SpecInv'
<1> USE Holders
<1>1. /\ svc' = svc /\ worker' = worker /\ queue \subseteq queue'
      /\ left' = left \/ Faulty
  BY DEF HandlerStep, TakeEvent, Hit, Miss, RefreshForEvent, Refresh, Match
<1>2. SpecInv'
  BY <1>1, FaultSpent DEF SpecInv
<1>3. /\ handler'.pc = "list" <=> cacheMu' = Handler
      /\ \A s \in Service : cacheMu' = s <=> cacheMu = s
  <2>1. CASE TakeEvent
    BY <2>1, TakeEventEffect DEF TakeEvent, LockInv
  <2>2. CASE Hit
    BY <2>2, HitEffect DEF Hit, LockInv
  <2>3. CASE Miss
    BY <2>3, MissEffect
  <2>4. CASE RefreshForEvent
    <3>1. cacheMu = Handler
      BY <2>4, RefreshForEventEffect DEF LockInv
    <3> QED
      BY <2>4, <3>1, RefreshForEventEffect
  <2>5. CASE Match
    BY <2>5 DEF Match, IdleHandler, LockInv
  <2> QED
    BY <2>1, <2>2, <2>3, <2>4, <2>5 DEF HandlerStep
<1> QED
  BY <1>1, <1>2, <1>3 DEF LockInv

LEMMA EnvironmentLockInv ==
    ASSUME Typed, LockInv, SpecInv, Environment
    PROVE  LockInv' /\ SpecInv'
<1>1. UNCHANGED <<cacheMu, handler, worker>>
  BY DEF Environment, PodChanged, ServiceChanged
<1>2. left'.fault = left.fault
  BY DEF Environment, PodChanged, ServiceChanged, Spend, Typed
<1>3. ASSUME NEW s \in Service
      PROVE  \/ svc'[s] = svc[s] /\ (s \in queue => s \in queue')
             \/ s \in queue' /\ \A x, y \in svc'[s] : x = y
  <2>1. CASE PodChanged
    BY <2>1 DEF PodChanged
  <2>2. CASE ServiceChanged
    <3>1. PICK t \in Service, new \in {{}} \cup {{x} : x \in Specs} :
             /\ svc' = [svc EXCEPT ![t] = new]
             /\ queue' = queue \cup {t}
      BY <2>2 DEF ServiceChanged
    <3>2. \A x, y \in new : x = y
      OBVIOUS
    <3> QED
      BY <3>1, <3>2 DEF Typed
  <2> QED
    BY <2>1, <2>2 DEF Environment
<1> QED
  BY <1>1, <1>2, <1>3 DEF LockInv, SpecInv

(***************************************************************************)
(* The cache and the Lists on their way into it.                           *)
(***************************************************************************)

\* What a reconcile does to the entry of its own Service.
LEMMA CacheUpdated ==
    ASSUME NEW C, NEW s, NEW x, svc[s] = {x},
           NEW D, D = IF Served(x)
                      THEN {e \in C : e.name # s} \cup {EntryOf(s, x)}
                      ELSE {e \in C : e.name # s}
    PROVE  Current(D, s)
<1>1. EntryOf(s, x).name = s
  BY DEF EntryOf
<1> QED
  BY <1>1, CurrentMeans

LEMMA OthersKept ==
    ASSUME NEW C, NEW D, NEW t,
           \A e : e.name = t => (e \in C <=> e \in D)
    PROVE  Current(C, t) => Current(D, t)
BY CurrentMeans

LEMMA StartReconcileCurrent ==
    ASSUME Typed, CacheInv, CurrentInv, NEW s \in Service, StartReconcile(s)
    PROVE  CurrentInv'
<1>1. /\ UNCHANGED <<svc, cache, handler>>
      /\ queue' = queue \ {s}
      /\ left' = left \/ Faulty
  BY DEF StartReconcile
<1>2. left'.fault <= left.fault
  BY <1>1, FaultSpent DEF CacheInv, SpecInv
<1>3. Settling(s)'
  BY <1>1, StartReconcileEffect DEF Settling
<1>4. ASSUME NEW t \in Service, Settling(t)
      PROVE  Settling(t)'
  BY <1>1, <1>3, <1>4, StartReconcileEffect DEF Settling
<1>5. ASSUME NEW t \in Service, Excused(t)
      PROVE  Excused(t)'
  <2>1. left.fault \in Nat /\ left'.fault \in Nat /\ Budget.fault \in Nat
    BY <1>1, FaultyType, CacheAssumption DEF Typed, CacheAssumption
  <2> QED
    BY <1>1, <1>2, <1>5, <2>1 DEF Excused
<1>6. ASSUME NEW w \in Service, worker'[w].pc = "list services"
      PROVE  w # s /\ worker'[w] = worker[w]
  BY <1>6, StartReconcileEffect
<1>7. \A C : \A t \in Service : Current(C, t) => Current(C, t)'
  BY <1>1 DEF Current
<1>8. ASSUME NEW t \in Service
      PROVE  /\ Current(cache, t)' \/ Settling(t)' \/ Excused(t)'
             /\ handler'.pc = "list" => Current(handler.listed, t)' \/ Settling(t)'
  BY <1>1, <1>4, <1>5, <1>7 DEF CurrentInv
<1>9. ASSUME NEW t \in Service, NEW w \in Service, worker'[w].pc = "list services"
      PROVE  \/ Current(worker[w].listed, t)'
             \/ t \in queue'
             \/ t # w /\ Settling(t)'
  <2>1. w # s /\ worker'[w] = worker[w]
    BY <1>6, <1>9
  <2> QED
    BY <1>1, <1>3, <1>4, <1>7, <1>9, <2>1 DEF CurrentInv
<1> QED
  BY <1>8, <1>9 DEF CurrentInv

\* A List that is taken now is current, if the cache has room.
LEMMA NewListCurrent ==
    ASSUME Typed, SpecInv, Roomy, NEW C \in Truncations(ListServices),
           NEW t \in Service
    PROVE  Current(C, t)
BY RoomForAll, ListIsCurrent

LEMMA ReconcileCurrent ==
    ASSUME Typed, CacheInv, CurrentInv, Roomy, NEW s \in Service, ReconcileStep(s)
    PROVE  CurrentInv'
<1> USE Holders
<1>1. LockInv /\ SpecInv
  BY DEF CacheInv
<1>2. CASE StartReconcile(s)
  BY <1>2, StartReconcileCurrent
<1>3. CASE LockForRefresh(s)
  <2>1. UNCHANGED <<svc, cache, handler, queue, left>> /\ cacheMu = Nobody
    BY <1>3 DEF LockForRefresh, Unlocked
  <2>2. \A C : \A t \in Service : Current(C, t) => Current(C, t)'
    BY <2>1 DEF Current
  <2>3. \A t \in Service : Settling(t) => Settling(t)'
    BY <1>3, <2>1, LockForRefreshEffect DEF Settling
  <2>4. \A t \in Service : Current(worker[s].listed, t)'
    <3>1. \A t \in Service : Current(worker'[s].listed, t)
      BY <1>1, <1>3, LockForRefreshEffect, NewListCurrent
    <3> QED
      BY <2>1, <3>1 DEF Current
  <2>5. \A w \in Service : worker'[w].pc = "list services" => w = s
    BY <1>1, <1>3, <2>1, LockForRefreshEffect DEF LockInv
  <2> QED
    BY <2>1, <2>2, <2>3, <2>4, <2>5 DEF CurrentInv, Excused
<1>4. CASE RefreshForMissing(s)
  <2>1. UNCHANGED svc /\ cacheMu = s
    BY <1>1, <1>4, RefreshForMissingEffect DEF LockInv, RefreshForMissing
  <2>2. \A C : \A t \in Service : Current(C, t) => Current(C, t)'
    BY <2>1 DEF Current
  <2>3. \A w \in Service : worker'[w].pc # "list services"
    BY <1>1, <1>4, <2>1, RefreshForMissingEffect DEF LockInv
  <2>4. handler'.pc # "list"
    BY <1>1, <1>4, <2>1, RefreshForMissingEffect DEF LockInv
  <2>5. ASSUME NEW t \in Service, Settling(t), t # s
        PROVE  Settling(t)'
    BY <1>4, <2>1, <2>5, RefreshForMissingEffect DEF Settling
  <2>6. ASSUME Settling(s), left' # left
        PROVE  Settling(s)' \/ Excused(s)'
    <3>1. left'.fault < Budget.fault
      BY <1>1, <1>4, <2>6, RefreshForMissingEffect, FaultSpent DEF SpecInv
    <3> QED
      BY <1>4, <2>1, <2>6, <3>1, RefreshForMissingEffect DEF Settling, Excused
  <2>7. ASSUME NEW t \in Service
        PROVE  Current(cache, t)' \/ Settling(t)' \/ Excused(t)'
    <3>1. CASE cache' = worker[s].listed /\ left' = left
      <4>1. \/ Current(worker[s].listed, t)
            \/ t \in queue
            \/ t # s /\ Settling(t)
        BY <1>4, RefreshForMissingEffect DEF CurrentInv
      <4> QED
        BY <1>4, <2>2, <2>5, <3>1, <4>1, RefreshForMissingEffect DEF Settling
    <3>2. CASE cache' = cache /\ Faulty
      <4>1. left'.fault < left.fault /\ left' # left
        <5>1. left'.fault = left.fault - 1 /\ left.fault \in Nat
          BY <3>2 DEF Faulty, Typed
        <5> QED
          BY <5>1
      <4>2. Excused(t) => Excused(t)'
        <5>1. left'.fault < Budget.fault
          BY <1>1, <3>2, <4>1, FaultSpent DEF SpecInv
        <5> QED
          BY <2>1, <5>1 DEF Excused
      <4> QED
        BY <2>2, <2>5, <2>6, <3>2, <4>1, <4>2 DEF CurrentInv
    <3> QED
      BY <1>4, <3>1, <3>2, RefreshForMissingEffect
  <2> QED
    BY <2>3, <2>4, <2>7 DEF CurrentInv
<1>5. CASE UpdateForService(s)
  <2>1. UNCHANGED svc /\ cacheMu = Nobody /\ cacheMu' = Nobody
    BY <1>5, UpdateForServiceEffect DEF UpdateForService
  <2>2. handler'.pc # "list" /\ \A w \in Service : worker'[w].pc # "list services"
    BY <1>1, <1>5, <2>1, UpdateForServiceEffect, ReconcileLockInv DEF LockInv
  <2>3. PICK x \in worker[s].spec :
           cache' = IF Served(x)
                    THEN {e \in cache : e.name # s} \cup {EntryOf(s, x)}
                    ELSE {e \in cache : e.name # s}
    BY <1>5, UpdateForServiceEffect
  <2>4. Current(cache, s)' \/ Settling(s)'
    <3>1. CASE s \in queue
      BY <1>5, <3>1, UpdateForServiceEffect DEF Settling
    <3>2. CASE worker[s].spec = svc[s]
      <4>1. svc[s] = {x}
        BY <1>1, <2>3, <3>2 DEF SpecInv
      <4>2. Current(cache', s)
        BY <2>3, <4>1, CacheUpdated
      <4> QED
        BY <2>1, <4>2 DEF Current
    <3> QED
      BY <1>1, <1>5, <3>1, <3>2, UpdateForServiceEffect DEF SpecInv
  <2>5. ASSUME NEW t \in Service, t # s
        PROVE  Current(cache, t)' \/ Settling(t)' \/ Excused(t)'
    <3>1. Current(cache, t) => Current(cache', t)
      <4>1. EntryOf(s, x).name = s
        BY DEF EntryOf
      <4>2. \A e : e.name = t => (e \in cache <=> e \in cache')
        BY <2>3, <2>5, <4>1
      <4> QED
        BY <4>2, OthersKept
    <3>2. Current(cache', t) => Current(cache, t)'
      BY <2>1 DEF Current
    <3>3. Settling(t) => Settling(t)'
      BY <1>5, <2>1, <2>5, UpdateForServiceEffect DEF Settling
    <3>4. Excused(t) => Excused(t)'
      <4>1. left'.fault <= left.fault
        BY <1>1, <1>5, UpdateForServiceEffect, FaultSpent DEF SpecInv
      <4>2. left.fault \in Nat /\ left'.fault \in Nat /\ Budget.fault \in Nat
        BY <1>5, UpdateForServiceType, CacheAssumption
           DEF ReconcileStep, Typed, CacheAssumption
      <4> QED
        BY <2>1, <4>1, <4>2 DEF Excused
    <3> QED
      BY <3>1, <3>2, <3>3, <3>4 DEF CurrentInv
  <2> QED
    BY <1>5, <2>2, <2>4, <2>5 DEF CurrentInv, ReconcileStep
<1>6. CASE ListPods(s)
  <2>1. UNCHANGED <<svc, cache, handler>>
    BY <1>6 DEF ListPods
  <2>2. \A C : \A t \in Service : Current(C, t) => Current(C, t)'
    BY <2>1 DEF Current
  <2>3. \A t \in Service : Settling(t) => Settling(t)'
    BY <1>6, <2>1, ListPodsEffect DEF Settling
  <2>4. \A t \in Service : Excused(t) => Excused(t)'
    <3>1. left'.fault <= left.fault
      BY <1>1, <1>6, ListPodsEffect, FaultSpent DEF SpecInv
    <3>2. left.fault \in Nat /\ left'.fault \in Nat /\ Budget.fault \in Nat
      BY <1>6, ListPodsType, CacheAssumption DEF Typed, CacheAssumption
    <3> QED
      BY <2>1, <3>1, <3>2 DEF Excused
  <2>5. \A w \in Service : worker'[w].pc = "list services" =>
           worker'[w] = worker[w]
    BY <1>6, ListPodsEffect
  <2> QED
    BY <1>6, <2>1, <2>2, <2>3, <2>4, <2>5, ListPodsEffect DEF CurrentInv
<1> QED
  BY <1>2, <1>3, <1>4, <1>5, <1>6 DEF ReconcileStep

LEMMA HandlerCurrent ==
    ASSUME Typed, CacheInv, CurrentInv, Roomy, HandlerStep
    PROVE  CurrentInv'
<1> USE Holders
<1>1. LockInv /\ SpecInv
  BY DEF CacheInv
<1>2. UNCHANGED <<svc, worker>> /\ queue \subseteq queue'
  BY DEF HandlerStep, TakeEvent, Hit, Miss, RefreshForEvent, Match
<1>3. \A C : \A t \in Service : Current(C, t) => Current(C, t)'
  BY <1>2 DEF Current
<1>4. \A t \in Service : Settling(t) => Settling(t)'
  BY <1>2 DEF Settling
<1>5. \A t \in Service : Excused(t) => Excused(t)'
  <2>1. left' = left \/ Faulty
    BY DEF HandlerStep, TakeEvent, Hit, Miss, RefreshForEvent, Refresh, Match
  <2>2. left'.fault <= left.fault
    BY <1>1, <2>1, FaultSpent DEF SpecInv
  <2>3. left.fault \in Nat /\ left'.fault \in Nat /\ Budget.fault \in Nat
    BY HandlerType, CacheAssumption DEF Typed, CacheAssumption
  <2> QED
    BY <1>2, <2>2, <2>3 DEF Excused
<1>6. ASSUME NEW t \in Service
      PROVE  Current(cache, t)' \/ Settling(t)' \/ Excused(t)'
  <2>1. \/ cache' = cache
        \/ handler.pc = "list" /\ cache' = handler.listed
    BY RefreshForEventEffect DEF HandlerStep, TakeEvent, Hit, Miss, Match
  <2> QED
    BY <1>3, <1>4, <1>5, <2>1 DEF CurrentInv
<1>7. ASSUME NEW t \in Service, handler'.pc = "list"
      PROVE  Current(handler.listed, t)' \/ Settling(t)'
  <2>1. Miss
    BY <1>7, TakeEventEffect, HitEffect, RefreshForEventEffect
       DEF HandlerStep, Match, IdleHandler
  <2>2. handler'.listed \in Truncations(ListServices)
    BY <1>7, <2>1, MissEffect
  <2>3. Current(handler'.listed, t)
    BY <1>1, <2>2, NewListCurrent
  <2> QED
    BY <1>2, <2>3 DEF Current
<1> QED
  BY <1>2, <1>3, <1>4, <1>6, <1>7 DEF CurrentInv

LEMMA EnvironmentCurrent ==
    ASSUME Typed, CurrentInv, Environment
    PROVE  CurrentInv'
<1>1. UNCHANGED <<cache, handler, worker>> /\ queue \subseteq queue'
  BY DEF Environment, PodChanged, ServiceChanged
<1>2. left'.fault = left.fault
  BY DEF Environment, PodChanged, ServiceChanged, Spend, Typed
<1>3. \A s \in Service : svc'[s] = svc[s] \/ s \in queue'
  BY DEF Environment, PodChanged, ServiceChanged, Typed
<1>4. ASSUME NEW s \in Service, svc'[s] = svc[s]
      PROVE  /\ \A C : Current(C, s) => Current(C, s)'
             /\ Settling(s) => Settling(s)'
             /\ Excused(s) => Excused(s)'
  BY <1>1, <1>2, <1>4 DEF Current, Settling, Excused
<1>5. \A s \in Service : s \in queue' => Settling(s)'
  BY DEF Settling
<1>6. ASSUME NEW s \in Service, svc'[s] = svc[s]
      PROVE  /\ Current(cache, s)' \/ Settling(s)' \/ Excused(s)'
             /\ handler'.pc = "list" => Current(handler.listed, s)' \/ Settling(s)'
             /\ \A w \in Service :
                   worker'[w].pc = "list services" =>
                      \/ Current(worker[w].listed, s)'
                      \/ s \in queue'
                      \/ s # w /\ Settling(s)'
  BY <1>1, <1>4, <1>6 DEF CurrentInv
<1> QED
  BY <1>3, <1>5, <1>6 DEF CurrentInv

LEMMA CacheStep ==
    ASSUME Typed, CacheInv, [Next]_vars
    PROVE  CacheInv'
<1>1. LockInv /\ SpecInv /\ (Roomy => CurrentInv)
  BY DEF CacheInv
<1>2. Roomy' = Roomy
  BY DEF Roomy
<1>3. ASSUME NEW s \in Service, ReconcileStep(s)
      PROVE  CacheInv'
  BY <1>1, <1>2, <1>3, ReconcileLockInv, ReconcileCurrent DEF CacheInv
<1>4. CASE HandlerStep
  BY <1>1, <1>2, <1>4, HandlerLockInv, HandlerCurrent DEF CacheInv
<1>5. CASE Environment
  BY <1>1, <1>2, <1>5, EnvironmentLockInv, EnvironmentCurrent DEF CacheInv
<1>6. CASE UNCHANGED vars
  BY <1>1, <1>2, <1>6
     DEF vars, CacheInv, LockInv, SpecInv, CurrentInv, Current, Settling, Excused
<1> QED
  BY <1>3, <1>4, <1>5, <1>6 DEF Next

\* CurrentInv says it all where nothing is left to do.
LEMMA CurrentAtRest ==
    ASSUME Typed, CacheInv
    PROVE  CacheIsCurrent
<1> SUFFICES ASSUME Roomy, Quiescent
             PROVE  /\ \A e \in cache : svc[e.name] = {} => left.fault < Budget.fault
                    /\ {e \in cache : svc[e.name] # {}} = ListServices
  BY DEF CacheIsCurrent
<1>1. \A s \in Service : Current(cache, s) \/ Excused(s)
  BY DEF CacheInv, CurrentInv, Settling, Quiescent, Active
<1>2. \A e \in cache : e.name \in Service
  BY DEF Typed, Entry
<1>3. ASSUME NEW e \in cache, svc[e.name] = {}
      PROVE  left.fault < Budget.fault
  BY <1>1, <1>2, <1>3, CurrentMeans DEF Excused
<1>4. ASSUME NEW e
      PROVE  e \in cache /\ svc[e.name] # {} <=> e \in ListServices
  <2>1. \A s, x : EntryOf(s, x).name = s
    BY DEF EntryOf
  <2>2. \A s \in Service : svc[s] # {} => Current(cache, s)
    BY <1>1 DEF Excused
  <2>3. ASSUME e \in cache, svc[e.name] # {}
        PROVE  e \in ListServices
    BY <1>2, <2>2, <2>3, CurrentMeans, ListMeans
  <2>4. ASSUME e \in ListServices
        PROVE  e \in cache /\ svc[e.name] # {}
    BY <2>1, <2>2, <2>4, CurrentMeans, ListMeans
  <2> QED
    BY <2>3, <2>4
<1> QED
  BY <1>3, <1>4

\* The cache is right when the controller is at rest, for any Services and any
\* number of parallel reconciles and faults: no List that was taken before an
\* update of a single entry is stored after it (updateOptedInServicesCacheLocked
\* lists under the write lock).
THEOREM CacheIsRight == Spec => []CacheIsCurrent
<1>1. Init => Typed /\ CacheInv
  BY InitType, InitCacheInv
<1>2. Typed /\ CacheInv /\ [Next]_vars => Typed' /\ CacheInv'
  BY TypeStep, CacheStep
<1>3. Typed /\ CacheInv => CacheIsCurrent
  BY CurrentAtRest
<1> QED
  BY <1>1, <1>2, <1>3, PTL DEF Spec

-----------------------------------------------------------------------------
(***************************************************************************)
(* The invariant of the Pod events.                                        *)
(***************************************************************************)

\* A List of the Pods of s is still to come.
WillList(s) ==
    \/ s \in queue
    \/ worker[s].pc \in {"update", "list"}
    \/ worker[s].pc \in {"refresh", "list services"} /\ worker[s].failed

\* An event of a Pod that x selects waits, or is with the handler, which then
\* has an entry of s all of whose selectors match the Pod.
EventWaits(s, x) ==
    \/ \E i \in 1 .. Len(podEvents) : Matches(podEvents[i], x.selector)
    \/ \E p \in handler.pod :
          /\ Matches(p, x.selector)
          /\ handler.pc = "match" =>
                \E e \in handler.held :
                    /\ e.name = s
                    /\ \A selector \in e.selectors : Matches(p, selector)

\* Whatever a Service has not heard of is on its way to it.
EventInv ==
    /\ handler.pc = "idle" => handler.pod = {}
    /\ \A s \in Service : \A x \in svc[s] :
          Served(x) => \/ seen[s] = Matching(x)
                       \/ WillList(s)
                       \/ EventWaits(s, x)

LEMMA InitEventInv == Init => EventInv
<1> SUFFICES ASSUME Init
             PROVE  EventInv
  OBVIOUS
<1>1. handler.pod = {}
  BY DEF Init, IdleHandler
<1>2. \A s \in Service : \A x \in svc[s] : s \in queue
  BY DEF Init
<1> QED
  BY <1>1, <1>2 DEF EventInv, WillList

\* A Service that is missing from the cache, or has an old selector in it, is
\* still to be reconciled.
LEMMA InCacheOrWillList ==
    ASSUME CurrentInv, NEW s \in Service, NEW x \in svc[s], Served(x)
    PROVE  EntryOf(s, x) \in cache \/ WillList(s)
<1>1. ~Excused(s)
  BY DEF Excused
<1>2. Settling(s) => WillList(s)
  BY DEF Settling, WillList
<1> QED
  BY <1>1, <1>2, CurrentMeans DEF CurrentInv

\* The entries that the handler holds keep their name and their selectors, but
\* for those of a Service whose reconcile overwrites its entry.
LEMMA UnshareKeeps ==
    ASSUME NEW H \in SUBSET HeldEntry, NEW N, NEW e \in H
    PROVE  \E f \in Unshare(H, N) : f.name = e.name /\ f.selectors = e.selectors
<1> DEFINE f == [e EXCEPT !.shared = @ /\ e.name \notin N]
<1>1. f \in Unshare(H, N)
  BY DEF Unshare
<1>2. f.name = e.name /\ f.selectors = e.selectors
  BY DEF HeldEntry
<1> QED
  BY <1>1, <1>2

LEMMA OverwriteKeeps ==
    ASSUME NEW H, NEW s, NEW selector, NEW e \in H, e.name # s
    PROVE  e \in Overwrite(H, s, selector)
BY DEF Overwrite

\* What waits for s still waits when the entries of s in the handler's hand keep
\* their selectors.
LEMMA EventKept ==
    ASSUME NEW s \in Service, NEW x, EventWaits(s, x),
           podEvents' = podEvents,
           handler'.pc = handler.pc, handler'.pod = handler.pod,
           \A e \in handler.held : e.name = s =>
              \E f \in handler'.held : f.name = s /\ f.selectors = e.selectors
    PROVE  EventWaits(s, x)'
BY DEF EventWaits

LEMMA ReconcileEventInv ==
    ASSUME Typed, CacheInv, EventInv, NEW s \in Service, ReconcileStep(s)
    PROVE  EventInv'
<1>1. LockInv /\ SpecInv
  BY DEF CacheInv
<1>2. UNCHANGED <<svc, pods, podEvents>>
  BY DEF ReconcileStep, StartReconcile, LockForRefresh, RefreshForMissing,
         UpdateForService, ListPods
<1>3. \A x : Matching(x)' = Matching(x)
  BY <1>2 DEF Matching
<1>4. handler.held \in SUBSET HeldEntry
  BY DEF Typed, HandlerState
<1>5. ASSUME NEW t \in Service, t # s, WillList(t)
      PROVE  WillList(t)'
  <2>1. worker'[t] = worker[t] /\ (t \in queue => t \in queue')
    BY <1>5, StartReconcileEffect, LockForRefreshEffect, RefreshForMissingEffect,
       UpdateForServiceEffect, ListPodsEffect
       DEF ReconcileStep, StartReconcile, LockForRefresh
  <2> QED
    BY <1>5, <2>1 DEF WillList
<1>6. ASSUME NEW t \in Service, t # s
      PROVE  seen'[t] = seen[t]
  BY <1>6, ListPodsEffect DEF ReconcileStep, StartReconcile, LockForRefresh,
     RefreshForMissing, UpdateForService
<1>7. handler'.pc = handler.pc /\ handler'.pod = handler.pod
  BY RefreshForMissingEffect, UpdateForServiceEffect
     DEF ReconcileStep, StartReconcile, LockForRefresh, ListPods
<1>8. ASSUME NEW t \in Service, t # s \/ ~UpdateForService(s), NEW x, EventWaits(t, x)
      PROVE  EventWaits(t, x)'
  <2>1. ASSUME NEW e \in handler.held, e.name = t
        PROVE  \E f \in handler'.held : f.name = t /\ f.selectors = e.selectors
    <3>1. \/ handler'.held = handler.held
          \/ \E N : handler'.held = Unshare(handler.held, N)
          \/ /\ t # s
             /\ \E selector : handler'.held = Overwrite(handler.held, s, selector)
      BY <1>8, RefreshForMissingEffect, UpdateForServiceEffect
         DEF ReconcileStep, StartReconcile, LockForRefresh, ListPods
    <3> QED
      BY <1>4, <2>1, <3>1, UnshareKeeps, OverwriteKeeps
  <2> QED
    BY <1>2, <1>7, <1>8, <2>1, EventKept
<1>9. ASSUME NEW t \in Service, t # s, NEW x \in svc'[t], Served(x)
      PROVE  seen'[t] = Matching(x)' \/ WillList(t)' \/ EventWaits(t, x)'
  BY <1>2, <1>3, <1>5, <1>6, <1>8, <1>9 DEF EventInv
<1>10. ASSUME NEW x \in svc'[s], Served(x)
      PROVE  seen'[s] = Matching(x)' \/ WillList(s)' \/ EventWaits(s, x)'
  <2>1. CASE StartReconcile(s)
    BY <1>2, <1>10, <2>1, StartReconcileEffect DEF WillList
  <2>2. CASE LockForRefresh(s)
    <3>1. WillList(s) => WillList(s)'
      BY <2>2, LockForRefreshEffect DEF WillList, LockForRefresh
    <3>2. seen' = seen /\ ~UpdateForService(s)
      BY <2>2 DEF LockForRefresh, UpdateForService
    <3> QED
      BY <1>2, <1>3, <1>8, <1>10, <3>1, <3>2 DEF EventInv
  <2>3. CASE RefreshForMissing(s)
    <3>1. WillList(s) => WillList(s)'
      BY <2>3, RefreshForMissingEffect DEF WillList
    <3>2. seen' = seen /\ ~UpdateForService(s)
      BY <2>3 DEF RefreshForMissing, UpdateForService
    <3> QED
      BY <1>2, <1>3, <1>8, <1>10, <3>1, <3>2 DEF EventInv
  <2>4. CASE UpdateForService(s)
    <3>1. CASE s \in queue
      BY <2>4, <3>1, UpdateForServiceEffect DEF WillList
    <3>2. CASE worker[s].spec = svc[s]
      <4>1. \A y \in worker[s].spec : y = x
        BY <1>1, <1>2, <1>10, <3>2 DEF SpecInv
      <4>2. worker'[s].pc = "list"
        BY <1>10, <2>4, <4>1, UpdateForServiceEffect
      <4> QED
        BY <4>2 DEF WillList
    <3> QED
      BY <1>1, <2>4, <3>1, <3>2, UpdateForServiceEffect DEF SpecInv
  <2>5. CASE ListPods(s)
    <3>1. CASE s \in queue \/ s \in queue'
      BY <2>5, <3>1, ListPodsEffect DEF WillList
    <3>2. CASE worker[s].spec = svc[s] /\ s \notin queue'
      <4>1. worker[s].spec = {x}
        BY <1>1, <1>2, <1>10, <3>2 DEF SpecInv
      <4>2. seen'[s] = UNION {Matching(y) : y \in worker[s].spec}
        BY <2>5, <3>2, ListPodsEffect
      <4>3. UNION {Matching(y) : y \in {x}} = Matching(x)
        OBVIOUS
      <4> QED
        BY <1>3, <4>1, <4>2, <4>3
    <3> QED
      BY <1>1, <2>5, <3>1, <3>2, ListPodsEffect DEF SpecInv
  <2> QED
    BY <2>1, <2>2, <2>3, <2>4, <2>5 DEF ReconcileStep
<1> QED
  BY <1>7, <1>9, <1>10 DEF EventInv

\* What the handler goes through has the current selector of every Service that
\* the cache has.
LEMMA HeldHasEntry ==
    ASSUME NEW s, NEW x, NEW C, EntryOf(s, x) \in C
    PROVE  \E e \in Hold(C) : e.name = s /\ e.selectors = {x.selector}
<1>1. EntryOf(s, x).name = s /\ EntryOf(s, x).selector = x.selector
  BY DEF EntryOf
<1>2. [name |-> s, selectors |-> {x.selector}, shared |-> TRUE] \in Hold(C)
  BY <1>1 DEF Hold
<1> QED
  BY <1>2

\* The handler has read the entries, and has one of s that matches.
LEMMA HeldMatches ==
    ASSUME NEW s, NEW x, NEW C, EntryOf(s, x) \in C,
           handler'.held = Hold(C), handler'.pod = handler.pod,
           NEW p \in handler.pod, Matches(p, x.selector)
    PROVE  EventWaits(s, x)'
<1>1. PICK e \in handler'.held : e.name = s /\ e.selectors = {x.selector}
  BY HeldHasEntry
<1>2. \A selector \in e.selectors : Matches(p, selector)
  BY <1>1
<1> QED
  BY <1>1, <1>2 DEF EventWaits

LEMMA HandlerEventInv ==
    ASSUME Typed, CacheInv, CurrentInv, Roomy, EventInv, HandlerStep
    PROVE  EventInv'
<1>1. UNCHANGED <<svc, pods, seen, worker>> /\ queue \subseteq queue'
  BY DEF HandlerStep, TakeEvent, Hit, Miss, RefreshForEvent, Match
<1>2. \A x : Matching(x)' = Matching(x)
  BY <1>1 DEF Matching
<1>3. \A s \in Service : WillList(s) => WillList(s)'
  BY <1>1 DEF WillList
<1>4. handler'.pc = "idle" => handler'.pod = {}
  BY TakeEventEffect, HitEffect, MissEffect, RefreshForEventEffect
     DEF HandlerStep, Match, IdleHandler
<1>5. SUFFICES
        ASSUME NEW s \in Service, NEW x \in svc[s], Served(x), EventWaits(s, x)
        PROVE  WillList(s)' \/ EventWaits(s, x)'
  BY <1>1, <1>2, <1>3, <1>4 DEF EventInv
<1>6. CASE \E i \in 1 .. Len(podEvents) : Matches(podEvents[i], x.selector)
  <2>1. PICK i \in 1 .. Len(podEvents) : Matches(podEvents[i], x.selector)
    BY <1>6
  <2>2. podEvents \in Seq(Pod)
    BY DEF Typed
  <2>3. CASE ~TakeEvent
    <3>1. podEvents' = podEvents
      BY <2>3 DEF HandlerStep, Hit, Miss, RefreshForEvent, Match
    <3> QED
      BY <2>1, <3>1 DEF EventWaits
  <2>4. CASE TakeEvent /\ i = 1
    <3>1. podEvents[i] \in handler'.pod
      BY <2>2, <2>4, TakeEventEffect
    <3>2. handler'.pc # "match"
      BY <2>4, TakeEventEffect
    <3> QED
      BY <2>1, <3>1, <3>2 DEF EventWaits
  <2>5. CASE TakeEvent /\ i # 1
    <3>1. podEvents' = Tail(podEvents)
      BY <2>5, TakeEventEffect
    <3>2. i - 1 \in 1 .. Len(podEvents') /\ podEvents'[i - 1] = podEvents[i]
      BY <2>1, <2>2, <2>5, <3>1
    <3> QED
      BY <2>1, <3>2 DEF EventWaits
  <2> QED
    BY <2>3, <2>4, <2>5
<1>7. CASE \E p \in handler.pod :
              /\ Matches(p, x.selector)
              /\ handler.pc = "match" =>
                    \E e \in handler.held :
                        /\ e.name = s
                        /\ \A selector \in e.selectors : Matches(p, selector)
  <2>1. PICK p \in handler.pod :
              /\ Matches(p, x.selector)
              /\ handler.pc = "match" =>
                    \E e \in handler.held :
                        /\ e.name = s
                        /\ \A selector \in e.selectors : Matches(p, selector)
    BY <1>7
  <2>2. EntryOf(s, x) \in cache \/ WillList(s)'
    BY <1>3, <1>5, InCacheOrWillList
  <2>3. CASE TakeEvent
    BY <2>1, <2>3, TakeEventEffect DEF EventInv
  <2>4. CASE Hit
    BY <2>1, <2>2, <2>4, HitEffect, HeldMatches
  <2>5. CASE Miss
    <3>1. CASE handler'.pc = "match" /\ handler'.held = Hold(cache)
      BY <2>1, <2>2, <2>5, <3>1, MissEffect, HeldMatches
    <3>2. CASE handler'.pc = "list"
      BY <2>1, <2>5, <3>2, MissEffect DEF EventWaits
    <3> QED
      BY <2>5, <3>1, <3>2, MissEffect
  <2>6. CASE RefreshForEvent
    <3>1. EntryOf(s, x) \in cache' \/ WillList(s)'
      <4>1. CASE cache' = handler.listed
        <5>1. Current(handler.listed, s) \/ Settling(s)
          BY <2>6, RefreshForEventEffect DEF CurrentInv
        <5>2. Settling(s) => WillList(s)
          BY DEF Settling, WillList
        <5> QED
          BY <1>3, <1>5, <4>1, <5>1, <5>2, CurrentMeans
      <4> QED
        BY <2>2, <2>6, <4>1, RefreshForEventEffect
    <3> QED
      BY <2>1, <2>6, <3>1, RefreshForEventEffect, HeldMatches
  <2>7. CASE Match
    <3>1. PICK e \in handler.held :
              /\ e.name = s
              /\ \A selector \in e.selectors : Matches(p, selector)
      BY <2>1, <2>7 DEF Match
    <3>2. s \in queue'
      BY <2>1, <2>7, <3>1 DEF Match
    <3> QED
      BY <3>2 DEF WillList
  <2> QED
    BY <2>3, <2>4, <2>5, <2>6, <2>7 DEF HandlerStep
<1> QED
  BY <1>5, <1>6, <1>7 DEF EventWaits

\* The change of a Pod that x does not select is nothing to its Service.
LEMMA PodChangedEventInv ==
    ASSUME Typed, EventInv, PodChanged
    PROVE  EventInv'
<1>1. UNCHANGED <<svc, handler, worker, queue, seen>>
  BY DEF PodChanged
<1>2. PICK p \in Pod :
          /\ \/ /\ \A q \in pods : q.name # p
                /\ pods' = pods \cup {[name |-> p, ready |-> FALSE]}
             \/ \E q \in pods :
                   /\ q.name = p
                   /\ \/ pods' = pods \ {q}
                      \/ pods' = (pods \ {q}) \cup {[q EXCEPT !.ready = ~@]}
          /\ podEvents' = Append(podEvents, p)
  BY DEF PodChanged
<1>3. podEvents \in Seq(Pod)
  BY DEF Typed
<1>4. \A i \in 1 .. Len(podEvents) :
         i \in 1 .. Len(podEvents') /\ podEvents'[i] = podEvents[i]
  BY <1>2, <1>3
<1>5. Len(podEvents') \in 1 .. Len(podEvents') /\ podEvents'[Len(podEvents')] = p
  BY <1>2, <1>3
<1>6. ASSUME NEW q, q.name # p
      PROVE  q \in pods' <=> q \in pods
  <2>1. [name |-> p, ready |-> FALSE].name = p
    OBVIOUS
  <2>2. \A r \in pods : r.name = p => [r EXCEPT !.ready = ~@].name = p
    BY DEF Typed, PodState
  <2> QED
    BY <1>2, <1>6, <2>1, <2>2
<1>7. ASSUME NEW s \in Service, NEW x \in svc[s], Served(x)
      PROVE  seen'[s] = Matching(x)' \/ WillList(s)' \/ EventWaits(s, x)'
  <2>1. CASE Matches(p, x.selector)
    BY <1>5, <2>1 DEF EventWaits
  <2>2. CASE ~Matches(p, x.selector)
    <3>1. Matching(x)' = Matching(x)
      BY <1>6, <2>2 DEF Matching
    <3>2. EventWaits(s, x) => EventWaits(s, x)'
      BY <1>1, <1>4 DEF EventWaits
    <3> QED
      BY <1>1, <1>7, <3>1, <3>2 DEF EventInv, WillList
  <2> QED
    BY <2>1, <2>2
<1> QED
  BY <1>1, <1>7 DEF EventInv

LEMMA ServiceChangedEventInv ==
    ASSUME Typed, EventInv, ServiceChanged
    PROVE  EventInv'
<1>1. UNCHANGED <<pods, podEvents, handler, worker, seen>> /\ queue \subseteq queue'
  BY DEF ServiceChanged
<1>2. \A s \in Service : svc'[s] = svc[s] \/ s \in queue'
  BY DEF ServiceChanged, Typed
<1>3. \A x : Matching(x)' = Matching(x)
  BY <1>1 DEF Matching
<1>4. \A s \in Service : /\ WillList(s) => WillList(s)'
                         /\ s \in queue' => WillList(s)'
  BY <1>1 DEF WillList
<1>5. \A s, x : EventWaits(s, x) => EventWaits(s, x)'
  BY <1>1 DEF EventWaits
<1> QED
  BY <1>1, <1>2, <1>3, <1>4, <1>5 DEF EventInv

LEMMA EventStep ==
    ASSUME Typed, CacheInv, Roomy => EventInv, [Next]_vars
    PROVE  (Roomy => EventInv)'
<1> SUFFICES ASSUME Roomy
             PROVE  EventInv'
  BY DEF Roomy
<1>1. EventInv /\ CurrentInv
  BY DEF CacheInv
<1>2. CASE UNCHANGED vars
  <2>1. /\ UNCHANGED <<svc, handler, seen>>
        /\ \A x : Matching(x)' = Matching(x)
        /\ \A s \in Service : WillList(s) => WillList(s)'
        /\ \A s, x : EventWaits(s, x) => EventWaits(s, x)'
    BY <1>2 DEF vars, Matching, WillList, EventWaits
  <2> QED
    BY <1>1, <2>1 DEF EventInv
<1> QED
  BY <1>1, <1>2, ReconcileEventInv, HandlerEventInv, PodChangedEventInv,
     ServiceChangedEventInv DEF Next, Environment

\* No Pod event is lost, for any Services, Pods, workers and faults: an event
\* that meets a missing entry or an old selector meets a Service whose reconcile
\* has not listed the Pods yet (mapPodToService,
\* updateOptedInServicesCacheForService).
THEOREM NoPodEventIsLost == Spec => []NoPodEventLost
<1>1. Init => Typed /\ CacheInv /\ (Roomy => EventInv)
  BY InitType, InitCacheInv, InitEventInv
<1>2. Typed /\ CacheInv /\ (Roomy => EventInv) /\ [Next]_vars
         => Typed' /\ CacheInv' /\ (Roomy => EventInv)'
  BY TypeStep, CacheStep, EventStep
<1>3. (Roomy => EventInv) => NoPodEventLost
  <2> SUFFICES ASSUME EventInv, Quiescent, NEW s \in Service, NEW x \in svc[s],
                      Served(x)
               PROVE  seen[s] = Matching(x)
    BY DEF NoPodEventLost
  <2>1. ~WillList(s)
    BY DEF Quiescent, Active, WillList
  <2>2. ~EventWaits(s, x)
    BY DEF Quiescent, EventInv, EventWaits
  <2> QED
    BY <2>1, <2>2 DEF EventInv
<1> QED
  BY <1>1, <1>2, <1>3, PTL DEF Spec

=============================================================================
