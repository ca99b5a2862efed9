----------------------------- MODULE OptedInCache -----------------------------
(***************************************************************************)
(* The cache of opted-in Services of pkg/director/service_director.go, for *)
(* one namespace with several Services.  It answers the question whether   *)
(* the event of a Pod concerns a Service: a Service that is missing from   *)
(* it, or has an old selector in it, does not hear of its Pods.            *)
(*                                                                         *)
(* Three kinds of code meet here.  Reconciles of different Services run in *)
(* parallel; each updates the entry of its Service, or refreshes the whole *)
(* cache when its Service is gone, before it lists the Pods.  The Pod      *)
(* handler, one goroutine, reads the cache for each event in order,        *)
(* refreshes it when it is empty, and goes through the entries after the   *)
(* lock is released.  `svc' and `pods' are the informer's copies, which    *)
(* all of them read.                                                       *)
(*                                                                         *)
(* ServiceDirector has the rest of a reconcile, for one Service; here a    *)
(* reconcile ends with the Pods it listed.                                 *)
(***************************************************************************)
EXTENDS Naturals, Sequences, FiniteSets

CONSTANTS
    Service,        \* names of the Services of the namespace
    Pod,            \* names of its Pods
    Label,          \* values of the label that Services select by
    PodLabel,       \* the label of each Pod
    InitSvc,        \* Services at the start
    Specs,          \* what users write into a Service
    MaxConcurrentReconciles,
    MaxCacheSize,   \* maxCacheSizePerNamespace, 0 for no limit
    Budget          \* how often the environment acts: fields pod, svc, fault

Nobody == "nobody"
Handler == "handler"

ServiceSpec == [enabled : BOOLEAN, selector : SUBSET Label]

PodState == [name : Pod, ready : BOOLEAN]

ASSUME CacheAssumption ==
    /\ PodLabel \in [Pod -> Label]
    /\ InitSvc \in [Service -> SUBSET ServiceSpec]
    /\ Specs \subseteq ServiceSpec
    /\ \A s \in Service : \A x, y \in InitSvc[s] : x = y
    /\ IsFiniteSet(Service)
    /\ {Nobody, Handler} \cap Service = {}
    /\ MaxConcurrentReconciles \in Nat \ {0}
    /\ MaxCacheSize \in Nat
    /\ Budget \in [{"pod", "svc", "fault"} -> Nat]

VARIABLES
    svc,        \* Services, as the informer has them: none or one per name
    pods,       \* Pods, as the informer has them
    podEvents,  \* Pods of the events that the handler has not taken yet
    cache,      \* optedInServicesCache of the namespace
    cacheMu,    \* holder of the write lock across a List
    handler,    \* the Pod handler: its step and its local variables
    worker,     \* the reconcile of each Service: its step and its locals
    queue,      \* Services in the work queue
    seen,       \* history: the Pods that the last List of a Service found
    left        \* what is left of Budget

vars == <<svc, pods, podEvents, cache, cacheMu, handler, worker, queue, seen,
          left>>

\* cachedService; its access time is always the latest (see Truncations)
Entry == [name : Service, selector : SUBSET Label]

(***************************************************************************)
(* An entry that the handler holds outside the lock.  The selector of an   *)
(* entry that it shares with the cache is replaced under it, so what it    *)
(* reads is one of several selectors.                                      *)
(***************************************************************************)
HeldEntry == [name : Service, selectors : SUBSET SUBSET Label,
              shared : BOOLEAN]

HandlerState == [pc : {"idle", "hit", "miss", "list", "match"},
                 pod : SUBSET Pod, held : SUBSET HeldEntry,
                 listed : SUBSET Entry]

WorkerState == [pc : {"idle", "refresh", "list services", "update", "list"},
                spec : SUBSET ServiceSpec, failed : BOOLEAN,
                listed : SUBSET Entry]

IdleHandler == [pc |-> "idle", pod |-> {}, held |-> {}, listed |-> {}]

IdleWorker == [pc |-> "idle", spec |-> {}, failed |-> FALSE, listed |-> {}]

-----------------------------------------------------------------------------
(***************************************************************************)
(* What the code computes.                                                 *)
(***************************************************************************)

\* The Service is opted in and has a selector.
Served(x) == x.enabled /\ x.selector # {}

Matches(p, selector) == PodLabel[p] \in selector

EntryOf(s, x) == [name |-> s, selector |-> x.selector]

\* The List of updateOptedInServicesCacheLocked, and its filter.
ListServices ==
    {EntryOf(t[1], t[2]) :
        t \in {u \in Service \X ServiceSpec : u[2] \in svc[u[1]] /\ Served(u[2])}}

(***************************************************************************)
(* The size limit.  The entries were all made just now, so the order of    *)
(* their access times is the order of the List, which is arbitrary.        *)
(***************************************************************************)
Truncations(C) ==
    IF MaxCacheSize = 0 \/ Cardinality(C) <= MaxCacheSize
    THEN {C}
    ELSE {D \in SUBSET C : Cardinality(D) = MaxCacheSize}

Hold(C) == {[name |-> e.name, selectors |-> {e.selector}, shared |-> TRUE] :
               e \in C}

\* The entries of names N leave the cache: the handler keeps what it holds.
Unshare(H, N) == {[e EXCEPT !.shared = @ /\ e.name \notin N] : e \in H}

\* The selector of the entry of s is replaced in place.
Overwrite(H, s, selector) ==
    {IF e.name = s /\ e.shared
     THEN [e EXCEPT !.selectors = @ \cup {selector}]
     ELSE e : e \in H}

\* Mutant of Unlocked: the lock is not waited for.
NeverWaits == TRUE

Unlocked == cacheMu = Nobody

Faulty ==
    /\ left.fault > 0
    /\ left' = [left EXCEPT !.fault = @ - 1]

-----------------------------------------------------------------------------
(***************************************************************************)
(* Reconcile, as far as it concerns the cache.                             *)
(***************************************************************************)

Active == {s \in Service : worker[s].pc # "idle"}

\* A worker takes s from the queue, which hands out a key to one worker at a
\* time, and gets the Service; the Get may fail although the Service is there.
StartReconcile(s) ==
    /\ s \in queue \ Active
    /\ Cardinality(Active) < MaxConcurrentReconciles
    /\ queue' = queue \ {s}
    /\ \/ /\ svc[s] # {}
          /\ worker' = [worker EXCEPT ![s] =
                           [@ EXCEPT !.pc = "update", !.spec = svc[s]]]
          /\ UNCHANGED left
       \/ /\ svc[s] = {}
          /\ worker' = [worker EXCEPT ![s] = [@ EXCEPT !.pc = "refresh"]]
          /\ UNCHANGED left
       \/ /\ Faulty
          /\ worker' = [worker EXCEPT ![s] =
                           [@ EXCEPT !.pc = "refresh", !.failed = TRUE]]
    /\ UNCHANGED <<svc, pods, podEvents, cache, cacheMu, handler, seen>>

\* A reconcile ends: a key whose reconcile failed comes back.
End(s, failed) ==
    /\ worker' = [worker EXCEPT ![s] = IdleWorker]
    /\ queue' = IF failed THEN queue \cup {s} ELSE queue

\* updateOptedInServicesCache: the lock is taken, and kept during the List.
LockForRefresh(s) ==
    /\ worker[s].pc = "refresh"
    /\ Unlocked
    /\ cacheMu' = s
    /\ \E C \in Truncations(ListServices) :
          worker' = [worker EXCEPT ![s] =
                        [@ EXCEPT !.pc = "list services", !.listed = C]]
    /\ UNCHANGED <<svc, pods, podEvents, cache, handler, queue, seen, left>>

\* Mutant of Refresh: the lock is kept when the List fails.
LockLeaks(C) ==
    \/ /\ cache' = C
       /\ cacheMu' = Nobody
       /\ UNCHANGED left
    \/ /\ Faulty
       /\ UNCHANGED <<cache, cacheMu>>

\* The List answers, or fails or times out and leaves the cache as it is.
Refresh(C) ==
    /\ cacheMu' = Nobody
    /\ \/ cache' = C /\ UNCHANGED left
       \/ Faulty /\ UNCHANGED cache

RefreshForMissing(s) ==
    /\ worker[s].pc = "list services"
    /\ Refresh(worker[s].listed)
    /\ handler' = [handler EXCEPT !.held =
                      IF left' = left THEN Unshare(@, Service) ELSE @]
    /\ End(s, worker[s].failed)
    /\ UNCHANGED <<svc, pods, podEvents, seen>>

\* Mutant of Remove: the entry of a Service that opted out stays.
KeepEntry(s) == UNCHANGED <<cache, handler>>

Remove(s) ==
    /\ cache' = {e \in cache : e.name # s}
    /\ handler' = [handler EXCEPT !.held = Unshare(@, {s})]

\* Mutant of AddOrUpdate: the entry that is there is not looked for.
AlwaysAdds(s, x) ==
    /\ cache' = cache \cup {EntryOf(s, x)}
    /\ UNCHANGED handler

AddOrUpdate(s, x) ==
    /\ cache' = {e \in cache : e.name # s} \cup {EntryOf(s, x)}
    /\ handler' = [handler EXCEPT !.held = Overwrite(@, s, x.selector)]

(***************************************************************************)
(* updateOptedInServicesCacheForService, and the branches that follow it:  *)
(* a Service that is not opted in is cleaned up, which may fail.           *)
(***************************************************************************)
UpdateForService(s) ==
    /\ worker[s].pc = "update"
    /\ Unlocked
    /\ \E x \in worker[s].spec :
          \/ /\ Served(x)
             /\ AddOrUpdate(s, x)
             /\ worker' = [worker EXCEPT ![s].pc = "list"]
             /\ UNCHANGED <<queue, left>>
          \/ /\ ~Served(x)
             /\ Remove(s)
             /\ \/ End(s, FALSE) /\ UNCHANGED left
                \/ ~x.enabled /\ Faulty /\ End(s, TRUE)
    /\ UNCHANGED <<svc, pods, podEvents, cacheMu, seen>>

\* The Pods that the selector of x finds.
Matching(x) == {p \in pods : Matches(p.name, x.selector)}

\* The List of the Pods.  It may fail, and so may what follows it.
ListPods(s) ==
    /\ worker[s].pc = "list"
    /\ \/ /\ seen' = [seen EXCEPT ![s] = UNION {Matching(x) : x \in worker[s].spec}]
          /\ \/ End(s, FALSE) /\ UNCHANGED left
             \/ Faulty /\ End(s, TRUE)
       \/ /\ Faulty
          /\ End(s, TRUE)
          /\ UNCHANGED seen
    /\ UNCHANGED <<svc, pods, podEvents, cache, cacheMu, handler>>

-----------------------------------------------------------------------------
(***************************************************************************)
(* mapPodToService.                                                        *)
(***************************************************************************)

\* The next event; the fast path reads under the read lock.
TakeEvent ==
    /\ handler.pc = "idle"
    /\ podEvents # <<>>
    /\ Unlocked
    /\ handler' = [handler EXCEPT !.pc = IF cache = {} THEN "miss" ELSE "hit",
                                  !.pod = {Head(podEvents)}]
    /\ podEvents' = Tail(podEvents)
    /\ UNCHANGED <<svc, pods, cache, cacheMu, worker, queue, seen, left>>

\* A hit takes the write lock and reads again.
Hit ==
    /\ handler.pc = "hit"
    /\ Unlocked
    /\ handler' = [handler EXCEPT !.pc = "match", !.held = Hold(cache)]
    /\ UNCHANGED <<svc, pods, podEvents, cache, cacheMu, worker, queue, seen,
                   left>>

\* A miss takes the write lock, looks again, and keeps it to list the Services.
Miss ==
    /\ handler.pc = "miss"
    /\ Unlocked
    /\ \/ /\ cache # {}
          /\ handler' = [handler EXCEPT !.pc = "match", !.held = Hold(cache)]
          /\ UNCHANGED cacheMu
       \/ /\ cache = {}
          /\ cacheMu' = Handler
          /\ \E C \in Truncations(ListServices) :
                handler' = [handler EXCEPT !.pc = "list", !.listed = C]
    /\ UNCHANGED <<svc, pods, podEvents, cache, worker, queue, seen, left>>

RefreshForEvent ==
    /\ handler.pc = "list"
    /\ Refresh(handler.listed)
    /\ handler' = [handler EXCEPT !.pc = "match", !.held = Hold(cache'),
                                  !.listed = {}]
    /\ UNCHANGED <<svc, pods, podEvents, worker, queue, seen>>

\* The entries are matched without the lock: the selector of a shared entry may
\* be read before or after a reconcile replaces it.
Match ==
    /\ handler.pc = "match"
    /\ \E choice \in [handler.held -> UNION {e.selectors : e \in handler.held}] :
          /\ \A e \in handler.held : choice[e] \in e.selectors
          /\ queue' = queue \cup
                {e.name : e \in {f \in handler.held :
                                    \E p \in handler.pod : Matches(p, choice[f])}}
    /\ handler' = IdleHandler
    /\ UNCHANGED <<svc, pods, podEvents, cache, cacheMu, worker, seen, left>>

-----------------------------------------------------------------------------
(***************************************************************************)
(* The informers.  Only changes that the predicates let through are here:  *)
(* Pods come, go and change readiness; a change of a Service enqueues it.  *)
(***************************************************************************)
Spend(kind) ==
    /\ left[kind] > 0
    /\ left' = [left EXCEPT ![kind] = @ - 1]

PodChanged ==
    /\ Spend("pod")
    /\ \E p \in Pod :
          /\ \/ /\ \A q \in pods : q.name # p
                /\ pods' = pods \cup {[name |-> p, ready |-> FALSE]}
             \/ \E q \in pods :
                   /\ q.name = p
                   /\ \/ pods' = pods \ {q}
                      \/ pods' = (pods \ {q}) \cup {[q EXCEPT !.ready = ~@]}
          /\ podEvents' = Append(podEvents, p)
    /\ UNCHANGED <<svc, cache, cacheMu, handler, worker, queue, seen>>

ServiceChanged ==
    /\ Spend("svc")
    /\ \E s \in Service, new \in {{}} \cup {{x} : x \in Specs} :
          /\ new # svc[s]
          /\ svc' = [svc EXCEPT ![s] = new]
          /\ queue' = queue \cup {s}
    /\ UNCHANGED <<pods, podEvents, cache, cacheMu, handler, worker, seen>>

-----------------------------------------------------------------------------

\* The manager has just started: every Service is queued, no Pod is there yet.
Init ==
    /\ svc = InitSvc
    /\ pods = {}
    /\ podEvents = <<>>
    /\ cache = {}
    /\ cacheMu = Nobody
    /\ handler = IdleHandler
    /\ worker = [s \in Service |-> IdleWorker]
    /\ queue = {s \in Service : InitSvc[s] # {}}
    /\ seen = [s \in Service |-> {}]
    /\ left = Budget

ReconcileStep(s) ==
    \/ StartReconcile(s)
    \/ LockForRefresh(s)
    \/ RefreshForMissing(s)
    \/ UpdateForService(s)
    \/ ListPods(s)

HandlerStep ==
    \/ TakeEvent
    \/ Hit
    \/ Miss
    \/ RefreshForEvent
    \/ Match

Environment == PodChanged \/ ServiceChanged

Next ==
    \/ \E s \in Service : ReconcileStep(s)
    \/ HandlerStep
    \/ Environment

(***************************************************************************)
(* Every goroutine that can run does: the handler, the reconcile of each   *)
(* Service once a worker has it, and the workers, which take the keys off  *)
(* the queue.                                                              *)
(***************************************************************************)
Fairness ==
    /\ WF_vars(HandlerStep)
    /\ \A s \in Service : WF_vars(ReconcileStep(s))

Spec == Init /\ [][Next]_vars

FairSpec == Spec /\ Fairness

-----------------------------------------------------------------------------
(***************************************************************************)
(* Properties.                                                             *)
(***************************************************************************)

Typed ==
    /\ svc \in [Service -> SUBSET ServiceSpec]
    /\ pods \subseteq PodState
    /\ podEvents \in Seq(Pod)
    /\ cache \subseteq Entry
    /\ cacheMu \in {Nobody, Handler} \cup Service
    /\ handler \in HandlerState
    /\ worker \in [Service -> WorkerState]
    /\ queue \subseteq Service
    /\ seen \in [Service -> SUBSET PodState]
    /\ left \in [{"pod", "svc", "fault"} -> Nat]

\* A Service has at most one entry in C, and the entry has a selector: an empty
\* one would match every Pod, and of two entries only the first is ever updated.
WellFormed(C) ==
    /\ \A e, f \in C : e.name = f.name => e = f
    /\ \A e \in C : e.selector # {}

\* Every variable holds a value of its type, and the cache and every List on its
\* way into it are well formed, although refreshes replace the whole cache while
\* reconciles add, replace and remove single entries
\* (updateOptedInServicesCacheForService and its search for the entry).
TypeOK ==
    /\ Typed
    /\ \A s \in Service : \A x, y \in svc[s] : x = y
    /\ WellFormed(cache)
    /\ WellFormed(handler.listed)
    /\ \A s \in Service : WellFormed(worker[s].listed)

\* No reconcile runs or waits, and every Pod event was handled.
Quiescent ==
    /\ Active = {}
    /\ queue = {}
    /\ handler.pc = "idle"
    /\ podEvents = <<>>

\* The cache has room for every Service.
Roomy == MaxCacheSize = 0 \/ Cardinality(Service) <= MaxCacheSize

\* No Pod event is lost on the way through the cache: once nothing is left to
\* do, the last List of every opted-in Service found the Pods that are there
\* now, whatever stale selector or missing entry an event met
\* (updateOptedInServicesCacheForService comes before the List of the Pods;
\* mapPodToService reads the cache after the informer has the Pod).
NoPodEventLost ==
    (Roomy /\ Quiescent) =>
        \A s \in Service : \A x \in svc[s] :
            Served(x) => seen[s] = Matching(x)

\* Once nothing is left to do, the cache has exactly the current selector of
\* every opted-in Service and nothing of the ones that opted out: refreshes by
\* List and updates of single entries do not undo each other (cacheMu).  The
\* entry of a deleted Service stays only if a List failed.
CacheIsCurrent ==
    (Roomy /\ Quiescent) =>
        /\ \A e \in cache : svc[e.name] = {} => left.fault < Budget.fault
        /\ {e \in cache : svc[e.name] # {}} = ListServices

\* The controller comes to rest: the lock is released on every path, and every
\* event and every key is processed in the end, whatever fails on the way.
ComesToRest == []<>Quiescent

=============================================================================
