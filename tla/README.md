# A TLA+ model of zen-lead

zen-lead gives a Kubernetes Service a *leader*: for a Service annotated with
`zen-lead.io/enabled: "true"` it creates a second, selector-less Service
`<name>-leader` and one EndpointSlice, which routes to exactly one Ready Pod of
the source Service. A second, optional controller publishes the state of a Lease
in the status of a LeaderGroup, and a small client library tells a process
whether its Pod holds a Lease. This directory holds TLA+ modules of these, the
TLC configurations that check them on small instances, and TLAPS proofs of what
holds for every instance. Paths and line numbers are those of the repository;
`service_director.go` is `pkg/director/service_director.go`.

    tlc -workers 2 -config failover.cfg MCServiceDirector
    tlc -workers 2 -config opted_in_cache.cfg MCOptedInCache
    tlc -workers 2 -config leader_client.cfg MCLeaderClient
    tlc -workers 2 -config leader_group.cfg LeaderGroup
    tlapm ServiceDirectorProofs.tla

and the same `tlapm` command for `LeaderRoutingProofs`, `StickyLeaderProofs`,
`FailClosedProofs`, `QuiescentProofs`, `OptedInCacheProofs`,
`LeaderClientProofs` and `LeaderGroupProofs`.

## Inventory

| Part | State | Operations | In the model |
|---|---|---|---|
| Service director reconciler (`service_director.go`) | none between reconciles but its caches | `Reconcile`, `getCurrentLeaderPod`, `selectLeaderPod`, `reconcileLeaderService`, `resolveServicePorts`, `reconcileEndpointSlice`, `cleanupLeaderResources` | `ServiceDirector`, one source Service; its promise in `LeaderRouting` |
| Event handlers (`SetupWithManager`, `podPredicate`, `mapPodToService`, `mapEndpointSliceToService`) | the work queue of controller-runtime | map an event to a key | `ServiceDirector` |
| Opted-in Services cache | per namespace: name, selector, last access; `cacheMu` | refresh by List, update of one entry, size limit, unlocked reads | `OptedInCache`; one entry of it in `ServiceDirector` |
| Leader Pod cache | per Service: Pod, expiry; `leaderPodCacheMu` | update, clear, expiry goroutine | `ServiceDirector` |
| Retries (`retry_metrics.go`) | none | up to n attempts of a call | its outcomes, in `ServiceDirector` |
| LeaderGroup controller (`leadergroup_controller.go`, off by default) | Lease, status | `Reconcile`, `buildLease`, `updateLeaseMetadata`, `updateStatusFromLease`, `cleanupLease` | `LeaderGroup`; what replicas rely on in `FencedLease` |
| Leader query client (`pkg/client`) | answers, each for 2 s | `IsLeader`, `IsLeaderWithNamespace`, `ClearCache` | `LeaderClient` |
| GitOps filter, strategy table, health checks, metrics, API types, `main` | none, or counters nothing reads | | not modelled: see `PROJECT.json` |

How they interact. A watch of Services, Pods and EndpointSlices feeds an
informer. Its events pass the handlers, which put the key of a source Service on
the work queue; a key is in the queue at most once and is never processed by two
workers at a time. A reconcile reads Services, Pods and slices *from the
informer* and writes leader Services and slices *to the API server*, whose watch
events come back later. Kubernetes' garbage collector deletes a leader Service
whose source is gone, and a slice whose leader Service is gone.

The LeaderGroup controller works the same way on LeaderGroups and Leases, but
shares its Lease with others: LeaderGroups with one component name have one
Lease, and the component's replicas elect their leader with it without asking
anyone. The client reads that Lease from the informer of its manager, and keeps
the answers in a cache that the goroutines of a process share.

What is hard. The reconciler acts on copies: what it wrote itself may not be in
the informer when the next reconcile starts, so a Create meets `AlreadyExists`
and a merge patch is computed from an old base. Pods change between the List and
the write. A read may fail, and several failed reads are taken for "not there".
A write may fail, or succeed and lose its answer. The controller may crash
between its two writes, or lose its own leadership to a standby with informers
that lag. Two caches answer instead of the API. Events are
filtered, so what is filtered must not matter. Reconciles of different Services
run in parallel and share the opted-in cache with the Pod handler, which reads
entries after it released the lock. The LeaderGroup controller writes a whole
Lease back from a copy while replicas renew it. `PROJECT.json` lists each hazard
at its line, with the properties that cover it or why none does yet.

What makes each part correct. For the reconciler: a routed Pod was Ready; a
named port is never routed to a Pod without it; once everything has settled the
slice routes to a Ready Pod of the Service; while Pods are available traffic
comes back; a sticky leader is not replaced without cause, and a non-sticky one
is determined by the Pods; a deleted Service leaves nothing behind, and a
cleanup that a new opt-in overtakes is repaired. For the
handlers: no event that matters is dropped. For the opted-in cache: every
enabled Service gets the events of its Pods. For LeaderGroup: the controller
never undoes an election, and the token and the status follow the Lease. For the
client: how old an answer may be, given how far the informer lags, and so how
long two Pods may both be told that they lead.

## Modules

**ServiceDirector** is the system: one source Service, its Pods, its leader
Services and slices, the reconciler, the informer, the API server, the garbage
collector and the environment.

| Variables | Code |
|---|---|
| `pods`, `svc` | the informer's Pods and source Service. The reconciler only reads them, so their lag is the same as the change happening later |
| `leaderSvc`, `slice` | the leader Services and EndpointSlices at the API server, by name |
| `leaderSvcView`, `sliceView` | the same in the informer |
| `leaderSvcWatch`, `sliceWatch` | the versions of each object on their way to the informer, in order |
| `leaderPodCache`, `optedIn` | the two caches, as entries of this Service |
| `queued`, `pc`, `loc` | the key is on the queue; which step a reconcile is at; its locals |
| `everReady`, `loc.seen` | history: which Pods were ever Ready; the endpoints that the selection saw in the slice |
| `nextPodUid`, `nextUid`, `left` | fresh UIDs; how often the environment may still act |

A set with at most one element stands for a nil pointer or a missing object. A
Pod is its name, UID, one label, whether it is `Ready`, `NotReady` or `Failed`,
whether it has been Ready for `min-ready-duration` (`mature`), whether it has a
deletion timestamp and whether it has an address. Times are left out except for
the order of creation timestamps (`CreatedAt`, with ties). The source Service
has one port or none; its `targetPort` is a number or a name (`port`), and its
user may edit it from one to the other.

One reconcile is a sequence of actions, one per read or write that others can
get in between:

| Action | Code (`service_director.go`) |
|---|---|
| `Reconcile` | Get of the source Service, update of the opted-in cache, branch on the annotation and the selector (228-322) |
| `ListPods` | List of the Pods, and the branch without Pods (326-373) |
| `GetCurrentLeaderPod` | the leader from the cache or the slice, and the fast path that bypasses stickiness (375-409, 519-588) |
| `SelectLeader` | `selectLeaderPod`, the cache update, and the port resolution (411-478, 645-750, 772-816) |
| `DeleteUnresolvedSlice` | the deletion when a port does not resolve (788-810) |
| `ReconcileLeaderService` | Get and create-or-patch of the leader Service (818-945) |
| `ReconcileEndpointSlice` | Get and create-or-patch of the slice (1025-1233) |
| `CleanupLeaderResources` | by name if the source exists, by label if not (1280-1334) |

A Get and the write that follows it are one action: a lagging informer gives
what an earlier Get would have given, and another writer of these objects, the
garbage collector, can act between any two of the actions. Every write can
succeed, be rejected (exists already, does not exist, invalid), or be a fault:
an error with or without the write done, which is what a retried call ends in
after its attempts (`retry_metrics.go:30-96`). `Done` and `Fail` are the ends of
a reconcile: the key is forgotten, or comes back after a backoff.

Every read may be a fault too, and what it does differs from place to place:

| Read that fails | Effect |
|---|---|
| the source Service (251-268), the Pods (330-342) | the reconcile fails and is repeated |
| the cached Pod, the slice or its Pod (536, 557, 572) | counts as a miss: no current leader |
| the slice, in the selection (664-691) | nobody to keep: stickiness is dropped |
| the leader Service, for the owner of a new slice (1156-1164) | owner UID "", which a validating API server rejects |
| the leader Service or the slice, before a write | the reconcile fails and is repeated |
| the slice, or its deletion, when a port does not resolve (796-809) | ignored |
| the source Service, in the cleanup (1283-1305) | the deletion is by label instead of by name |
| the leader Service, in the cleanup (1294-1296) | the cleanup ends, and the leader Service stays |

A merge patch sends the fields in which the wanted object differs from the
informer's copy and leaves the others as they are at the API server (`Merge`).
Validation by the API server (a Service needs a port, an endpoint an address, an
ownerReference a UID) is external code; with `StrictAPI = FALSE` it is off, as
in the fake client of the tests. Environment actions are the Pods' life, edits
of the Service by its user (the opt-in, the selector, the leader's name, the
target port), the expiry of the cache, the resync and `Restart`. A restart is a
crash, after which the new process lists everything, or another replica taking
over, whose informers have been running and lag: they go on from an old copy.

**MCServiceDirector** gives the constants values. **DocumentedBehaviour** states
what the documentation and comments promise and the code does not do.
**ServiceDirectorProofs** holds the theorems.

**LeaderRouting** is what a leader Service promises, without Pods' lives,
informers, reconciles or faults: `ready`, the Pods that were ever Ready, and
`route`, the Pods that each name leads to. A step makes Pods ready, or sets one
route to a single ready Pod, or to none. `ServiceDirector` implements it under

    ready <- everReady      route <- [l \in LeaderName |-> Uids(Targets(slice[l]))]

that is, the route is the `targetRef` of the endpoints at the API server. Every
write of a slice, by a Create or a merge patch with a stale base, and every
deletion, by the fail-closed branch, the cleanup or the garbage collector, must
be one abstract step; every other action a stutter or `BecomeReady`.
`LeaderRoutingImplemented` is checked by `failover` and proved in
**LeaderRoutingProofs**. **StickyLeaderProofs**, **FailClosedProofs** and
**QuiescentProofs** build on it, each on the one before: they prove
`StickyLeaderStays`, `FailClosed`, and what holds at rest.

**OptedInCache** has the cache of one namespace with several Services, which
`ServiceDirector` reduces to one entry. It shows that one entry was enough.

| Variables | Code |
|---|---|
| `svc`, `pods`, `podEvents` | the informer's Services and Pods, and the Pod events the handler has not taken |
| `cache` | `optedInServicesCache` of the namespace: the set of its entries |
| `cacheMu` | who holds the write lock *across a List*; the short critical sections are single actions |
| `worker`, `queue` | the reconcile of each Service, and the work queue (a key is with one worker at a time, up to `MaxConcurrentReconciles`) |
| `handler` | the goroutine of `mapPodToService` with its local `cachedServices` |
| `seen` | history: what the last List of the Pods of each Service found |

| Action | Code (`service_director.go`) |
|---|---|
| `StartReconcile` | Get of the Service, which may fail although it exists (248-272) |
| `LockForRefresh`, `RefreshForMissing` | `updateOptedInServicesCache` after a failed Get: lock, List, assignment or timeout (253, 1611-1695) |
| `UpdateForService` | `updateOptedInServicesCacheForService`, and the end of a reconcile that goes no further (271-322, 1697-1759) |
| `ListPods` | List of the Pods; the rest of the reconcile, which may fail (326-516) |
| `TakeEvent`, `Hit`, `Miss`, `RefreshForEvent` | the read lock, then the write lock for the access times or for the refresh (1513-1547) |
| `Match` | the loop over the entries, without the lock (1559-1578) |

A reconcile replaces the selector of an entry *in place* (1748), and the handler
may hold that entry, so an entry held by the handler carries every selector that
it may read (`HeldEntry`): the value before the write or after it. Both values
are label selectors of the same Go type, so no third value can be read. An entry
that leaves the cache is no longer shared (`Unshare`). Access times only decide
what the size limit drops; at that point all of them are the time of the
refresh, so the choice is arbitrary (`Truncations`).

**LeaderClient** is `pkg/client/client.go`: goroutines of one process call
`IsLeader` and `IsLeaderWithNamespace`, which differ in the cache key alone, and
`ClearCache`. `AskCache` is the look under the read lock, `GetLease` the Get and
the comparison of the identity, `StoreAnswer` the write under the lock. The
client is made with `mgr.GetClient()` (`pkg/client/doc.go:27`), so the Get is
answered by the manager's informer: `lease` is the sequence of the versions of
the Lease, `seen` the one that the informer has, and `DeliverLease` brings the
next one, at any time or never. Each version is reduced to what an answer
depends on (`"self"`, `"other"`, `"absent"`). Time is discrete: `TTL` is
`DefaultCacheTTL`, and `MaxCall` says how long a call may take from the answer
of the Get to the store, which the code does not bound itself; the guard of
`Tick` makes it an assumption. `answer`, `lag`, `cleared` and `racing` are
histories that the properties compare with.

**LeaderGroup** is `pkg/controller/leadergroup_controller.go` with what its
Lease meets.

| Variables | Code |
|---|---|
| `lease`, `groups`, `revision`, `nextUid` | the Lease and the LeaderGroups at the API server, the resource version, the next UID |
| `leaseView`, `leaseWatch`, `groupView`, `groupWatch` | the informers, and the versions on their way |
| `queue`, `timers` | the work queue, and the keys that `RequeueAfter` will bring back |
| `pc`, `loc` | the reconcile in progress and its copies (one worker: the default of the controller) |

| Action | Code (`leadergroup_controller.go`) |
|---|---|
| `Reconcile` | the Gets of the LeaderGroup and of the Lease, and the branch on deletion and `needsUpdate` (51-127) |
| `CreateLease` | `buildLease`, `Create` (107-117, 130-168) |
| `UpdateLeaseMetadata` | `updateLeaseMetadata`: owner and labels into the copy that was read, `Update` (171-205) |
| `UpdateStatusFromLease` | the status, `statusEqual`, `Status().Update`, `RequeueAfter` (208-267) |
| `CleanupLease` | `cleanupLease` (270-290) |
| `DeliverLease`, `DeliverGroup`, `TimerFires` | `For`, `Owns`, the requeue (293-298, 266) |
| `Acquire`, `RenewOrRelease` | the replicas' election (client-go, external) |
| `CollectLease`, `CreateGroup`, `DeleteGroup`, `FinalizeGroup`, `Restart` | garbage collector, users, finalizers, restarts |

An `Update` carries the resource version of the copy and is refused if the
object has another one (`SameVersion`, `GroupUnchanged`). A create, update,
status update or delete may also fail, with or without having been done. `of` in
`Status` is a history: the UID of the Lease a token came from.

**FencedLease** is what the replicas rely on when they elect their leader with
that Lease, without LeaderGroups, informers or copies: there is a Lease or none,
a step makes one (`Found`), hands it to another replica and counts that
(`TakeOver`), lets it go (`Release`) or removes it; a new one has an identity
that none had before, so a late answer about an old Lease is never taken for the
new one. `LeaderGroup` implements it under

    lock <- the Lease's UID, holder and transitions      now <- revision

`BuildLease` maps to `Found`, `Acquire` and `RenewOrRelease` to the replicas'
steps, and everything else the controller writes must be a stutter or `Remove`.
`LeaseIsFenced` says so: it is checked by `leader_group` and proved in
**LeaderGroupProofs**.

## Runs

| Run | Instance | Checks |
|---|---|---|
| `failover` | a pending and a Ready Pod, a third that can be created; 3 Pod changes, 1 failed read or write, 1 crash or take-over; sticky, flap damping, cache; strict API; 862,342 states | `LeaderWasReady`, `QuiescentRouted`, `StickyLeaderStays`, `LeaderRoutingImplemented`, `EventuallyRouted` |
| `named_ports` | three Ready Pods, one without the named port, two created in one second; 3 Pod changes, 1 edit of the target port, 1 failed read or write; not sticky, no cache; no validation; 4,255,705 states | `TypeOK`, `FailClosed`, `QuiescentRouted`, `EarliestLeads` |
| `lifecycle` | two Ready Pods; 3 edits of the Service out of opt-in, opt-out, selector, rename, delete, create; 1 failed read or write; strict API; 740,304 states | `QuiescentRouted`, `CleanupKeepsServed`, `DeletedSourceLeavesNothing` |
| `opted_in_cache` | two Services, one opted in and one not there yet, two Pods with different labels; 2 Pod changes, 2 changes of Services (opt in with either selector, opt out, lose the selector, delete, create), 1 fault; two workers, room for two entries; 801,593 states | `TypeOK`, `NoPodEventLost`, `CacheIsCurrent`, `ComesToRest` |
| `leader_client` | two goroutines (symmetric), two keys, `TTL` 2, `MaxCall` 1, 2 changes of the Lease, an informer anywhere behind them, times 0 to 3; 5,467,666 states | `TypeOK`, `AnswerIsRecent`, `ClearForgets` |
| `leader_group` | two LeaderGroups of one component, one of them there at the start, one replica; 2 changes of LeaderGroups, faults or restarts together; 4 versions of the Lease; 464,706 states | `TypeOK`, `ElectionsStand`, `LeaseIsFenced`, `TokenGrowsWithinLease`, `StatusFollowsLease` |

What they show.

* `QuiescentRouted` is the main one: in *every* state where no reconcile runs or
  waits, every event is delivered and the collector has nothing to do, an
  enabled Service has a leader Service and a slice that routes to a Ready,
  selected Pod on the right port (or to none, when no Pod is a candidate or the
  earliest cannot be routed to). A dropped event, a lost queue entry, a stale
  write that stays, or a swallowed error violates it. Relabelled Pods are
  excluded from these runs because they do violate it (run `relabelled`). With a
  validating API server a Service without a candidate never settles, because its
  slice is rejected and retried (run `no_ready_pods`); `named_ports`, where
  nothing is rejected, settles without one too, with an empty target.
* `StickyLeaderStays` says when a leader that the reconcile saw Ready may be
  replaced: when stickiness was bypassed, because the current leader was
  terminating, not Ready or without address, or when the selection did not see
  this leader in the slice, because its Get failed or the informer had another
  version. An event that waits in the queue, a lost answer or a take-over is no
  excuse. `docs/ARCHITECTURE.md` promises more (see below).
* `EventuallyRouted` and `DeletedSourceLeavesNothing` are liveness: if Pods can
  lead from some time on, traffic flows from some time on; if the source is gone
  for good, so are its leader Service and slice.
* `CleanupKeepsServed`: the reconcile that decided to clean up reads the Service
  again, and the user may have opted in meanwhile; or a failed read made it
  delete by label although the Service is there. Whenever the cleanup deletes
  the leader Service of a Service that is served, the key is in the queue, so
  the traffic that was cut comes back. A queue that forgets a key added during
  the reconcile violates it.
* `EarliestLeads` says that without stickiness the settled leader depends on the
  Pods alone, and not on the history.
* `FailClosed` has two halves. A slice is never given an endpoint that does not
  declare the port which its Service names, even for a moment. And the route
  that was there does not survive: when the user edits the port to a name that
  the leader lacks, the code deletes the slice, but only if the informer has it,
  and it ignores a failed deletion (796-809); a reconcile that ends without
  being repeated has nevertheless emptied the slice, or an event of the slice is
  on its way and brings the key back. If nothing were written when there is no
  leader, the old route would stay. The documentation promises a fallback port
  instead (see below); the same holds of the clause of `QuiescentRouted` for an
  earliest Pod that cannot be routed to.
* `LeaderRoutingImplemented` says that no step ever leaves two Pods behind a
  leader Service, and none routes to a Pod that was not Ready before. A patch
  that adds to the endpoints, or sends fields of two different leaders, violates
  it.
* `NoPodEventLost`: when nothing is left to do, the last List of every opted-in
  Service found the Pods that are there *now*. It holds although the handler may
  match against an old selector, or against a cache that does not have the
  Service yet, because the reconcile that changes the entry lists the Pods after
  it (284 before 329), and the informer has a Pod before its event. If the
  handler did not wait for the lock, an event in the middle of a refresh would
  be lost.
* `CacheIsCurrent`: then, too, the cache has exactly the opted-in Services with
  their current selectors; no refresh by List undoes the update of an entry,
  because the lock is held from the List to the assignment. Only the entry of a
  deleted Service may stay, after a List that failed: such an entry enqueues a
  key that is not found, and is gone with the next refresh.
* `ComesToRest`: from every state the controller finishes what it has; a lock
  kept on an error path, or a lost key, violates it.
* `AnswerIsRecent`: an answer was true of the Lease less than `TTL + MaxCall`
  before it was given, *plus the most that the informer was ever behind at a
  Get* (`lag`), "leader" and "not leader" alike. So two Pods may be told that
  they lead at the same time, but not for longer than that after a hand-over.
  The 2 seconds of the code are `TTL`; the time a call takes between Get and
  store comes on top, because the time to live starts at the store (161), and so
  does the informer's lag, which nothing bounds. A client made with a reader
  that asks the API server has lag 0.
* `ClearForgets`: after `ClearCache` the cache holds only what the version that
  the informer had at that moment says, or a later one, *unless* a call was
  between its Get and its store: such a call puts an older answer back for a
  whole time to live. That version may itself be older than the clear: a "fresh
  check" is a fresh look into the informer.
* `ElectionsStand`: although the controller writes whole Leases back from
  copies, the holder of a Lease changes only by a release or a counted
  take-over. Without the resource version in the copy, adopting a Lease would
  undo a renewal or a take-over.
* `LeaseIsFenced`: the same and more, as an implementation of `FencedLease`: no
  write of the controller brings a deleted Lease back, as an `Update` that is
  accepted after a deletion would.
* `TokenGrowsWithinLease`: the fencing token of a LeaderGroup never goes back
  while it comes from one Lease.
* `StatusFollowsLease` (liveness): if a LeaderGroup is the only one left, it
  comes to own the Lease and its status to say what the Lease says. It needs the
  requeue after 10 seconds: events of a Lease reach its owner only, and the
  Lease that this LeaderGroup saw may have been deleted together with another
  one.
* The type invariants. Most of a type is what Go's compiler checks, so they are
  stated for what it does not. In `ServiceDirector`: no port number 0 gets into
  a leader Service or a slice, which is what a leader without the named port
  would give. In `OptedInCache`: the cache, and each List on its way into it,
  has at most one entry for a Service and none without a selector, which an
  update that appends instead of replacing would break. In `LeaderClient` and
  `LeaderGroup`: no expiry before time 0, and no negative token.

Bounds. Three Pod changes are what it takes to lose a leader, get another and
have the first come back while a write of either is still on its way. Three
edits of the Service cover opting out, renaming and opting in again, and
deleting one that was re-created; two names of leader Services are enough for a
rename to leave the old one behind. One edit of the target port makes a leader
unroutable that was not, and three Pod changes are left to bring another one.
One fault is enough for each read and write to fail alone, at any moment.
`MaxLag = 2` undelivered events per object
let a reconcile act on a copy two writes old; a write waits when the bound is
reached, so a longer lag is not explored. `left` bounds what the environment
does, not what the reconciler does: retries are unbounded. `lifecycle` may
deadlock (`CHECK_DEADLOCK FALSE`) because after a deletion of the source without
leftovers nothing is left to happen; in the other runs the resync always can.

In `opted_in_cache`, two changes of Pods and of Services are enough for an event
to meet each step of a refresh or an update and for the next one to find the
result; two Services are enough for a refresh caused by one to race with the
update of the other, and two workers for both at once. `MaxCacheSize` equals the
number of Services, the largest number without truncation; with a smaller one,
events of the dropped Services really are lost (see "Not modelled"). In
`leader_client`, `TTL` 2 tells "before" from "at" the expiry, `MaxCall` 1 lets
the Lease change and the clock advance between Get and store, and at time 3 an
entry expires that a slow call stored at time 1; two changes are three versions,
so the informer can be up to two behind. The run stops at `Horizon`. In
`leader_group`, four versions of a Lease are a creation, a take-over and a
release or adoption, or a deletion and a second creation; two changes cover
creating the second LeaderGroup and deleting the first one. `StatusFollowsLease`
speaks only of runs that do not use all the versions up (`Alone`). Larger
instances were explored without an error: two replicas (1,203,946 states) with
all properties, and `MaxLag` 2 and 3 with up to five versions for the safety
ones. `leader_client` and `leader_group` stop when time or versions are used up,
and `opted_in_cache` when nothing is left to do.

Fairness (`Fairness`, used by the runs with liveness properties): weak fairness
of the reconciler's next step (a worker serves the queue, and a failed key is
requeued with a bounded backoff), of each watch delivery (the reflector re-lists
when a watch breaks) and of each collection by the garbage collector. No
fairness for Pods, users, faults, crashes, the expiry of the cache or the
resync: none of them has to happen, so nothing above depends on the resync. In
`OptedInCache`: weak fairness of the handler goroutine and of the reconcile of
each Service, which the work queue hands out in order; a List under the lock
ends because it has a timeout (1631). In `LeaderGroup`: the worker, each watch,
the garbage collector and the timers; no fairness for replicas and users.

### Disagreements with the documentation

Each of these runs checks one property of `DocumentedBehaviour` and finds it
violated.

| Run | Promise | What the code does |
|---|---|---|
| `terminating` | a terminating leader fails over immediately (`service_director.go:378-403`) | the new selection filters by readiness alone (699-723) and may choose the same Pod |
| `relabelled` | candidates match the selector (`docs/ARCHITECTURE.md:45`) | a relabelled Pod's event is filtered out (1423-1463) |
| `no_ready_pods` | no Ready Pod, no endpoints (`README.md:412`) | an endpoint without address is written (1122), which a real API server rejects: the old route stays |
| `user_service` | no changes to user resources (`README.md:40`) | cleanup deletes any Service with the leader's name (1286-1303) |
| `stale_resources` | opting out deletes the leader Service, and there is cleanup for stale resources (`docs/ARCHITECTURE.md:151-153`) | a cleanup that runs before the informer has the leader Service finds nothing (1294-1296) and succeeds; a failed Get is swallowed there as well. The leader Service stays until the source Service's next event or the informer's resync. In the run it has no slice: its creation was rejected |
| `annotation` | `leader-pod-name` is the current leader (`README.md:267`) | the patch from a lagging copy sends nothing, and leader Service events do not enqueue the source |

Further places where a text and the code differ, which follow from one line and
need no run:

* `pkg/client/doc.go:47-50` says that `IsLeader` returns true when the Lease or
  the Pod's name is missing; the code returns an error in both cases
  (`client.go:99-101`, 139-143), and `LeaderClient` has the error.
* `FencingToken` is called monotonic (`leadergroup_types.go:113`). It is within
  one Lease. A Lease that is created again starts from the retry period or from
  zero, and the token with it (`leadergroup_controller.go:161-163`).
* `docs/PERFORMANCE_TUNING.md:18` calls the size limit LRU-style eviction. At a
  refresh, the only place where it is applied, all access times have just been
  set (`service_director.go:1661-1676`), and an update that adds an entry does
  not apply it (1754).
* `ClearCache` is there to "force a fresh check" (`client.go:234`); calls in
  flight are not affected, and the check is one of the informer (see
  `ClearForgets`).
* A leader that is "still Ready" is said to be kept
  (`docs/ARCHITECTURE.md:41`: "If current leader (from EndpointSlice targetRef)
  is still Ready → keep it"; 127: "Keeps current leader if still Ready"). A
  Ready leader that is terminating or has no address makes the reconcile bypass
  stickiness (`service_director.go:383-407`), and so does a cached one that is
  not the slice's; and a Get of the slice that fails for any reason drops
  stickiness too (664-691).
* A named port that does not resolve is said to fall back
  (`docs/ARCHITECTURE.md:105`: "If unresolved → fallback to ServicePort.port and
  emit Warning Event"; `docs/TROUBLESHOOTING.md:55`: "EndpointSlice uses
  fallback port instead of container port"). The code has no fallback: it fails
  closed, deletes the slice and routes to nobody
  (`service_director.go:788-816`), which is what `FailClosed` and
  `QuiescentRouted` say of it.
* `config/rbac/role.yaml` does not grant `delete` on Leases, so with it
  `cleanupLease` ends in an error; the Lease is left to the garbage collector.
  The model has both outcomes.

## Proofs

Each module of proofs covers every value of the constants that satisfies the
named assumptions of its module; TLC evaluates those on every run. They say what
the types of the parameters are, and what the code or Kubernetes guarantees of
the start: at most one Service of a name, distinct UIDs of Pods, UIDs that are
not zero, at most one retry period in a spec.

**`ServiceDirectorProofs`**

* `TypeCorrect`: `Spec => []TypeOK`. `TypeOK` is inductive; one lemma per group
  of actions, on lemmas about the types that the helpers return.
* `LeadersWereReady`: `Spec => []LeaderWasReady`. `LeaderWasReady` is not
  inductive: a target comes from the reconcile's copy of the Pods, which may
  have changed since, and from watch events on their way to the informer. The
  invariant `ReadyInv` adds both: Ready Pods in `pods` and in `loc.pods` are in
  `everReady`, and so are the targets of every version of a slice in
  `sliceWatch`. The argument for a write is in `WantedSliceReady` and
  `WantedLeaderServiceReady`: the merge patch sends the selected leader or
  leaves what was there.
* `SliceWrites` says that a slice changes only to what a reconcile wants or to
  nothing; the modules that follow use it.

**`LeaderRoutingProofs`** proves `ImplementsLeaderRouting`: `Spec =>
LeaderRoutingImplemented`. The initial states map to initial states, and every
step to a step of `LeaderRouting` or a stutter. The invariant `RoutingInv` adds
to `ReadyInv` that Pods have distinct UIDs, in the cluster and in the
reconcile's copy, that the leader in its locals is at most one Pod, and that
*every copy* of a slice, at the API server, in the informer and in the watch, is
at most one object with at most one target: a merge patch mixes the wanted
target with the one that is there and with the informer's, so all of them have
to be single for the result to be (`SelectSingle`, `WantedSliceSingle`).
`SliceSteps` says that an action changes at most one slice, and to what.

**`StickyLeaderProofs`** proves `ReadyLeaderStays`: with `StrictAPI`, `Spec =>
StickyLeaderStays`. The property speaks of one write, but what that write does
was decided when the leader was selected, with everything else in between. The
invariant `StickyInv` carries what the selection made of the endpoints that it
saw (`loc.seen`): without a bypass, the chosen leader is the Pod it kept, or it
kept none, or the ports did not resolve and there is none. The write is a merge
patch from another copy than the selection's; it leaves the target of the slice
alone or sets the selected Pod (`WriteKeepsLeader`). Without validation the
property is false, and TLC finds how: a kept leader that has lost its address is
taken out of the slice by a patch that a validating API server rejects.

**`FailClosedProofs`** proves `NamedPortsFailClosed`: `Spec => FailClosed`. For
the first half, `LeaderDeclares`: from the port resolution to the last write,
the leader of the reconcile declares the port if the Service names one. For the
second, `InSync`: the newest copy of a slice that is on its way to the informer,
or the informer's if none is, is what the API server has. So a reconcile that
ends well and leaves no event behind has found the slice as it wants it
(`QuietSlice`), and one that has no leader wants it empty.

**`QuiescentProofs`** proves what holds when nothing is left to do.

* `RestIsRouted`: `Spec => []QuiescentRouted` under `Attentive`. What a
  reconcile read in several steps may change under it; the argument is that
  whatever changes it puts the key on the queue. The invariant is the
  conjunction, each part under "unless the key is queued", of: the opted-in
  cache has the Service's selector (`OptedInInv`); the reconcile works on the
  Service as it is (`ReconcileInv`); its list has the Pods as they are
  (`FreshInv`); its choice is the one that the selection makes of that list
  and of the endpoints that it saw, which are those of the informer's slice, or
  none if a read failed (`ChoiceInv`); and between reconciles, a slice with no
  event on its way is right (`RestInv`). The last follows from the others at the
  end of a reconcile: either its write changed the slice, whose event brings the
  key back, or the slice was what it wanted already (`QuietSlice`,
  `WantedIsRight`).
* `EarliestLeadsAtRest`: `Spec => []EarliestLeads`, for `LabelsStay` and
  `~FlapDamping`, from the same invariant: a right slice then targets the
  earliest candidate.
* `CleanupRestoresServed`: `Spec => CleanupKeepsServed`, without a hypothesis,
  from `OptedInInv` and `ReconcileInv`: as long as the key is not queued, the
  Service that a cleanup finds is not enabled, and so not served.

The hypotheses are the limits of the code, and TLC violates each property
without them. `LabelsStay`, no label of a Pod changes: `podPredicate` drops such
an event (run `relabelled`). `StrictAPI \/ ~FlapDamping` in `Attentive`: nothing
is scheduled for when a Pod has been Ready for `min-ready-duration`, so the
reconcile must have failed and be retried, which it does only if the API server
rejects a slice without address. `~FlapDamping` in `EarliestLeadsAtRest`: an
earlier Pod that matures later does not take over, for the same reason.

**`OptedInCacheProofs`**, for any Services, Pods, workers and faults:

* `TypeCorrect`: `Spec => []TypeOK`. That entries are unique and have a selector
  (`WellFormed`) holds of each List, and is kept by the updates in place
  because they replace the entry or add one where none is.
* `CacheIsRight`: `Spec => []CacheIsCurrent`. The property is about rest, so the
  invariant says what is still to be done while something is wrong. `LockInv`:
  who holds the write lock across a List is exactly who is at that step, so at
  most one List is on its way into the cache. `SpecInv`: a reconcile works on
  the Service that the informer has, or its key is queued. `CurrentInv`: of
  every Service, the cache *and each List on its way into it* have what is
  current, or the Service is still to be reconciled; a List is made under the
  lock, so what it misses was changed after it and is queued.
* `NoPodEventIsLost`: `Spec => []NoPodEventLost`. `EventInv`: the last List of
  an opted-in Service found the Pods that are there, or a reconcile will List
  them again, or an event of one of the Pods waits where the handler will match
  it - not taken yet, or taken with a copy of the cache that has the selector.

**`LeaderClientProofs`**, under `ClientAssumption`:

* `TypeCorrect`: `Spec => []TypeOK`.
* `AnswersAreRecent`: `Spec => []AnswerIsRecent`, with `RecentInv`: what a call
  got was the Lease at most `MaxCall + lag` before now (the guard of `Tick`),
  and an entry was true less than `TTL + MaxCall + lag` before it expires; so
  the test for expiry is all that is needed when a cached answer is given. A
  version that was the Lease at some moment stays so, and `lag` only grows
  (`SaidStays`).
* `ClearCacheForgets`: `Spec => []ClearForgets`, with `ClearInv`: a call that
  was not racing got what the informer's version at the clear says, or a later
  one; the informer never goes back (`cleared <= seen`).

**`LeaderGroupProofs`**, under `GroupAssumption`:

* `TypeCorrect`: `Spec => []TypeOK`.
* `ControllerRespectsElections`: `Spec => ElectionsStand`. The invariant
  `LeaseInv` says that a resource version identifies a Lease in all its copies:
  the one at the API server, in the informer, on its way there and in the
  reconcile's locals. So an `Update` that the API server accepts was computed
  from the very Lease that it replaces, and leaves its holder and transitions
  alone.
* `ImplementsFencedLease`: `Spec => LeaseIsFenced`, from `LeaseInv` as well: a
  write keeps the UID, the holder and the transitions of the Lease or is one of
  the abstract steps, and a new UID is the resource version of the creation,
  which is above every UID that any copy has.
* `TokensGrow`: `Spec => TokenGrowsWithinLease`. `LeaseInv` is not enough: the
  status is computed from a copy that may be old, so the copies must be ordered.
  `OrderInv`: the transitions of a Lease grow from the reconcile's copy to the
  informer's, to each version in the watch, to the API server's. `TokenInv`: a
  token that was published is not above any of these copies of its Lease;
  `GroupInv`: a copy of a LeaderGroup with the same resource version is the same
  object, so a status `Update` that is accepted compared with what it replaces.

Only model-checked: the liveness properties `EventuallyRouted`,
`DeletedSourceLeavesNothing`, `ComesToRest` and `StatusFollowsLease`, because
liveness under fairness and `ENABLED` are out of the prover's reach. The safety
half of the first, that no state of rest is a wrong one, is proved
(`RestIsRouted`); that rest is reached stays with TLC.
Every other property of a passing run is stated by a theorem.


## Not modelled

* Two source Services with one custom leader name, whose reconciles overwrite
  each other's leader Service (`service_director.go:1382`).
* What becomes of Services beyond the cache's size limit: the model has the
  truncation (`Truncations`), but nothing to promise for them. Their Pods'
  events are lost until a reconcile of their own; even being in the cache again
  tells nothing, because a refresh for another Service may have put them there
  after the event.
* IP addresses, so the immutable address type of a slice is not there
  (`service_director.go:1211`); the copying of labels and annotations
  (`metadata.go`); NodePort and headless details of the leader Service.
* Edits of the annotations `sticky` and `min-ready-duration`: `Sticky` and
  `FlapDamping` are constants, so that every behaviour has one setting
  throughout. Edits of the opt-in and of the leader's name are modelled.
* More than one port of a Service: its port is edited between a number and a
  name, but neither added nor removed (a Service without ports has none
  throughout), and the names are not told apart, so neither is an edit from one
  name to another.
* A standby whose informers are further behind than those of the replica it
  takes over from: the take-over goes on from the same views.
* The lag of Pods and of the source Service is folded into when they change; an
  informer that has a newer Pod than Service, or the reverse, is covered, one
  that shows a Pod differently to two reads of one reconcile in the wrong order
  is not possible in client-go.
* In `OptedInCache`, the writes of a reconcile, which do not touch the cache;
  label changes of Pods, which `podPredicate` drops (run `relabelled`);
  restarts, which are the initial state.
* In `LeaderGroup`, the renew time, the duration and the conditions of the
  status, which are copied like the holder; edits of the spec other than
  deletion; a change of the component's name, which leaves the Lease of the old
  name to the garbage collector. Two LeaderGroups relabel their Lease in turns
  (`leadergroup_controller.go:196`); the model does it, and no property says
  that it ends.
* In `LeaderClient`, the reading of environment variables and files: it can only
  end in an error, which `GetLease` has. The composition with `LeaderGroup` is
  left out: the client depends on the Lease alone, which changes freely here.
* The strategy table, the health check, the metrics, the API types and `main`
  keep no state that anything here depends on (`PROJECT.json` has the reasons).
  The code that calls the API with retries and backoff is reduced to its
  outcomes.

## Plan

Done: the reconciler with its handlers and caches, the opted-in cache, the
client, the LeaderGroup controller, the abstract leader Service and the abstract
Lease with their refinements, and a theorem for every safety property and action
property that a passing run checks. Next:

1. Two reconcilers over one leader Service (`service_director.go:1382`): what
   still holds of it, and what the documentation promises and does not hold.
2. An abstract client of a Lease whose answers are at most `TTL + MaxCall` older
   than what its reader shows, implemented by `LeaderClient`.
3. `Sticky` and `FlapDamping` as annotations that the user edits, and Services
   with several ports.
4. The address type of a slice (`service_director.go:1211`).
