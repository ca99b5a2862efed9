------------------------------ MODULE LeaderGroup ------------------------------
(***************************************************************************)
(* The LeaderGroup controller of pkg/controller/leadergroup_controller.go, *)
(* for the LeaderGroups of one component in one namespace: all of them     *)
(* derive the same Lease, "<component>-lease".  The controller creates or  *)
(* adopts the Lease and publishes what it says in the status of the        *)
(* LeaderGroup.  The replicas of the component elect their leader with the *)
(* Lease on their own (client-go), and never wait for the controller.      *)
(*                                                                         *)
(* As in ServiceDirector, reads are answered by informers, writes go to    *)
(* the API server, and a set of at most one element is an object that may  *)
(* not exist or a pointer that may be nil.  LeaderGroups of other types or *)
(* without a component return early and change nothing.                    *)
(***************************************************************************)
EXTENDS Integers, Sequences, FiniteSets

CONSTANTS
    Group,        \* names of the LeaderGroups
    Candidate,    \* identities of the component's replicas
    RetryPeriod,  \* spec.lease.retryPeriod in seconds, if there is one
    InitGroups,   \* LeaderGroups at the start
    Budget,       \* bound on changes of LeaderGroups, faults and restarts
    MaxRevision,  \* bound on the versions of the Lease
    MaxLag        \* bound on the undelivered watch events of one object

NoHolder == ""

NoLabel == "none"

ASSUME GroupAssumption ==
    /\ RetryPeriod \subseteq Nat
    /\ \A m, n \in RetryPeriod : m = n
    /\ InitGroups \subseteq Group
    /\ NoHolder \notin Candidate
    /\ NoLabel \notin Group
    /\ Budget \in Nat
    /\ MaxRevision \in Nat
    /\ MaxLag \in Nat \ {0}

VARIABLES
    lease,      \* the Lease at the API server
    revision,   \* resource version of its last write
    groups,     \* the LeaderGroups at the API server, by name
    nextUid,    \* UID of the next LeaderGroup
    leaseView,  \* the Lease in the informer
    leaseWatch, \* its versions on their way to the informer
    groupView,  \* the LeaderGroups in the informer
    groupWatch, \* their versions on their way
    queue,      \* LeaderGroups in the work queue
    timers,     \* LeaderGroups to be requeued after a while
    pc,         \* the next step of the reconcile in progress
    loc,        \* its local variables
    left        \* what is left of Budget

api      == <<lease, revision, groups, nextUid>>
informer == <<leaseView, leaseWatch, groupView, groupWatch>>
vars     == <<api, informer, queue, timers, pc, loc, left>>

Owner == [name : Group, uid : Nat]

\* A Lease; its UID is the resource version at which it was created.
Lease == [uid : Nat, rev : Nat, holder : Candidate \cup {NoHolder},
          transitions : SUBSET Nat, owner : SUBSET Owner,
          label : Group \cup {NoLabel}]

\* `of' is a history: the UID of the Lease that the token was copied from.
Status == [holder : Candidate \cup {NoHolder}, observed : Nat,
           token : SUBSET Nat, of : Nat]

LeaderGroup == [uid : Nat, rev : Nat, deleting : BOOLEAN, status : Status]

Locals == [name : SUBSET Group, lg : SUBSET LeaderGroup, lease : SUBSET Lease]

NoLocals == [name |-> {}, lg |-> {}, lease |-> {}]

NewGroup(uid) ==
    [uid |-> uid, rev |-> 0, deleting |-> FALSE,
     status |-> [holder |-> NoHolder, observed |-> 0, token |-> {}, of |-> 0]]

-----------------------------------------------------------------------------
(***************************************************************************)
(* Writes to the API server; each gives the object a new version.          *)
(***************************************************************************)

PutLease(new) ==
    /\ revision < MaxRevision
    /\ Len(leaseWatch) < MaxLag
    /\ revision' = revision + 1
    /\ lease' = new
    /\ leaseWatch' = Append(leaseWatch, new)

PutGroup(g, new) ==
    /\ Len(groupWatch[g]) < MaxLag
    /\ groups' = [groups EXCEPT ![g] = new]
    /\ groupWatch' = [groupWatch EXCEPT ![g] = Append(@, new)]

Spend ==
    /\ left > 0
    /\ left' = left - 1

(***************************************************************************)
(* Ends of a reconcile: an error requeues the key with a backoff.          *)
(***************************************************************************)
Done ==
    /\ pc' = "idle"
    /\ loc' = NoLocals
    /\ UNCHANGED <<queue, timers>>

Fail ==
    /\ pc' = "idle"
    /\ loc' = NoLocals
    /\ queue' = queue \cup loc.name
    /\ UNCHANGED timers

\* Mutant of DoneRequeueAfter: the controller waits for events alone.
DoneWithoutTimer == Done

\* ctrl.Result{RequeueAfter: 10 * time.Second}
DoneRequeueAfter ==
    /\ pc' = "idle"
    /\ loc' = NoLocals
    /\ timers' = timers \cup loc.name
    /\ UNCHANGED queue

-----------------------------------------------------------------------------
(***************************************************************************)
(* Reconcile.                                                              *)
(***************************************************************************)

OwnerRef == {[name |-> g, uid |-> x.uid] : g \in loc.name, x \in loc.lg}

\* updateLeaseMetadata: no ownerReference, or other labels
NeedsUpdate(l, g) == l.owner = {} \/ l.label # g

\* The Gets of the LeaderGroup and of the Lease, and the branch on them.
Reconcile(g) ==
    /\ pc = "idle"
    /\ g \in queue
    /\ queue' = queue \ {g}
    /\ LET read == [name |-> {g}, lg |-> groupView[g], lease |-> leaseView]
       IN  \/ /\ groupView[g] = {}
              /\ UNCHANGED <<pc, loc>>
           \/ /\ \E x \in groupView[g] : x.deleting
              /\ IF leaseView = {} THEN UNCHANGED <<pc, loc>>
                                   ELSE pc' = "cleanup" /\ loc' = read
           \/ /\ \E x \in groupView[g] : ~x.deleting
              /\ loc' = read
              /\ pc' = CASE leaseView = {} -> "create"
                         [] \E l \in leaseView : NeedsUpdate(l, g) -> "update"
                         [] OTHER -> "status"
    /\ UNCHANGED <<api, informer, timers, left>>

\* What a write that may fail does: it succeeds and the reconcile goes on, it
\* is refused, or its answer is an error, with or without the write done.
Attempt(accepted, new) ==
    \/ /\ accepted
       /\ PutLease(new)
       /\ pc' = "status"
       /\ loc' = [loc EXCEPT !.lease = new]
       /\ UNCHANGED <<queue, timers, left>>
    \/ /\ ~accepted
       /\ Fail
       /\ UNCHANGED <<lease, revision, leaseWatch, left>>
    \/ /\ Spend
       /\ Fail
       /\ \/ accepted /\ PutLease(new)
          \/ UNCHANGED <<lease, revision, leaseWatch>>

\* buildLease: the retry period becomes the initial LeaseTransitions.
BuildLease ==
    {[uid |-> revision + 1, rev |-> revision + 1, holder |-> NoHolder,
      transitions |-> RetryPeriod, owner |-> OwnerRef, label |-> g] :
        g \in loc.name}

CreateLease ==
    /\ pc = "create"
    /\ Attempt(lease = {}, BuildLease)
    /\ UNCHANGED <<groups, nextUid, leaseView, groupView, groupWatch>>

\* Mutant of Adopted: the Lease is built anew instead of amended.
Rebuilt(l) == {[b EXCEPT !.uid = l.uid] : b \in BuildLease}

\* The Lease as it was read, with the ownerReference and the labels.
Adopted(l) ==
    {[l EXCEPT !.rev = revision + 1,
               !.owner = IF @ = {} THEN OwnerRef ELSE @,
               !.label = g] : g \in loc.name}

\* Mutant of SameVersion: the update overwrites whatever is there.
SameUid == {l.uid : l \in lease} = {l.uid : l \in loc.lease}

\* Mutant of SameVersion: an update of a Lease that is gone creates it again.
NotOverwritten == \A l \in lease, m \in loc.lease : l.rev = m.rev

\* The API server's check of the resource version of an Update.
SameVersion == {l.rev : l \in lease} = {l.rev : l \in loc.lease}

UpdateLeaseMetadata ==
    /\ pc = "update"
    /\ Attempt(SameVersion, UNION {Adopted(l) : l \in loc.lease})
    /\ UNCHANGED <<groups, nextUid, leaseView, groupView, groupWatch>>

\* Mutant of StatusFrom: the token counts from zero.
TokenFromZero(l, status) ==
    [holder   |-> l.holder,
     observed |-> l.rev,
     token    |-> IF l.transitions = {} THEN status.token
                  ELSE {n - 1 : n \in l.transitions},
     of       |-> IF l.transitions = {} THEN status.of ELSE l.uid]

\* The status after updateStatusFromLease; a Lease without transitions leaves
\* the token as it is.
StatusFrom(l, status) ==
    [holder   |-> l.holder,
     observed |-> l.rev,
     token    |-> IF l.transitions = {} THEN status.token ELSE l.transitions,
     of       |-> IF l.transitions = {} THEN status.of ELSE l.uid]

\* statusEqual; it does not look at the token
StatusEqual(s, t) == s.holder = t.holder /\ s.observed = t.observed

GroupUnchanged(g, x) == \E y \in groups[g] : y.uid = x.uid /\ y.rev = x.rev

Published(x, l) ==
    {[x EXCEPT !.rev = @ + 1, !.status = StatusFrom(l, x.status)]}

PublishStatus(g, x, l) ==
    \/ /\ StatusEqual(x.status, StatusFrom(l, x.status))
       /\ DoneRequeueAfter
       /\ UNCHANGED <<groups, groupWatch, left>>
    \/ /\ ~StatusEqual(x.status, StatusFrom(l, x.status))
       /\ \/ /\ GroupUnchanged(g, x)
             /\ PutGroup(g, Published(x, l))
             /\ DoneRequeueAfter
             /\ UNCHANGED left
          \/ /\ ~GroupUnchanged(g, x)
             /\ Fail
             /\ UNCHANGED <<groups, groupWatch, left>>
          \/ /\ Spend
             /\ Fail
             /\ \/ GroupUnchanged(g, x) /\ PutGroup(g, Published(x, l))
                \/ UNCHANGED <<groups, groupWatch>>

UpdateStatusFromLease ==
    /\ pc = "status"
    /\ \E g \in loc.name, x \in loc.lg, l \in loc.lease : PublishStatus(g, x, l)
    /\ UNCHANGED <<lease, revision, nextUid, leaseView, leaseWatch, groupView>>

(***************************************************************************)
(* cleanupLease deletes the Lease by its name, whoever owns it.  The role  *)
(* in config/rbac/role.yaml does not allow it: then it ends in an error.   *)
(***************************************************************************)
CleanupLease ==
    /\ pc = "cleanup"
    /\ \/ /\ lease # {}
          /\ PutLease({})
          /\ Done
          /\ UNCHANGED left
       \/ /\ lease = {}
          /\ Fail
          /\ UNCHANGED <<lease, revision, leaseWatch, left>>
       \/ /\ Spend
          /\ Fail
          /\ \/ lease # {} /\ PutLease({})
             \/ UNCHANGED <<lease, revision, leaseWatch>>
    /\ UNCHANGED <<groups, nextUid, leaseView, groupView, groupWatch>>

-----------------------------------------------------------------------------
(***************************************************************************)
(* SetupWithManager: For(LeaderGroup) enqueues it on each of its events,   *)
(* Owns(Lease) enqueues the owner of the Lease.                            *)
(***************************************************************************)
DeliverLease ==
    /\ leaseWatch # <<>>
    /\ leaseView' = Head(leaseWatch)
    /\ leaseWatch' = Tail(leaseWatch)
    /\ queue' = queue \cup {o.name : o \in UNION {l.owner :
                                             l \in leaseView \cup leaseView'}}
    /\ UNCHANGED <<api, groupView, groupWatch, timers, pc, loc, left>>

DeliverGroup(g) ==
    /\ groupWatch[g] # <<>>
    /\ groupView' = [groupView EXCEPT ![g] = Head(groupWatch[g])]
    /\ groupWatch' = [groupWatch EXCEPT ![g] = Tail(@)]
    /\ queue' = queue \cup {g}
    /\ UNCHANGED <<api, leaseView, leaseWatch, timers, pc, loc, left>>

TimerFires(g) ==
    /\ g \in timers
    /\ timers' = timers \ {g}
    /\ queue' = queue \cup {g}
    /\ UNCHANGED <<api, informer, pc, loc, left>>

\* A crash, or another replica of the controller taking over.
Restart ==
    /\ Spend
    /\ pc' = "idle"
    /\ loc' = NoLocals
    /\ timers' = {}
    /\ leaseView' = lease
    /\ leaseWatch' = <<>>
    /\ groupView' = groups
    /\ groupWatch' = [g \in Group |-> <<>>]
    /\ queue' = {g \in Group : groups[g] # {}}
                    \cup {o.name : o \in UNION {l.owner : l \in lease}}
    /\ UNCHANGED api

-----------------------------------------------------------------------------
(***************************************************************************)
(* The component's replicas: client-go's leader election on a Lease.       *)
(***************************************************************************)

Transitions(l) == IF l.transitions = {} THEN 0 ELSE CHOOSE n \in l.transitions : TRUE

\* A replica creates the Lease, or takes one over that is free or has expired.
Acquire(c) ==
    /\ \/ /\ lease = {}
          /\ PutLease({[uid |-> revision + 1, rev |-> revision + 1, holder |-> c,
                        transitions |-> {0}, owner |-> {}, label |-> NoLabel]})
       \/ \E l \in lease :
             /\ l.holder # c
             /\ PutLease({[l EXCEPT !.rev = revision + 1, !.holder = c,
                                    !.transitions = {Transitions(l) + 1}]})
    /\ UNCHANGED <<groups, nextUid, leaseView, groupView, groupWatch, queue,
                   timers, pc, loc, left>>

\* The holder renews the Lease, or gives it up when it stops.
RenewOrRelease(c) ==
    /\ \E l \in lease :
          /\ l.holder = c
          /\ \E h \in {c, NoHolder} :
                PutLease({[l EXCEPT !.rev = revision + 1, !.holder = h]})
    /\ UNCHANGED <<groups, nextUid, leaseView, groupView, groupWatch, queue,
                   timers, pc, loc, left>>

(***************************************************************************)
(* Users, and Kubernetes' garbage collector.                               *)
(***************************************************************************)
CreateGroup(g) ==
    /\ Spend
    /\ groups[g] = {}
    /\ PutGroup(g, {NewGroup(nextUid)})
    /\ nextUid' = nextUid + 1
    /\ UNCHANGED <<lease, revision, leaseView, leaseWatch, groupView, queue,
                   timers, pc, loc>>

\* The LeaderGroup is gone at once, or stays with a deletion timestamp while
\* it has finalizers (foreground deletion).
DeleteGroup(g) ==
    /\ Spend
    /\ \E x \in groups[g] :
          /\ ~x.deleting
          /\ \E new \in {{}, {[x EXCEPT !.rev = @ + 1, !.deleting = TRUE]}} :
                PutGroup(g, new)
    /\ UNCHANGED <<lease, revision, nextUid, leaseView, leaseWatch, groupView,
                   queue, timers, pc, loc>>

FinalizeGroup(g) ==
    /\ \E x \in groups[g] : x.deleting
    /\ PutGroup(g, {})
    /\ UNCHANGED <<lease, revision, nextUid, leaseView, leaseWatch, groupView,
                   queue, timers, pc, loc, left>>

OwnerGone(l) ==
    /\ l.owner # {}
    /\ \A o \in l.owner : \A x \in groups[o.name] : x.uid = o.uid => x.deleting

CollectLease ==
    /\ \E l \in lease : OwnerGone(l)
    /\ PutLease({})
    /\ UNCHANGED <<groups, nextUid, leaseView, groupView, groupWatch, queue,
                   timers, pc, loc, left>>

-----------------------------------------------------------------------------

Init ==
    /\ lease = {}
    /\ revision = 0
    /\ groups = [g \in Group |-> IF g \in InitGroups THEN {NewGroup(1)} ELSE {}]
    /\ nextUid = 2
    /\ leaseView = {}
    /\ leaseWatch = <<>>
    /\ groupView = groups
    /\ groupWatch = [g \in Group |-> <<>>]
    /\ queue = InitGroups
    /\ timers = {}
    /\ pc = "idle"
    /\ loc = NoLocals
    /\ left = Budget

Controller ==
    \/ \E g \in Group : Reconcile(g)
    \/ CreateLease
    \/ UpdateLeaseMetadata
    \/ UpdateStatusFromLease
    \/ CleanupLease

Informer == DeliverLease \/ \E g \in Group : DeliverGroup(g)

Election == \E c \in Candidate : Acquire(c) \/ RenewOrRelease(c)

Next ==
    \/ Controller
    \/ Informer
    \/ Election
    \/ CollectLease
    \/ \E g \in Group : TimerFires(g) \/ CreateGroup(g) \/ DeleteGroup(g)
                            \/ FinalizeGroup(g)
    \/ Restart

(***************************************************************************)
(* The worker goes on while its queue is not empty, the watches deliver,   *)
(* timers fire and the garbage collector runs.                             *)
(***************************************************************************)
Fairness ==
    /\ WF_vars(Controller)
    /\ WF_vars(DeliverLease)
    /\ WF_vars(CollectLease)
    /\ \A g \in Group :
          /\ WF_vars(DeliverGroup(g))
          /\ WF_vars(TimerFires(g))

Spec == Init /\ [][Next]_vars

FairSpec == Spec /\ Fairness

-----------------------------------------------------------------------------
(***************************************************************************)
(* Properties.                                                             *)
(***************************************************************************)

\* Every variable holds a value of its type.
TypeOK ==
    /\ lease \subseteq Lease
    /\ revision \in Nat
    /\ groups \in [Group -> SUBSET LeaderGroup]
    /\ nextUid \in Nat
    /\ leaseView \subseteq Lease
    /\ leaseWatch \in Seq(SUBSET Lease)
    /\ groupView \in [Group -> SUBSET LeaderGroup]
    /\ groupWatch \in [Group -> Seq(SUBSET LeaderGroup)]
    /\ queue \subseteq Group
    /\ timers \subseteq Group
    /\ pc \in {"idle", "create", "update", "status", "cleanup"}
    /\ loc \in Locals
    /\ left \in Nat

\* Two versions of one Lease, of which the second is as the replicas' election
\* made it: nobody else moved it, or it was given up, or taken over and counted.
HandedOver(l, m) ==
    \/ m.holder \in {l.holder, NoHolder} /\ m.transitions = l.transitions
    \/ /\ m.holder \in Candidate \ {l.holder}
       /\ m.transitions = {Transitions(l) + 1}

\* The controller never undoes an election: while a Lease lives its holder
\* changes by a release or a counted take-over only, although the controller
\* writes the whole Lease back from a copy that may be old (the resource version
\* in updateLeaseMetadata's Update, which replicas race with).
ElectionsStand ==
    [][\A l \in lease, m \in lease' : l.uid = m.uid => HandedOver(l, m)]_vars

\* The controller and the replicas together implement FencedLease: no copy that
\* the controller writes back revives a Lease that was deleted, moves its holder
\* or sets its term back (buildLease, updateLeaseMetadata, cleanupLease).
FL == INSTANCE FencedLease
          WITH Holder <- Candidate,
               lock   <- {[id |-> l.uid, holder |-> l.holder,
                           term |-> Transitions(l)] : l \in lease},
               now    <- revision

LeaseIsFenced == FL!Spec

\* The fencing token is monotonic as long as it comes from one Lease.  A Lease
\* that is created again starts over, and so does the token (buildLease).
TokenGrowsWithinLease ==
    [][\A g \in Group : \A x \in groups[g], y \in groups'[g] :
          (x.uid = y.uid /\ x.status.of = y.status.of) =>
              \A n \in x.status.token, m \in y.status.token : n <= m]_vars

\* g is the only LeaderGroup, and the bound on versions is not reached.
Alone(g) ==
    /\ revision < MaxRevision
    /\ \E x \in groups[g] : ~x.deleting
    /\ \A h \in Group \ {g} : groups[h] = {}

InSync(g) ==
    \E l \in lease, x \in groups[g] :
        /\ l.owner = {[name |-> g, uid |-> x.uid]}
        /\ l.label = g
        /\ x.status.holder = l.holder
        /\ x.status.observed = l.rev

\* If from some time on a LeaderGroup is the only one of its component, then
\* from some time on it owns the Lease and its status says what the Lease says,
\* whoever owned or deleted the Lease before (the requeue after 10 seconds:
\* events of a Lease that another LeaderGroup owns do not reach this one).
StatusFollowsLease ==
    \A g \in Group : <>[]Alone(g) => <>[]InSync(g)

=============================================================================
