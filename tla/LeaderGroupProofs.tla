-------------------------- MODULE LeaderGroupProofs --------------------------
(***************************************************************************)
(* Proofs about LeaderGroup, for any number of LeaderGroups, replicas of   *)
(* the component and faults, and any lag of the informers.                 *)
(***************************************************************************)
EXTENDS LeaderGroup, SequenceTheorems, TLAPS

\* What the variables of a reconcile hold.
LEMMA LocalTypes ==
  ASSUME TypeOK
  PROVE  /\ loc \in Locals
         /\ loc.name \subseteq Group
         /\ loc.lg \subseteq LeaderGroup
         /\ loc.lease \subseteq Lease
         /\ NoLocals \in Locals
  BY DEF TypeOK, Locals, NoLocals

\* A Lease in any of its written forms is well typed.
LEMMA LeaseTypes ==
  ASSUME TypeOK
  PROVE  /\ OwnerRef \subseteq Owner
         /\ BuildLease \subseteq Lease
         /\ \A l \in Lease : Adopted(l) \subseteq Lease
<1>0. revision \in Nat /\ revision + 1 \in Nat
  BY DEF TypeOK
<1>1. OwnerRef \subseteq Owner
  BY LocalTypes DEF OwnerRef, Owner, LeaderGroup
<1>2. BuildLease \subseteq Lease
  <2> SUFFICES ASSUME NEW g \in loc.name
               PROVE  [uid |-> revision + 1, rev |-> revision + 1,
                       holder |-> NoHolder, transitions |-> RetryPeriod,
                       owner |-> OwnerRef, label |-> g] \in Lease
    BY DEF BuildLease
  <2>1. RetryPeriod \in SUBSET Nat /\ g \in Group
    BY LocalTypes, GroupAssumption
  <2> QED
    BY <1>0, <1>1, <2>1 DEF Lease
<1>3. ASSUME NEW l \in Lease PROVE Adopted(l) \subseteq Lease
  <2> SUFFICES ASSUME NEW g \in loc.name
               PROVE  [l EXCEPT !.rev = revision + 1,
                                !.owner = IF @ = {} THEN OwnerRef ELSE @,
                                !.label = g] \in Lease
    BY DEF Adopted
  <2> QED
    BY <1>0, <1>1, LocalTypes DEF Lease
<1> QED
  BY <1>1, <1>2, <1>3

\* A write of a well-typed Lease.
LEMMA PutLeaseType ==
  ASSUME TypeOK, NEW new \in SUBSET Lease, PutLease(new)
  PROVE  /\ lease' \subseteq Lease
         /\ revision' \in Nat
         /\ leaseWatch' \in Seq(SUBSET Lease)
  BY AppendProperties DEF TypeOK, PutLease

\* A write of a well-typed LeaderGroup.
LEMMA PutGroupType ==
  ASSUME TypeOK, NEW g \in Group, NEW new \in SUBSET LeaderGroup,
         PutGroup(g, new)
  PROVE  /\ groups' \in [Group -> SUBSET LeaderGroup]
         /\ groupWatch' \in [Group -> Seq(SUBSET LeaderGroup)]
<1>1. groupWatch[g] \in Seq(SUBSET LeaderGroup)
  BY DEF TypeOK
<1>2. Append(groupWatch[g], new) \in Seq(SUBSET LeaderGroup)
  BY <1>1, AppendProperties
<1> QED
  BY <1>2 DEF TypeOK, PutGroup

\* An attempted write goes on, or ends the reconcile.
LEMMA AttemptType ==
  ASSUME TypeOK, NEW accepted, NEW new \in SUBSET Lease, Attempt(accepted, new)
  PROVE  /\ lease' \subseteq Lease
         /\ revision' \in Nat
         /\ leaseWatch' \in Seq(SUBSET Lease)
         /\ queue' \subseteq Group
         /\ timers' \subseteq Group
         /\ pc' \in {"idle", "status"}
         /\ loc' \in Locals
         /\ left' \in Nat
<1>1. CASE PutLease(new) /\ pc' = "status" /\ loc' = [loc EXCEPT !.lease = new]
           /\ UNCHANGED <<queue, timers, left>>
  <2>1. loc' \in Locals
    BY <1>1, LocalTypes DEF Locals
  <2> QED
    BY <1>1, <2>1, PutLeaseType DEF TypeOK
<1>2. ASSUME Fail
      PROVE  /\ queue' \subseteq Group /\ timers' \subseteq Group
             /\ pc' = "idle" /\ loc' \in Locals
  BY <1>2, LocalTypes DEF Fail, TypeOK
<1>3. ASSUME Spend PROVE left' \in Nat
  BY <1>3 DEF Spend, TypeOK
<1>4. CASE PutLease(new) /\ Fail /\ Spend
  BY <1>2, <1>3, <1>4, PutLeaseType
<1>5. CASE UNCHANGED <<lease, revision, leaseWatch>> /\ Fail
           /\ (Spend \/ UNCHANGED left)
  BY <1>2, <1>3, <1>5 DEF TypeOK
<1> QED
  BY <1>1, <1>4, <1>5 DEF Attempt

\* The status that a reconcile publishes is well typed.
LEMMA PublishedType ==
  ASSUME NEW x \in LeaderGroup, NEW l \in Lease
  PROVE  Published(x, l) \subseteq LeaderGroup
<1>1. x.status \in Status /\ x.rev \in Nat /\ x.rev + 1 \in Nat
  BY DEF LeaderGroup
<1>2. StatusFrom(l, x.status) \in Status
  BY <1>1 DEF StatusFrom, Status, Lease
<1> QED
  BY <1>1, <1>2 DEF Published, LeaderGroup

LEMMA TypeInit == Init => TypeOK
<1> SUFFICES ASSUME Init PROVE TypeOK
  OBVIOUS
<1>1. NewGroup(1) \in LeaderGroup
  BY DEF NewGroup, LeaderGroup, Status
<1>2. groups \in [Group -> SUBSET LeaderGroup]
  BY <1>1 DEF Init
<1>3. <<>> \in Seq(SUBSET Lease) /\ <<>> \in Seq(SUBSET LeaderGroup)
  OBVIOUS
<1>4. NoLocals \in Locals
  BY DEF NoLocals, Locals
<1> QED
  BY <1>2, <1>3, <1>4, GroupAssumption DEF Init, TypeOK

\* Every step of the controller keeps the types.
LEMMA TypeController == TypeOK /\ Controller => TypeOK'
<1> SUFFICES ASSUME TypeOK, Controller PROVE TypeOK'
  OBVIOUS
<1> USE DEF api, informer
<1>1. ASSUME NEW g \in Group, Reconcile(g)
      PROVE  TypeOK'
  <2> DEFINE read == [name |-> {g}, lg |-> groupView[g], lease |-> leaseView]
  <2>1. read \in Locals
    BY DEF TypeOK, Locals
  <2>2. loc' \in {loc, read}
    BY <1>1 DEF Reconcile
  <2>3. pc' \in {pc, "create", "update", "status", "cleanup"}
    BY <1>1 DEF Reconcile
  <2>4. queue' \subseteq Group
    BY <1>1 DEF Reconcile, TypeOK
  <2>5. UNCHANGED <<api, informer, timers, left>>
    BY <1>1 DEF Reconcile
  <2> QED
    BY <2>1, <2>2, <2>3, <2>4, <2>5 DEF TypeOK
<1>2. CASE CreateLease
  <2>1. Attempt(lease = {}, BuildLease)
    BY <1>2 DEF CreateLease
  <2>2. UNCHANGED <<groups, nextUid, leaseView, groupView, groupWatch>>
    BY <1>2 DEF CreateLease
  <2>3. BuildLease \in SUBSET Lease
    BY LeaseTypes
  <2> QED
    BY <2>1, <2>2, <2>3, AttemptType DEF TypeOK
<1>3. CASE UpdateLeaseMetadata
  <2> DEFINE new == UNION {Adopted(l) : l \in loc.lease}
  <2>1. Attempt(SameVersion, new)
    BY <1>3 DEF UpdateLeaseMetadata
  <2>2. UNCHANGED <<groups, nextUid, leaseView, groupView, groupWatch>>
    BY <1>3 DEF UpdateLeaseMetadata
  <2>3. new \in SUBSET Lease
    BY LeaseTypes, LocalTypes
  <2> HIDE DEF new
  <2> QED
    BY <2>1, <2>2, <2>3, AttemptType DEF TypeOK
<1>4. CASE UpdateStatusFromLease
  <2>1. PICK g \in loc.name, x \in loc.lg, l \in loc.lease : PublishStatus(g, x, l)
    BY <1>4 DEF UpdateStatusFromLease
  <2>2. /\ g \in Group
        /\ Published(x, l) \in SUBSET LeaderGroup
    BY LocalTypes, PublishedType
  <2>3. /\ groups' \in [Group -> SUBSET LeaderGroup]
        /\ groupWatch' \in [Group -> Seq(SUBSET LeaderGroup)]
    <3>1. CASE PutGroup(g, Published(x, l))
      BY <2>2, <3>1, PutGroupType
    <3>2. CASE UNCHANGED <<groups, groupWatch>>
      BY <3>2 DEF TypeOK
    <3> QED
      BY <2>1, <3>1, <3>2 DEF PublishStatus
  <2>4. /\ queue' \subseteq Group /\ timers' \subseteq Group
        /\ pc' = "idle" /\ loc' = NoLocals
    BY <2>1, LocalTypes DEF PublishStatus, DoneRequeueAfter, Fail, TypeOK
  <2>5. left' \in Nat
    BY <2>1 DEF PublishStatus, Spend, TypeOK
  <2>6. UNCHANGED <<lease, revision, nextUid, leaseView, leaseWatch, groupView>>
    BY <1>4 DEF UpdateStatusFromLease
  <2> QED
    BY <2>3, <2>4, <2>5, <2>6, LocalTypes DEF TypeOK
<1>5. CASE CleanupLease
  <2>1. /\ lease' \subseteq Lease /\ revision' \in Nat
        /\ leaseWatch' \in Seq(SUBSET Lease)
    <3>1. CASE PutLease({})
      BY <3>1, PutLeaseType
    <3>2. CASE UNCHANGED <<lease, revision, leaseWatch>>
      BY <3>2 DEF TypeOK
    <3> QED
      BY <1>5, <3>1, <3>2 DEF CleanupLease
  <2>2. /\ queue' \subseteq Group /\ timers' \subseteq Group
        /\ pc' = "idle" /\ loc' = NoLocals
    BY <1>5, LocalTypes DEF CleanupLease, Done, Fail, TypeOK
  <2>3. left' \in Nat
    BY <1>5 DEF CleanupLease, Spend, TypeOK
  <2>4. UNCHANGED <<groups, nextUid, leaseView, groupView, groupWatch>>
    BY <1>5 DEF CleanupLease
  <2> QED
    BY <2>1, <2>2, <2>3, <2>4, LocalTypes DEF TypeOK
<1> QED
  BY <1>1, <1>2, <1>3, <1>4, <1>5 DEF Controller

\* So do informers, timers and restarts.
LEMMA TypeInformer ==
  TypeOK /\ (Informer \/ Restart \/ \E g \in Group : TimerFires(g)) => TypeOK'
<1> SUFFICES ASSUME TypeOK, Informer \/ Restart \/ \E g \in Group : TimerFires(g)
             PROVE  TypeOK'
  OBVIOUS
<1> USE DEF api, informer
<1>0. \A l \in Lease : \A o \in l.owner : o.name \in Group
  BY DEF Lease, Owner
<1>1. CASE DeliverLease
  <2>1. leaseWatch \in Seq(SUBSET Lease) /\ leaseWatch # <<>>
    BY <1>1 DEF DeliverLease, TypeOK
  <2>2. Head(leaseWatch) \in SUBSET Lease /\ Tail(leaseWatch) \in Seq(SUBSET Lease)
    BY <2>1, HeadTailProperties
  <2>3. leaseView' \subseteq Lease /\ leaseWatch' \in Seq(SUBSET Lease)
    BY <1>1, <2>2 DEF DeliverLease
  <2>4. {o.name : o \in UNION {l.owner : l \in leaseView \cup leaseView'}}
          \subseteq Group
    BY <1>0, <2>3 DEF TypeOK
  <2>5. queue' \subseteq Group
    BY <1>1, <2>4 DEF DeliverLease, TypeOK
  <2> QED
    BY <1>1, <2>3, <2>5 DEF DeliverLease, TypeOK
<1>2. ASSUME NEW g \in Group, DeliverGroup(g)
      PROVE  TypeOK'
  <2>1. groupWatch[g] \in Seq(SUBSET LeaderGroup) /\ groupWatch[g] # <<>>
    BY <1>2 DEF DeliverGroup, TypeOK
  <2>2. /\ Head(groupWatch[g]) \in SUBSET LeaderGroup
        /\ Tail(groupWatch[g]) \in Seq(SUBSET LeaderGroup)
    BY <2>1, HeadTailProperties
  <2> QED
    BY <1>2, <2>2 DEF DeliverGroup, TypeOK
<1>3. ASSUME NEW g \in Group, TimerFires(g)
      PROVE  TypeOK'
  BY <1>3 DEF TimerFires, TypeOK
<1>4. CASE Restart
  <2>1. {o.name : o \in UNION {l.owner : l \in lease}} \subseteq Group
    BY <1>0 DEF TypeOK
  <2>2. queue' \subseteq Group
    BY <1>4, <2>1 DEF Restart
  <2>3. <<>> \in Seq(SUBSET Lease) /\ <<>> \in Seq(SUBSET LeaderGroup)
    OBVIOUS
  <2>4. left' \in Nat
    BY <1>4 DEF Restart, Spend, TypeOK
  <2> QED
    BY <1>4, <2>2, <2>3, <2>4, LocalTypes DEF Restart, TypeOK
<1> QED
  BY <1>1, <1>2, <1>3, <1>4 DEF Informer

\* So do the replicas' election, users and the garbage collector.
LEMMA TypeOutside ==
  ASSUME TypeOK,
         \/ Election
         \/ CollectLease
         \/ \E g \in Group : CreateGroup(g) \/ DeleteGroup(g) \/ FinalizeGroup(g)
  PROVE  TypeOK'
<1>0. revision \in Nat /\ revision + 1 \in Nat /\ nextUid \in Nat
  BY DEF TypeOK
<1>1. ASSUME NEW c \in Candidate, Acquire(c)
      PROVE  TypeOK'
  <2>1. PICK new \in SUBSET Lease : PutLease(new)
    <3>1. CASE lease = {}
      <4>1. [uid |-> revision + 1, rev |-> revision + 1, holder |-> c,
             transitions |-> {0}, owner |-> {}, label |-> NoLabel] \in Lease
        BY <1>0 DEF Lease
      <4> QED
        BY <1>1, <3>1, <4>1 DEF Acquire
    <3>2. CASE lease # {}
      <4>1. PICK l \in lease :
               PutLease({[l EXCEPT !.rev = revision + 1, !.holder = c,
                                   !.transitions = {Transitions(l) + 1}]})
        BY <1>1, <3>2 DEF Acquire
      <4>2. l \in Lease
        BY DEF TypeOK
      <4>3. {Transitions(l) + 1} \in SUBSET Nat
        BY <4>2 DEF Transitions, Lease
      <4>4. [l EXCEPT !.rev = revision + 1, !.holder = c,
                      !.transitions = {Transitions(l) + 1}] \in Lease
        BY <1>0, <4>2, <4>3 DEF Lease
      <4> QED
        BY <4>1, <4>4
    <3> QED
      BY <3>1, <3>2
  <2> QED
    BY <1>1, <2>1, PutLeaseType DEF Acquire, TypeOK
<1>2. ASSUME NEW c \in Candidate, RenewOrRelease(c)
      PROVE  TypeOK'
  <2>1. PICK l \in lease, h \in {c, NoHolder} :
           PutLease({[l EXCEPT !.rev = revision + 1, !.holder = h]})
    BY <1>2 DEF RenewOrRelease
  <2>2. {[l EXCEPT !.rev = revision + 1, !.holder = h]} \in SUBSET Lease
    BY <1>0 DEF TypeOK, Lease
  <2> QED
    BY <1>2, <2>1, <2>2, PutLeaseType DEF RenewOrRelease, TypeOK
<1>3. CASE CollectLease
  BY <1>3, PutLeaseType DEF CollectLease, TypeOK
<1>4. ASSUME NEW g \in Group, CreateGroup(g)
      PROVE  TypeOK'
  <2>1. {NewGroup(nextUid)} \in SUBSET LeaderGroup
    BY <1>0 DEF NewGroup, LeaderGroup, Status
  <2>2. PutGroup(g, {NewGroup(nextUid)})
    BY <1>4 DEF CreateGroup
  <2> QED
    BY <1>4, <2>1, <2>2, PutGroupType DEF CreateGroup, Spend, TypeOK
<1>5. ASSUME NEW g \in Group, DeleteGroup(g)
      PROVE  TypeOK'
  <2>1. PICK new \in SUBSET LeaderGroup : PutGroup(g, new)
    <3>1. PICK x \in groups[g] :
             \E new \in {{}, {[x EXCEPT !.rev = @ + 1, !.deleting = TRUE]}} :
                PutGroup(g, new)
      BY <1>5 DEF DeleteGroup
    <3>2. x \in LeaderGroup
      BY DEF TypeOK
    <3>3. [x EXCEPT !.rev = @ + 1, !.deleting = TRUE] \in LeaderGroup
      <4>1. x.rev + 1 \in Nat
        BY <3>2 DEF LeaderGroup
      <4> QED
        BY <3>2, <4>1 DEF LeaderGroup
    <3> QED
      BY <3>1, <3>3
  <2> QED
    BY <1>5, <2>1, PutGroupType DEF DeleteGroup, Spend, TypeOK
<1>6. ASSUME NEW g \in Group, FinalizeGroup(g)
      PROVE  TypeOK'
  <2>1. PutGroup(g, {})
    BY <1>6 DEF FinalizeGroup
  <2> QED
    BY <1>6, <2>1, PutGroupType DEF FinalizeGroup, TypeOK
<1> QED
  BY <1>1, <1>2, <1>3, <1>4, <1>5, <1>6 DEF Election

\* Every variable always holds a value of its type.
THEOREM TypeCorrect == Spec => []TypeOK
<1>1. TypeOK /\ UNCHANGED vars => TypeOK'
  BY DEF TypeOK, vars, api, informer
<1>2. TypeOK /\ [Next]_vars => TypeOK'
  BY <1>1, TypeController, TypeInformer, TypeOutside DEF Next
<1> QED
  BY <1>2, TypeInit, PTL DEF Spec

-----------------------------------------------------------------------------
(***************************************************************************)
(* Elections stand.  The controller writes a Lease back from a copy; the   *)
(* write is accepted only if the copy's version is the one at the API      *)
(* server.  The invariant says that a version identifies what was written: *)
(* a copy of the same version is the same Lease.                           *)
(***************************************************************************)

Single(S) == \A l, m \in S : l = m

\* S is a copy of a Lease of which L is the version at the API server, and r
\* the last version given.
CopyOf(S, L, r) ==
    /\ Single(S)
    /\ \A l \in S : /\ l.rev <= r /\ l.uid <= r
                    /\ Single(l.transitions)
                    /\ \A m \in L : l.rev = m.rev => l = m

LeaseInv ==
    /\ Single(loc.name)
    /\ CopyOf(lease, lease, revision)
    /\ CopyOf(loc.lease, lease, revision)
    /\ CopyOf(leaseView, lease, revision)
    /\ \A i \in 1 .. Len(leaseWatch) : CopyOf(leaseWatch[i], lease, revision)

\* After a write of a new version every copy is still a copy.
LEMMA CopyAfterWrite ==
  ASSUME NEW S \in SUBSET Lease, NEW L, NEW r \in Nat, CopyOf(S, L, r),
         NEW N \in SUBSET Lease, Single(N),
         \A n \in N : n.rev = r + 1 /\ n.uid <= r + 1 /\ Single(n.transitions)
  PROVE  CopyOf(S, N, r + 1) /\ CopyOf(N, N, r + 1)
<1>1. \A l \in S : l.rev \in Nat /\ l.uid \in Nat
  BY DEF Lease
<1> QED
  BY <1>1 DEF CopyOf, Single

\* A new version is of a new Lease, or of the one that was there, which is
\* handed over.
NewVersion(n) ==
    /\ n.rev = revision + 1
    /\ IF lease = {} THEN n.uid = revision + 1
                     ELSE \E l \in lease : l.uid = n.uid
    /\ Single(n.transitions)
    /\ \A l \in lease : HandedOver(l, n)

\* A version that the controller made from the copy that it read.
FromCopy(n) ==
    \/ n.uid = revision + 1
    \/ \E l \in loc.lease : l.uid = n.uid /\ l.transitions = n.transitions

\* What the steps that write the Lease have in common.
Write ==
    /\ \E new \in SUBSET Lease :
          /\ PutLease(new)
          /\ Single(new)
          /\ \A n \in new : NewVersion(n)
          /\ \/ loc'.lease \in {loc.lease, {}}
             \/ loc'.lease = new /\ \A n \in new : FromCopy(n)
    /\ loc'.name \in {loc.name, {}}
    /\ UNCHANGED leaseView

\* What the others have in common.
NoWrite ==
    /\ UNCHANGED <<lease, revision>>
    /\ loc'.lease \in {loc.lease, {}, leaseView}
    /\ Single(loc.name) => Single(loc'.name)
    /\ \/ UNCHANGED <<leaseView, leaseWatch>>
       \/ DeliverLease
       \/ leaseView' = lease /\ leaseWatch' = <<>>

\* An attempted write is one or the other.
LEMMA AttemptSteps ==
  ASSUME TypeOK, NEW accepted, NEW new \in SUBSET Lease, Attempt(accepted, new),
         Single(new), UNCHANGED leaseView,
         accepted => \A n \in new : NewVersion(n) /\ FromCopy(n)
  PROVE  Write \/ NoWrite
<1>1. CASE accepted /\ PutLease(new) /\ loc' = [loc EXCEPT !.lease = new]
  <2>1. loc'.lease = new /\ loc'.name = loc.name
    BY <1>1, LocalTypes DEF Locals
  <2> QED
    BY <1>1, <2>1 DEF Write
<1>2. CASE accepted /\ PutLease(new) /\ Fail
  BY <1>2 DEF Write, Fail, NoLocals
<1>3. CASE UNCHANGED <<lease, revision, leaseWatch>> /\ Fail
  BY <1>3 DEF NoWrite, Fail, NoLocals, Single
<1> QED
  BY <1>1, <1>2, <1>3 DEF Attempt

\* Every step of the controller is one or the other: updateLeaseMetadata changes
\* neither the holder nor the transitions of the Lease that it amends.
LEMMA ControllerSteps ==
  ASSUME TypeOK, LeaseInv, Controller
  PROVE  Write \/ NoWrite
<1> USE DEF api, informer
<1>1. ASSUME NEW g \in Group, Reconcile(g)
      PROVE  NoWrite
  <2> DEFINE read == [name |-> {g}, lg |-> groupView[g], lease |-> leaseView]
  <2>1. loc' \in {loc, read}
    BY <1>1 DEF Reconcile
  <2>2. UNCHANGED <<lease, revision, leaseView, leaseWatch>>
    BY <1>1 DEF Reconcile
  <2> QED
    BY <2>1, <2>2 DEF NoWrite, Single
<1>2. CASE CreateLease
  <2>1. Attempt(lease = {}, BuildLease) /\ UNCHANGED leaseView
    BY <1>2 DEF CreateLease
  <2>2. Single(BuildLease) /\ BuildLease \in SUBSET Lease
    BY LeaseTypes DEF BuildLease, LeaseInv, Single
  <2>3. lease = {} => \A n \in BuildLease : NewVersion(n) /\ FromCopy(n)
    <3>1. \A n \in BuildLease : /\ n.uid = revision + 1 /\ n.rev = revision + 1
                                /\ n.transitions = RetryPeriod
      BY DEF BuildLease
    <3>2. Single(RetryPeriod)
      BY GroupAssumption DEF GroupAssumption, Single
    <3> QED
      BY <3>1, <3>2 DEF NewVersion, FromCopy
  <2> QED
    BY <2>1, <2>2, <2>3, AttemptSteps
<1>3. CASE UpdateLeaseMetadata
  <2> DEFINE new == UNION {Adopted(l) : l \in loc.lease}
  <2>1. Attempt(SameVersion, new) /\ UNCHANGED leaseView
    BY <1>3 DEF UpdateLeaseMetadata
  <2>2. new \in SUBSET Lease
    BY LeaseTypes, LocalTypes
  <2>3. Single(new)
    <3>1. ASSUME NEW l \in loc.lease PROVE Single(Adopted(l))
      <4>1. \A g, h \in loc.name : g = h
        BY DEF LeaseInv, Single
      <4> QED
        BY <4>1 DEF Adopted, Single
    <3>2. \A l, m \in loc.lease : l = m
      BY DEF LeaseInv, CopyOf, Single
    <3> QED
      BY <3>1, <3>2 DEF Single
  <2>4. ASSUME SameVersion, NEW n \in new
        PROVE  NewVersion(n) /\ FromCopy(n)
    <3>1. PICK l \in loc.lease : n \in Adopted(l)
      OBVIOUS
    <3>2. l \in Lease
      BY LocalTypes
    <3>3. /\ n.rev = revision + 1
          /\ n.uid = l.uid
          /\ n.holder = l.holder
          /\ n.transitions = l.transitions
      BY <3>1, <3>2 DEF Adopted, Lease
    <3>4. l \in lease /\ \A m \in lease : m = l
      <4>1. \E m \in lease : m.rev = l.rev
        BY <2>4 DEF SameVersion
      <4> QED
        BY <4>1 DEF LeaseInv, CopyOf, Single
    <3>5. Single(n.transitions)
      BY <3>3 DEF LeaseInv, CopyOf
    <3> QED
      BY <3>3, <3>4, <3>5 DEF HandedOver, NewVersion, FromCopy
  <2> HIDE DEF new
  <2> QED
    BY <2>1, <2>2, <2>3, <2>4, AttemptSteps
<1>4. CASE UpdateStatusFromLease
  <2>1. loc' = NoLocals
    BY <1>4
    DEF UpdateStatusFromLease, PublishStatus, DoneRequeueAfter, Fail
  <2> QED
    BY <1>4, <2>1 DEF UpdateStatusFromLease, NoWrite, NoLocals, Single
<1>5. CASE CleanupLease
  <2>1. loc' = NoLocals /\ UNCHANGED leaseView
    BY <1>5 DEF CleanupLease, Done, Fail
  <2>2. CASE PutLease({})
    BY <2>1, <2>2 DEF Write, NoLocals, Single
  <2>3. CASE UNCHANGED <<lease, revision, leaseWatch>>
    BY <2>1, <2>3 DEF NoWrite, NoLocals, Single
  <2> QED
    BY <1>5, <2>2, <2>3 DEF CleanupLease
<1> QED
  BY <1>1, <1>2, <1>3, <1>4, <1>5 DEF Controller

\* So is every other step.
LEMMA OtherSteps ==
  ASSUME TypeOK, LeaseInv, Next, ~Controller
  PROVE  Write \/ NoWrite
<1> USE DEF api, informer
<1>0. revision \in Nat /\ \A l \in lease : l \in Lease
  BY DEF TypeOK
<1>1. CASE Informer
  BY <1>1 DEF Informer, DeliverGroup, DeliverLease, NoWrite
<1>2. ASSUME NEW c \in Candidate, Acquire(c)
      PROVE  Write
  <2>1. UNCHANGED <<loc, leaseView>>
    BY <1>2 DEF Acquire
  <2>2. CASE lease = {}
    <3> DEFINE new == [uid |-> revision + 1, rev |-> revision + 1, holder |-> c,
                       transitions |-> {0}, owner |-> {}, label |-> NoLabel]
    <3>1. PutLease({new})
      BY <1>2, <2>2 DEF Acquire
    <3>2. /\ new \in Lease /\ new.rev = revision + 1
          /\ new.uid = revision + 1 /\ new.transitions = {0}
      BY <1>0 DEF Lease
    <3> HIDE DEF new
    <3>3. {new} \in SUBSET Lease /\ Single({new})
      BY <3>2 DEF Single
    <3>4. \A n \in {new} : NewVersion(n)
      BY <2>2, <3>2 DEF NewVersion, Single
    <3> QED
      BY <2>1, <3>1, <3>3, <3>4 DEF Write
  <2>3. CASE lease # {}
    <3>1. PICK l \in lease :
             /\ l.holder # c
             /\ PutLease({[l EXCEPT !.rev = revision + 1, !.holder = c,
                                    !.transitions = {Transitions(l) + 1}]})
      BY <1>2, <2>3 DEF Acquire
    <3> DEFINE new == [l EXCEPT !.rev = revision + 1, !.holder = c,
                                !.transitions = {Transitions(l) + 1}]
    <3>2. l \in Lease /\ {Transitions(l) + 1} \in SUBSET Nat
      BY <1>0 DEF Transitions, Lease
    <3>3. /\ new \in Lease
          /\ new.rev = revision + 1
          /\ new.uid = l.uid
          /\ new.holder = c
          /\ new.transitions = {Transitions(l) + 1}
      <4> DEFINE n == {Transitions(l) + 1}
      <4>1. n \in SUBSET Nat /\ revision + 1 \in Nat
        BY <1>0, <3>2
      <4> HIDE DEF n
      <4>2. LET new2 == [l EXCEPT !.rev = revision + 1, !.holder = c,
                                  !.transitions = n]
            IN  /\ new2 \in Lease
                /\ new2.rev = revision + 1
                /\ new2.uid = l.uid
                /\ new2.holder = c
                /\ new2.transitions = n
        BY <3>2, <4>1 DEF Lease
      <4> QED
        BY <4>2 DEF n
    <3>4. \A m \in lease : HandedOver(m, new)
      BY <3>1, <3>3 DEF LeaseInv, CopyOf, Single, HandedOver
    <3> HIDE DEF new
    <3>5. PutLease({new})
      BY <3>1 DEF new
    <3>6. NewVersion(new)
      BY <3>3, <3>4 DEF NewVersion, Single
    <3> QED
      BY <2>1, <3>3, <3>5, <3>6 DEF Write, Single
  <2> QED
    BY <2>2, <2>3
<1>3. ASSUME NEW c \in Candidate, RenewOrRelease(c)
      PROVE  Write
  <2>1. UNCHANGED <<loc, leaseView>>
    BY <1>3 DEF RenewOrRelease
  <2>2. PICK l \in lease :
           /\ l.holder = c
           /\ \E h \in {c, NoHolder} :
                 PutLease({[l EXCEPT !.rev = revision + 1, !.holder = h]})
    BY <1>3 DEF RenewOrRelease
  <2>3. PICK h \in {c, NoHolder} :
           PutLease({[l EXCEPT !.rev = revision + 1, !.holder = h]})
    BY <2>2
  <2> DEFINE new == [l EXCEPT !.rev = revision + 1, !.holder = h]
  <2>4. /\ new \in Lease
        /\ new.rev = revision + 1
        /\ new.uid = l.uid
        /\ new.holder = h
        /\ new.transitions = l.transitions
    <3>1. l \in Lease /\ h \in Candidate \cup {NoHolder} /\ revision + 1 \in Nat
      BY <1>0
    <3> QED
      BY <3>1 DEF Lease
  <2>5. \A m \in lease : HandedOver(m, new)
    BY <2>2, <2>4 DEF LeaseInv, CopyOf, Single, HandedOver
  <2> HIDE DEF new
  <2>6. PutLease({new})
    BY <2>3 DEF new
  <2>7. NewVersion(new)
    BY <2>4, <2>5 DEF NewVersion, LeaseInv, CopyOf
  <2> QED
    BY <2>1, <2>4, <2>6, <2>7 DEF Write, Single
<1>4. CASE CollectLease
  BY <1>4 DEF CollectLease, Write, Single
<1>5. CASE \E g \in Group : TimerFires(g) \/ CreateGroup(g) \/ DeleteGroup(g)
                                \/ FinalizeGroup(g)
  BY <1>5 DEF TimerFires, CreateGroup, DeleteGroup, FinalizeGroup, NoWrite
<1>6. CASE Restart
  BY <1>6 DEF Restart, NoWrite, NoLocals, Single
<1> QED
  BY <1>1, <1>2, <1>3, <1>4, <1>5, <1>6 DEF Next, Election

\* Both keep the invariant.
LEMMA WriteKeepsCopies ==
  ASSUME TypeOK, LeaseInv, Write
  PROVE  LeaseInv'
<1>1. PICK new \in SUBSET Lease :
         /\ PutLease(new)
         /\ Single(new)
         /\ \A n \in new : NewVersion(n)
         /\ loc'.lease \in {loc.lease, {}, new}
  BY DEF Write
<1>2. /\ lease' = new /\ revision' = revision + 1
      /\ leaseWatch' = Append(leaseWatch, new)
  BY <1>1 DEF PutLease
<1>3. /\ revision \in Nat
      /\ loc.lease \in SUBSET Lease
      /\ leaseView \in SUBSET Lease
      /\ lease \in SUBSET Lease
      /\ leaseWatch \in Seq(SUBSET Lease)
  BY LocalTypes DEF TypeOK
<1>3a. \A n \in new : /\ n.rev = revision + 1 /\ n.uid <= revision + 1
                     /\ Single(n.transitions)
  <2>1. \A l \in lease : l.uid <= revision + 1
    BY <1>3 DEF LeaseInv, CopyOf, Lease
  <2> QED
    BY <1>1, <1>3, <2>1 DEF NewVersion
<1>4. CopyOf(new, new, revision + 1) /\ CopyOf({}, new, revision + 1)
  BY <1>3a, <1>1, <1>3, CopyAfterWrite DEF LeaseInv, CopyOf, Single
<1>5. CopyOf(loc.lease, new, revision + 1)
  BY <1>3a, <1>1, <1>3, CopyAfterWrite DEF LeaseInv
<1>6. CopyOf(leaseView, new, revision + 1)
  BY <1>3a, <1>1, <1>3, CopyAfterWrite DEF LeaseInv
<1>7. \A i \in 1 .. Len(leaseWatch) :
         CopyOf(leaseWatch[i], new, revision + 1)
  <2>1. \A i \in 1 .. Len(leaseWatch) : leaseWatch[i] \in SUBSET Lease
    BY <1>3
  <2> QED
    BY <1>3a, <1>1, <1>3, <2>1, CopyAfterWrite DEF LeaseInv
<1>8. \A i \in 1 .. Len(leaseWatch') :
         CopyOf(leaseWatch'[i], new, revision + 1)
  BY <1>2, <1>3, <1>4, <1>7, AppendProperties
<1>9. Single(loc'.name) /\ leaseView' = leaseView
  BY DEF Write, LeaseInv, Single
<1>10. CopyOf(loc'.lease, new, revision + 1)
  BY <1>1, <1>4, <1>5
<1> QED
  BY <1>2, <1>4, <1>6, <1>8, <1>9, <1>10 DEF LeaseInv, Single, CopyOf

LEMMA NoWriteKeepsCopies ==
  ASSUME TypeOK, LeaseInv, NoWrite
  PROVE  LeaseInv'
<1> DEFINE Copy(S) == CopyOf(S, lease, revision)
<1>1. Copy(lease) /\ Copy(leaseView) /\ Copy(loc.lease) /\ Copy({})
  BY DEF LeaseInv, CopyOf, Single
<1>2. Copy(loc'.lease) /\ Single(loc'.name)
  BY <1>1 DEF NoWrite, LeaseInv
<1>3. Copy(leaseView') /\ \A i \in 1 .. Len(leaseWatch') : Copy(leaseWatch'[i])
  <2>1. CASE UNCHANGED <<leaseView, leaseWatch>>
    BY <1>1, <2>1 DEF LeaseInv
  <2>2. CASE DeliverLease
    <3>1. leaseWatch \in Seq(SUBSET Lease) /\ leaseWatch # <<>>
      BY <2>2 DEF DeliverLease, TypeOK
    <3>2. /\ Len(leaseWatch) \in Nat /\ Len(leaseWatch) # 0
          /\ Head(leaseWatch) = leaseWatch[1]
          /\ Len(Tail(leaseWatch)) = Len(leaseWatch) - 1
          /\ \A i \in 1 .. Len(Tail(leaseWatch)) :
                Tail(leaseWatch)[i] = leaseWatch[i + 1]
      BY <3>1, HeadTailProperties, EmptySeq, LenProperties
    <3>3. leaseView' = Head(leaseWatch) /\ leaseWatch' = Tail(leaseWatch)
      BY <2>2 DEF DeliverLease
    <3> QED
      BY <3>2, <3>3 DEF LeaseInv
  <2>3. CASE leaseView' = lease /\ leaseWatch' = <<>>
    BY <1>1, <2>3
  <2> QED
    BY <2>1, <2>2, <2>3 DEF NoWrite
<1>4. UNCHANGED <<lease, revision>>
  BY DEF NoWrite
<1> QED
  BY <1>1, <1>2, <1>3, <1>4 DEF LeaseInv, CopyOf, Single

LEMMA LeaseInvariant == Spec => [](TypeOK /\ LeaseInv)
<1>1. Init => TypeOK /\ LeaseInv
  BY TypeInit DEF Init, NoLocals, LeaseInv, CopyOf, Single
<1>2. TypeOK /\ LeaseInv /\ [Next]_vars => (TypeOK /\ LeaseInv)'
  <2>1. TypeOK /\ LeaseInv /\ UNCHANGED vars => (TypeOK /\ LeaseInv)'
    BY DEF TypeOK, LeaseInv, CopyOf, Single, vars, api, informer
  <2>2. TypeOK /\ Next => TypeOK'
    BY TypeController, TypeInformer, TypeOutside DEF Next
  <2> QED
    BY <2>1, <2>2, ControllerSteps, OtherSteps, WriteKeepsCopies,
       NoWriteKeepsCopies
<1> QED
  BY <1>1, <1>2, PTL DEF Spec

\* While a Lease lives its holder changes by a release or a counted take-over
\* only: the controller, which writes the whole Lease back from a copy of any
\* age, never undoes what the replicas' election did (updateLeaseMetadata).
THEOREM ControllerRespectsElections == Spec => ElectionsStand
<1>1. TypeOK /\ LeaseInv /\ [Next]_vars =>
          [\A l \in lease, m \in lease' : l.uid = m.uid => HandedOver(l, m)]_vars
  <2> SUFFICES ASSUME TypeOK, LeaseInv, Next,
                      NEW l \in lease, NEW m \in lease'
               PROVE  HandedOver(l, m)
    OBVIOUS
  <2>1. CASE Write
    <3>1. \A n \in lease' : HandedOver(l, n)
      BY <2>1 DEF Write, NewVersion, PutLease
    <3> QED
      BY <3>1
  <2>2. CASE NoWrite
    BY <2>2 DEF NoWrite, LeaseInv, CopyOf, Single, HandedOver
  <2> QED
    BY <2>1, <2>2, ControllerSteps, OtherSteps
<1> QED
  BY <1>1, LeaseInvariant, PTL DEF Spec, ElectionsStand

-----------------------------------------------------------------------------
(***************************************************************************)
(* The controller and the replicas implement FencedLease.                  *)
(***************************************************************************)

\* The Lease as FencedLease sees it.
Fenced(l) == [id |-> l.uid, holder |-> l.holder, term |-> Transitions(l)]

\* A write of the Lease founds it, passes it on, gives it up or removes it.
LEMMA FencedWrite ==
  ASSUME TypeOK, LeaseInv, Write
  PROVE  FL!Next
<1>0. revision \in Nat /\ \A l \in lease : l \in Lease
  BY DEF TypeOK
<1>1. PICK new \in SUBSET Lease : /\ PutLease(new)
                                 /\ Single(new)
                                 /\ \A n \in new : NewVersion(n)
  BY DEF Write
<1>2. lease' = new /\ revision' = revision + 1 /\ revision <= revision'
  BY <1>0, <1>1 DEF PutLease
<1> DEFINE lock(S) == {Fenced(l) : l \in S}
<1>3. CASE new = {}
  BY <1>2, <1>3 DEF FL!Next, FL!Remove
<1>4. ASSUME NEW n \in new, lease = {}
      PROVE  FL!Next
  <2>1. new = {n} /\ n.uid = revision + 1 /\ n.holder \in Candidate \cup {NoHolder}
    BY <1>1, <1>4 DEF Single, NewVersion, Lease
  <2>2. lock(lease) = {} /\ lock(new) = {Fenced(n)}
    BY <1>4, <2>1
  <2>3. /\ Fenced(n).id \in (revision + 1) .. revision'
        /\ Fenced(n).holder \in Candidate \cup {NoHolder}
    BY <1>0, <1>2, <2>1 DEF Fenced
  <2> QED
    BY <1>2, <2>2, <2>3 DEF FL!Next, FL!Found, Fenced
<1>5. ASSUME NEW n \in new, NEW l \in lease
      PROVE  FL!Next
  <2>1. /\ new = {n} /\ lease = {l}
        /\ n \in Lease /\ l \in Lease
        /\ n.uid = l.uid /\ HandedOver(l, n)
    BY <1>0, <1>1, <1>5 DEF LeaseInv, CopyOf, Single, NewVersion
  <2>2. lock(lease) = {Fenced(l)} /\ lock(new) = {Fenced(n)}
    BY <2>1
  <2>3. CASE n.holder \in {l.holder, NoHolder} /\ n.transitions = l.transitions
    <3>1. Transitions(n) = Transitions(l)
      BY <2>3 DEF Transitions
    <3>2. CASE n.holder = l.holder
      BY <1>2, <2>1, <2>2, <3>1, <3>2 DEF FL!Next, Fenced
    <3>3. CASE n.holder = NoHolder
      BY <1>2, <2>1, <2>2, <3>1, <3>3 DEF FL!Next, FL!Release, Fenced
    <3> QED
      BY <2>3, <3>2, <3>3
  <2>4. CASE /\ n.holder \in Candidate \ {l.holder}
             /\ n.transitions = {Transitions(l) + 1}
    <3>1. Transitions(n) = Transitions(l) + 1
      BY <2>4 DEF Transitions
    <3>2. /\ Fenced(l).id = n.uid /\ Fenced(l).holder # n.holder
          /\ Fenced(l).term + 1 = Transitions(n)
      BY <2>1, <2>4, <3>1 DEF Fenced
    <3>3. Fenced(n) = [id |-> Fenced(l).id, holder |-> n.holder,
                       term |-> Fenced(l).term + 1]
      BY <3>2 DEF Fenced
    <3>4. FL!TakeOver(n.holder)
      BY <1>2, <2>2, <3>2, <3>3 DEF FL!TakeOver, Fenced
    <3> QED
      BY <1>2, <2>4, <3>4 DEF FL!Next
  <2> QED
    BY <2>1, <2>3, <2>4 DEF HandedOver
<1> QED
  BY <1>3, <1>4, <1>5

\* Whatever copies the controller writes back, and whatever is lost, late or
\* crashed: a Lease that is gone never comes back, and one that lives passes from
\* holder to holder with a term that counts the take-overs.
THEOREM ImplementsFencedLease == Spec => LeaseIsFenced
<1>1. Init => FL!Init
  BY DEF Init, FL!Init
<1>2. TypeOK /\ LeaseInv /\ [Next]_vars => [FL!Next]_FL!vars
  <2>1. CASE UNCHANGED <<lease, revision>>
    <3>1. UNCHANGED FL!vars
      BY <2>1 DEF FL!vars, Transitions
    <3> QED
      BY <3>1
  <2>2. ASSUME TypeOK, LeaseInv, Next
        PROVE  FL!Next \/ UNCHANGED <<lease, revision>>
    BY <2>2, ControllerSteps, OtherSteps, FencedWrite DEF NoWrite
  <2> QED
    BY <2>1, <2>2 DEF vars, api
<1> QED
  BY <1>1, <1>2, LeaseInvariant, PTL DEF Spec, LeaseIsFenced, FL!Spec

-----------------------------------------------------------------------------
(***************************************************************************)
(* The fencing token grows.  While a Lease lives its transitions only      *)
(* grow, and copies of it arrive in order: what a reconcile reads is older *)
(* than the informer's copy, which is older than what the watch still has  *)
(* to deliver, which is older than the Lease.  A token that was published  *)
(* is therefore not above any copy that can be published later.            *)
(***************************************************************************)

\* S is not ahead of T where both are versions of one Lease.
Before(S, T) ==
    \A l \in S, m \in T : l.uid = m.uid => Transitions(l) <= Transitions(m)

OrderInv ==
    /\ Before(loc.lease, leaseView)
    /\ Before(loc.lease, lease)
    /\ Before(leaseView, lease)
    /\ \A i \in 1 .. Len(leaseWatch) :
          /\ Before(loc.lease, leaseWatch[i])
          /\ Before(leaseView, leaseWatch[i])
          /\ Before(leaseWatch[i], lease)
          /\ \A j \in i .. Len(leaseWatch) : Before(leaseWatch[i], leaseWatch[j])

\* No token of the status is above a copy in S of the Lease it came from.
Covers(S, status) ==
    \A l \in S : l.uid = status.of =>
        \A n \in status.token : n <= Transitions(l)

TokenInv ==
    \A g \in Group : \A x \in groups[g] :
        /\ x.status.of <= revision
        /\ Single(x.status.token)
        /\ Covers(lease, x.status)
        /\ Covers(leaseView, x.status)
        /\ Covers(loc.lease, x.status)
        /\ \A i \in 1 .. Len(leaseWatch) : Covers(leaseWatch[i], x.status)

\* S is a copy of a LeaderGroup of which G is the version at the API server, and
\* u the next UID.
GroupCopy(S, G, u) ==
    /\ Single(S)
    /\ \A x \in S : /\ x.uid < u
                    /\ \A y \in G : x.uid = y.uid =>
                          /\ x.rev <= y.rev
                          /\ x.rev = y.rev => x = y

GroupInv ==
    \A g \in Group :
        /\ GroupCopy(groups[g], groups[g], nextUid)
        /\ GroupCopy(groupView[g], groups[g], nextUid)
        /\ \A i \in 1 .. Len(groupWatch[g]) :
              GroupCopy(groupWatch[g][i], groups[g], nextUid)
        /\ g \in loc.name => GroupCopy(loc.lg, groups[g], nextUid)

(***************************************************************************)
(* The order of the copies of the Lease.                                   *)
(***************************************************************************)

LEMMA TransitionsType ==
  ASSUME NEW l \in Lease
  PROVE  Transitions(l) \in Nat
  BY DEF Transitions, Lease

LEMMA HandedOverGrows ==
  ASSUME NEW l \in Lease, NEW m \in Lease, HandedOver(l, m)
  PROVE  Transitions(l) <= Transitions(m)
<1>1. Transitions(l) \in Nat
  BY TransitionsType
<1>2. CASE m.transitions = l.transitions
  <2>1. Transitions(m) = Transitions(l)
    BY <1>2 DEF Transitions
  <2> QED
    BY <1>1, <2>1
<1>3. CASE m.transitions = {Transitions(l) + 1}
  <2>1. Transitions(m) = Transitions(l) + 1
    BY <1>3 DEF Transitions
  <2> QED
    BY <1>1, <2>1
<1> QED
  BY <1>2, <1>3 DEF HandedOver

\* The copies of a Lease that there are.
LEMMA Copies ==
  ASSUME TypeOK, LeaseInv
  PROVE  /\ \A l \in lease \cup leaseView \cup loc.lease :
               l \in Lease /\ l.uid <= revision
         /\ \A i \in 1 .. Len(leaseWatch) : \A l \in leaseWatch[i] :
               l \in Lease /\ l.uid <= revision
         /\ revision \in Nat
         /\ Before(lease, lease) /\ Before(leaseView, leaseView)
  <1>1. leaseWatch \in Seq(SUBSET Lease)
    BY DEF TypeOK
  <1>2. \A i \in 1 .. Len(leaseWatch) : leaseWatch[i] \in SUBSET Lease
    BY <1>1
  <1>3. \A l \in lease \cup leaseView \cup loc.lease : l \in Lease
    BY LocalTypes DEF TypeOK
  <1>4. Before(lease, lease) /\ Before(leaseView, leaseView)
    BY <1>3, TransitionsType DEF LeaseInv, CopyOf, Single, Before
  <1> QED
    BY <1>2, <1>3, <1>4 DEF TypeOK, LeaseInv, CopyOf

\* What is not ahead of the Lease is not ahead of its new version.
LEMMA BeforeNew ==
  ASSUME TypeOK, LeaseInv, NEW S, \A l \in S : l \in Lease /\ l.uid <= revision,
         Before(S, lease),
         NEW new \in SUBSET Lease, \A n \in new : NewVersion(n)
  PROVE  Before(S, new)
<1> SUFFICES ASSUME NEW l \in S, NEW n \in new, l.uid = n.uid
             PROVE  Transitions(l) <= Transitions(n)
  BY DEF Before
<1>1. PICK m \in lease : m.uid = n.uid
  <2>1. l.uid \in Nat /\ revision \in Nat
    BY DEF Lease, TypeOK
  <2> QED
    BY <2>1 DEF NewVersion
<1>2. l \in Lease /\ m \in Lease /\ n \in Lease
  BY Copies
<1>3. Transitions(l) <= Transitions(m)
  BY <1>1 DEF Before
<1>4. Transitions(m) <= Transitions(n)
  BY <1>2, HandedOverGrows DEF NewVersion
<1> QED
  BY <1>2, <1>3, <1>4, TransitionsType

\* A version that the controller made is not ahead where its copy was not.
LEMMA FromCopyBefore ==
  ASSUME TypeOK, LeaseInv, NEW T, \A l \in T : l \in Lease /\ l.uid <= revision,
         Before(loc.lease, T), NEW new, \A n \in new : FromCopy(n)
  PROVE  Before(new, T)
<1> SUFFICES ASSUME NEW n \in new, NEW m \in T, n.uid = m.uid
             PROVE  Transitions(n) <= Transitions(m)
  BY DEF Before
<1>1. PICK l \in loc.lease : l.uid = n.uid /\ l.transitions = n.transitions
  <2>1. m.uid \in Nat /\ revision \in Nat
    BY DEF Lease, TypeOK
  <2> QED
    BY <2>1 DEF FromCopy
<1>2. Transitions(n) = Transitions(l)
  BY <1>1 DEF Transitions
<1> QED
  BY <1>1, <1>2 DEF Before

LEMMA WriteKeepsOrder ==
  ASSUME TypeOK, LeaseInv, OrderInv, Write
  PROVE  OrderInv'
<1>1. PICK new \in SUBSET Lease :
         /\ PutLease(new)
         /\ Single(new)
         /\ \A n \in new : NewVersion(n)
         /\ \/ loc'.lease \in {loc.lease, {}}
            \/ loc'.lease = new /\ \A n \in new : FromCopy(n)
  BY DEF Write
<1>2. /\ lease' = new /\ leaseView' = leaseView
      /\ leaseWatch' = Append(leaseWatch, new)
      /\ leaseWatch \in Seq(SUBSET Lease)
  BY <1>1 DEF PutLease, Write, TypeOK
<1>3. Before(loc.lease, new) /\ Before(leaseView, new) /\ Before(lease, new)
  BY <1>1, Copies, BeforeNew DEF OrderInv
<1>4. \A i \in 1 .. Len(leaseWatch) : Before(leaseWatch[i], new)
  BY <1>1, Copies, BeforeNew DEF OrderInv
<1>5. Before(new, new)
  BY <1>1, TransitionsType DEF Before, Single
<1>6. /\ Len(leaseWatch') = Len(leaseWatch) + 1
      /\ \A i \in 1 .. Len(leaseWatch) : leaseWatch'[i] = leaseWatch[i]
      /\ leaseWatch'[Len(leaseWatch) + 1] = new
      /\ Len(leaseWatch) \in Nat
  BY <1>2, AppendProperties
<1>7. /\ Before(loc'.lease, new)
      /\ Before(loc'.lease, leaseView)
      /\ \A i \in 1 .. Len(leaseWatch) : Before(loc'.lease, leaseWatch[i])
  <2>1. CASE loc'.lease = loc.lease
    BY <1>3, <2>1 DEF OrderInv
  <2>2. CASE loc'.lease = {}
    BY <2>2 DEF Before
  <2>3. CASE loc'.lease = new /\ \A n \in new : FromCopy(n)
    <3>1. Before(new, leaseView)
      BY <2>3, Copies, FromCopyBefore DEF OrderInv
    <3>2. \A i \in 1 .. Len(leaseWatch) : Before(new, leaseWatch[i])
      BY <2>3, Copies, FromCopyBefore DEF OrderInv
    <3> QED
      BY <1>5, <2>3, <3>1, <3>2
  <2> QED
    BY <1>1, <2>1, <2>2, <2>3
<1>8. ASSUME NEW i \in 1 .. Len(leaseWatch')
      PROVE  /\ Before(loc'.lease, leaseWatch'[i])
             /\ Before(leaseView', leaseWatch'[i])
             /\ Before(leaseWatch'[i], lease')
             /\ \A j \in i .. Len(leaseWatch') :
                   Before(leaseWatch'[i], leaseWatch'[j])
  <2>1. CASE i = Len(leaseWatch) + 1
    <3>1. leaseWatch'[i] = new
      BY <1>6, <2>1
    <3>2. \A j \in i .. Len(leaseWatch') : j = i
      BY <1>6, <2>1
    <3> QED
      BY <1>2, <1>3, <1>5, <1>7, <3>1, <3>2
  <2>2. CASE i \in 1 .. Len(leaseWatch)
    <3>1. leaseWatch'[i] = leaseWatch[i]
      BY <1>6, <2>2
    <3>2. ASSUME NEW j \in i .. Len(leaseWatch')
          PROVE  Before(leaseWatch[i], leaseWatch'[j])
      <4>1. CASE j = Len(leaseWatch) + 1
        BY <1>4, <1>6, <2>2, <4>1
      <4>2. CASE j \in i .. Len(leaseWatch)
        <5>1. leaseWatch'[j] = leaseWatch[j]
          BY <1>6, <2>2, <4>2
        <5> QED
          BY <2>2, <4>2, <5>1 DEF OrderInv
      <4> QED
        BY <1>6, <2>2, <4>1, <4>2
    <3> QED
      BY <1>2, <1>4, <1>7, <2>2, <3>1, <3>2 DEF OrderInv
  <2> QED
    BY <1>6, <2>1, <2>2
<1> QED
  BY <1>2, <1>3, <1>7, <1>8 DEF OrderInv, Before

LEMMA NoWriteKeepsOrder ==
  ASSUME TypeOK, LeaseInv, OrderInv, NoWrite
  PROVE  OrderInv'
<1>1. lease' = lease
  BY DEF NoWrite
<1>2. \A T : Before({}, T)
  BY DEF Before
<1>3. /\ Before(loc'.lease, leaseView)
      /\ Before(loc'.lease, lease)
      /\ \A i \in 1 .. Len(leaseWatch) : Before(loc'.lease, leaseWatch[i])
  BY <1>2, Copies DEF NoWrite, OrderInv
<1>4. CASE UNCHANGED <<leaseView, leaseWatch>>
  BY <1>1, <1>3, <1>4 DEF OrderInv, Before
<1>5. CASE DeliverLease
  <2>1. leaseWatch \in Seq(SUBSET Lease) /\ leaseWatch # <<>>
    BY <1>5 DEF DeliverLease, TypeOK
  <2>2. /\ Len(leaseWatch) \in Nat /\ Len(leaseWatch) # 0
        /\ Head(leaseWatch) = leaseWatch[1]
        /\ Len(Tail(leaseWatch)) = Len(leaseWatch) - 1
        /\ \A i \in 1 .. Len(Tail(leaseWatch)) :
              Tail(leaseWatch)[i] = leaseWatch[i + 1]
    BY <2>1, HeadTailProperties, EmptySeq, LenProperties
  <2>3. leaseView' = leaseWatch[1] /\ leaseWatch' = Tail(leaseWatch)
    BY <1>5, <2>2 DEF DeliverLease
  <2>4. 1 \in 1 .. Len(leaseWatch)
    BY <2>2
  <2>5. ASSUME NEW i \in 1 .. Len(leaseWatch')
        PROVE  /\ i + 1 \in 1 .. Len(leaseWatch)
               /\ leaseWatch'[i] = leaseWatch[i + 1]
               /\ \A j \in i .. Len(leaseWatch') :
                     /\ j + 1 \in (i + 1) .. Len(leaseWatch)
                     /\ leaseWatch'[j] = leaseWatch[j + 1]
    BY <2>2, <2>3
  <2>6. ASSUME NEW i \in 1 .. Len(leaseWatch')
        PROVE  /\ Before(loc'.lease, leaseWatch'[i])
               /\ Before(leaseView', leaseWatch'[i])
               /\ Before(leaseWatch'[i], lease)
               /\ \A j \in i .. Len(leaseWatch') :
                     Before(leaseWatch'[i], leaseWatch'[j])
    <3>1. i + 1 \in 1 .. Len(leaseWatch)
      BY <2>5
    <3> QED
      BY <1>3, <2>3, <2>4, <2>5, <3>1 DEF OrderInv
  <2>7. Before(loc'.lease, leaseView') /\ Before(leaseView', lease)
    BY <1>3, <2>3, <2>4 DEF OrderInv
  <2> QED
    BY <1>1, <1>3, <2>6, <2>7 DEF OrderInv, Before
<1>6. CASE leaseView' = lease /\ leaseWatch' = <<>>
  BY <1>1, <1>3, <1>6, Copies DEF OrderInv, Before
<1> QED
  BY <1>4, <1>5, <1>6 DEF NoWrite

(***************************************************************************)
(* The copies of a LeaderGroup.                                            *)
(***************************************************************************)

\* y is the next version of x; a status is published from the Lease that the
\* reconcile read.
NextVersion(x, y) ==
    /\ y.uid = x.uid
    /\ y.rev = x.rev + 1
    /\ \/ y.status = x.status
       \/ \E l \in loc.lease : y.status = StatusFrom(l, x.status)

\* What the steps that write a LeaderGroup have in common.
GroupWrite ==
    /\ \E g \in Group, new \in SUBSET LeaderGroup :
          /\ PutGroup(g, new)
          /\ Single(new)
          /\ \A y \in new : \/ y = NewGroup(nextUid) /\ nextUid' = nextUid + 1
                            \/ \E x \in groups[g] : NextVersion(x, y)
    /\ nextUid' \in {nextUid, nextUid + 1}
    /\ UNCHANGED <<lease, revision, leaseView, leaseWatch, groupView>>
    /\ loc' \in {loc, NoLocals}

\* What the others have in common.
GroupRead ==
    /\ UNCHANGED <<groups, nextUid>>
    /\ \/ UNCHANGED <<groupView, groupWatch>>
       \/ \E g \in Group : DeliverGroup(g)
       \/ groupView' = groups /\ groupWatch' = [g \in Group |-> <<>>]
    /\ \/ loc'.name = {}
       \/ loc'.name = loc.name /\ loc'.lg = loc.lg
       \/ \E g \in Group : loc'.name = {g} /\ loc'.lg = groupView[g]

LEMMA PublishSteps ==
  ASSUME TypeOK, LeaseInv, GroupInv, UpdateStatusFromLease
  PROVE  GroupWrite \/ GroupRead
<1>1. PICK g \in loc.name, x \in loc.lg, l \in loc.lease : PublishStatus(g, x, l)
  BY DEF UpdateStatusFromLease
<1>2. UNCHANGED <<lease, revision, nextUid, leaseView, leaseWatch, groupView>>
  BY DEF UpdateStatusFromLease
<1>3. loc' = NoLocals
  BY <1>1 DEF PublishStatus, DoneRequeueAfter, Fail
<1>4. CASE GroupUnchanged(g, x) /\ PutGroup(g, Published(x, l))
  <2>1. g \in Group /\ x \in LeaderGroup /\ l \in Lease
    BY LocalTypes
  <2>2. x \in groups[g]
    BY <1>4, <2>1 DEF GroupUnchanged, GroupInv, GroupCopy
  <2>3. Published(x, l) \in SUBSET LeaderGroup
    BY <2>1, PublishedType
  <2>4. Single(Published(x, l)) /\ \A y \in Published(x, l) : NextVersion(x, y)
    BY <2>1 DEF Published, NextVersion, Single, LeaderGroup
  <2> QED
    BY <1>2, <1>3, <1>4, <2>1, <2>2, <2>3, <2>4 DEF GroupWrite
<1>5. CASE UNCHANGED <<groups, groupWatch>>
  BY <1>2, <1>3, <1>5 DEF GroupRead, NoLocals
<1> QED
  BY <1>1, <1>4, <1>5 DEF PublishStatus

LEMMA GroupSteps ==
  ASSUME TypeOK, LeaseInv, GroupInv, Next
  PROVE  GroupWrite \/ GroupRead
<1> USE DEF api, informer
<1>1. ASSUME NEW g \in Group, Reconcile(g)
      PROVE  GroupRead
  <2> DEFINE read == [name |-> {g}, lg |-> groupView[g], lease |-> leaseView]
  <2>1. loc' \in {loc, read}
    BY <1>1 DEF Reconcile
  <2>2. UNCHANGED <<groups, nextUid, groupView, groupWatch>>
    BY <1>1 DEF Reconcile
  <2>3. read.name = {g} /\ read.lg = groupView[g]
    OBVIOUS
  <2> HIDE DEF read
  <2> QED
    BY <2>1, <2>2, <2>3 DEF GroupRead
<1>2. ASSUME NEW accepted, NEW new, Attempt(accepted, new),
             UNCHANGED <<groups, nextUid, groupView, groupWatch>>
      PROVE  GroupRead
  <2>1. loc' \in {NoLocals, [loc EXCEPT !.lease = new]}
    BY <1>2 DEF Attempt, Fail
  <2>2. /\ NoLocals.name = {}
        /\ [loc EXCEPT !.lease = new].name = loc.name
        /\ [loc EXCEPT !.lease = new].lg = loc.lg
    BY LocalTypes DEF NoLocals, Locals
  <2> QED
    BY <1>2, <2>1, <2>2 DEF GroupRead
<1>3. CASE CreateLease \/ UpdateLeaseMetadata
  BY <1>2, <1>3 DEF CreateLease, UpdateLeaseMetadata
<1>4. CASE CleanupLease
  BY <1>4 DEF CleanupLease, Done, Fail, NoLocals, GroupRead
<1>5. CASE \/ Informer \/ Election \/ CollectLease
           \/ \E g \in Group : TimerFires(g)
  BY <1>5 DEF Informer, DeliverLease, DeliverGroup, Election, Acquire,
              RenewOrRelease, CollectLease, TimerFires, GroupRead
<1>6. CASE Restart
  BY <1>6 DEF Restart, NoLocals, GroupRead
<1>7. ASSUME NEW g \in Group, CreateGroup(g)
      PROVE  GroupWrite
  <2>1. nextUid \in Nat
    BY DEF TypeOK
  <2>2. {NewGroup(nextUid)} \in SUBSET LeaderGroup
    BY <2>1 DEF NewGroup, LeaderGroup, Status
  <2>3. Single({NewGroup(nextUid)})
    BY DEF Single
  <2> QED
    BY <1>7, <2>2, <2>3 DEF CreateGroup, GroupWrite
<1>8. ASSUME NEW g \in Group, DeleteGroup(g)
      PROVE  GroupWrite
  <2>1. PICK x \in groups[g] :
           \E new \in {{}, {[x EXCEPT !.rev = @ + 1, !.deleting = TRUE]}} :
              PutGroup(g, new)
    BY <1>8 DEF DeleteGroup
  <2> DEFINE y == [x EXCEPT !.rev = @ + 1, !.deleting = TRUE]
  <2>2. x \in LeaderGroup
    BY DEF TypeOK
  <2>3. y \in LeaderGroup /\ y.uid = x.uid /\ y.rev = x.rev + 1 /\ y.status = x.status
    <3>1. x.rev + 1 \in Nat
      BY <2>2 DEF LeaderGroup
    <3> QED
      BY <2>2, <3>1 DEF LeaderGroup
  <2>4. PutGroup(g, {}) \/ PutGroup(g, {y})
    BY <2>1
  <2> HIDE DEF y
  <2>5. NextVersion(x, y)
    BY <2>3 DEF NextVersion
  <2>6. UNCHANGED <<lease, revision, nextUid, leaseView, leaseWatch, groupView, loc>>
    BY <1>8 DEF DeleteGroup
  <2>7. CASE PutGroup(g, {})
    BY <2>6, <2>7 DEF GroupWrite, Single
  <2>8. CASE PutGroup(g, {y})
    <3>1. {y} \in SUBSET LeaderGroup /\ Single({y})
      BY <2>3 DEF Single
    <3>2. \A z \in {y} : NextVersion(x, z)
      BY <2>5
    <3> QED
      BY <2>6, <2>8, <3>1, <3>2 DEF GroupWrite
  <2> QED
    BY <2>4, <2>7, <2>8
<1>9. ASSUME NEW g \in Group, FinalizeGroup(g)
      PROVE  GroupWrite
  BY <1>9 DEF FinalizeGroup, GroupWrite, Single
<1> QED
  BY <1>1, <1>3, <1>4, <1>5, <1>6, <1>7, <1>8, <1>9, PublishSteps
     DEF Next, Controller

LEMMA GroupCopyAfterWrite ==
  ASSUME NEW S \in SUBSET LeaderGroup, NEW G \in SUBSET LeaderGroup,
         NEW u \in Nat, NEW v \in Nat, u <= v,
         GroupCopy(S, G, u), GroupCopy(G, G, u),
         NEW N \in SUBSET LeaderGroup, Single(N),
         \A y \in N : \/ y.uid = u /\ u < v
                      \/ \E x \in G : y.uid = x.uid /\ y.rev = x.rev + 1
  PROVE  GroupCopy(S, N, v) /\ GroupCopy(N, N, v) /\ GroupCopy(S, G, v)
<1>1. \A x \in LeaderGroup : x.uid \in Nat /\ x.rev \in Nat
  BY DEF LeaderGroup
<1>2. GroupCopy(S, G, v)
  BY <1>1 DEF GroupCopy
<1>3. GroupCopy(S, N, v)
  BY <1>1 DEF GroupCopy
<1>4. GroupCopy(N, N, v)
  BY <1>1 DEF GroupCopy, Single
<1> QED
  BY <1>2, <1>3, <1>4

LEMMA GroupCopyLater ==
  ASSUME NEW S \in SUBSET LeaderGroup, NEW G, NEW u \in Nat, NEW v \in Nat,
         u <= v, GroupCopy(S, G, u)
  PROVE  GroupCopy(S, G, v)
<1>1. \A x \in LeaderGroup : x.uid \in Nat
  BY DEF LeaderGroup
<1> QED
  BY <1>1 DEF GroupCopy

LEMMA GroupWriteKeepsGroups ==
  ASSUME TypeOK, GroupInv, GroupWrite
  PROVE  GroupInv'
<1>1. PICK g \in Group, new \in SUBSET LeaderGroup :
          /\ PutGroup(g, new)
          /\ Single(new)
          /\ \A y \in new : \/ y = NewGroup(nextUid) /\ nextUid' = nextUid + 1
                            \/ \E x \in groups[g] : NextVersion(x, y)
  BY DEF GroupWrite
<1>2. /\ nextUid \in Nat /\ nextUid' \in Nat /\ nextUid <= nextUid'
      /\ groupView' = groupView
      /\ loc' \in {loc, NoLocals}
  BY DEF GroupWrite, TypeOK
<1>3. \A y \in new : \/ y.uid = nextUid /\ nextUid < nextUid'
                     \/ \E x \in groups[g] : y.uid = x.uid /\ y.rev = x.rev + 1
  BY <1>1, <1>2 DEF NextVersion, NewGroup
<1>4. \A h \in Group : /\ groups[h] \in SUBSET LeaderGroup
                       /\ groupView[h] \in SUBSET LeaderGroup
                       /\ groupWatch[h] \in Seq(SUBSET LeaderGroup)
                       /\ loc.lg \in SUBSET LeaderGroup
  BY LocalTypes DEF TypeOK
<1>5. \A h \in Group : \A i \in 1 .. Len(groupWatch[h]) :
          groupWatch[h][i] \in SUBSET LeaderGroup
  BY <1>4
<1>6. /\ groups'[g] = new
      /\ groupWatch'[g] = Append(groupWatch[g], new)
      /\ \A h \in Group : h # g => /\ groups'[h] = groups[h]
                                   /\ groupWatch'[h] = groupWatch[h]
  BY <1>1 DEF PutGroup, TypeOK
<1>7. ASSUME NEW S \in SUBSET LeaderGroup, GroupCopy(S, groups[g], nextUid)
      PROVE  GroupCopy(S, new, nextUid') /\ GroupCopy(new, new, nextUid')
  <2>1. GroupCopy(groups[g], groups[g], nextUid) /\ Single(new)
    BY <1>1 DEF GroupInv
  <2>2. groups[g] \in SUBSET LeaderGroup
    BY <1>4
  <2> QED
    BY <1>2, <1>3, <1>7, <2>1, <2>2, GroupCopyAfterWrite
<1>8. GroupCopy(new, new, nextUid') /\ GroupCopy(groupView[g], new, nextUid')
  BY <1>4, <1>7 DEF GroupInv
<1>9. \A i \in 1 .. Len(groupWatch[g]) :
          GroupCopy(groupWatch[g][i], new, nextUid')
  BY <1>5, <1>7 DEF GroupInv
<1>10. \A i \in 1 .. Len(groupWatch'[g]) :
          GroupCopy(groupWatch'[g][i], new, nextUid')
  BY <1>4, <1>6, <1>8, <1>9, AppendProperties
<1>11. ASSUME NEW h \in Group, h \in loc'.name
       PROVE  GroupCopy(loc'.lg, groups'[h], nextUid')
  <2>1. loc' = loc
    BY <1>2, <1>11 DEF NoLocals
  <2>2. GroupCopy(loc.lg, groups[h], nextUid)
    BY <1>11, <2>1 DEF GroupInv
  <2>3. CASE h = g
    BY <1>4, <1>6, <1>7, <2>1, <2>2, <2>3
  <2>4. CASE h # g
    BY <1>2, <1>4, <1>6, <2>1, <2>2, <2>4, GroupCopyLater
  <2> QED
    BY <2>3, <2>4
<1>12. ASSUME NEW h \in Group, h # g
       PROVE  /\ GroupCopy(groups[h], groups[h], nextUid')
              /\ GroupCopy(groupView[h], groups[h], nextUid')
              /\ \A i \in 1 .. Len(groupWatch[h]) :
                    GroupCopy(groupWatch[h][i], groups[h], nextUid')
  BY <1>2, <1>4, <1>5, GroupCopyLater DEF GroupInv
<1>13. ASSUME NEW h \in Group
       PROVE  /\ GroupCopy(groups'[h], groups'[h], nextUid')
              /\ GroupCopy(groupView'[h], groups'[h], nextUid')
              /\ \A i \in 1 .. Len(groupWatch'[h]) :
                    GroupCopy(groupWatch'[h][i], groups'[h], nextUid')
  <2>1. CASE h = g
    BY <1>2, <1>6, <1>8, <1>10, <2>1
  <2>2. CASE h # g
    BY <1>2, <1>6, <1>12, <2>2
  <2> QED
    BY <2>1, <2>2
<1> QED
  BY <1>11, <1>13 DEF GroupInv, GroupCopy, Single

LEMMA GroupReadKeepsGroups ==
  ASSUME TypeOK, GroupInv, GroupRead
  PROVE  GroupInv'
<1> DEFINE Copy(S, g) == GroupCopy(S, groups[g], nextUid)
<1>1. UNCHANGED <<groups, nextUid>>
  BY DEF GroupRead
<1>2. ASSUME NEW g \in Group
      PROVE  /\ Copy(groupView'[g], g)
             /\ \A i \in 1 .. Len(groupWatch'[g]) : Copy(groupWatch'[g][i], g)
  <2>1. CASE UNCHANGED <<groupView, groupWatch>>
    BY <2>1 DEF GroupInv
  <2>2. ASSUME NEW h \in Group, DeliverGroup(h)
        PROVE  /\ Copy(groupView'[g], g)
               /\ \A i \in 1 .. Len(groupWatch'[g]) : Copy(groupWatch'[g][i], g)
    <3>1. CASE g # h
      <4>1. groupView'[g] = groupView[g] /\ groupWatch'[g] = groupWatch[g]
        BY <2>2, <3>1 DEF DeliverGroup, TypeOK
      <4> QED
        BY <4>1 DEF GroupInv
    <3>2. CASE g = h
      <4> DEFINE w == groupWatch[g]
      <4>1. /\ groupView'[g] = Head(w) /\ groupWatch'[g] = Tail(w)
            /\ w \in Seq(SUBSET LeaderGroup) /\ w # <<>>
        BY <2>2, <3>2 DEF DeliverGroup, TypeOK
      <4>2. \A i \in 1 .. Len(w) : Copy(w[i], g)
        BY DEF GroupInv
      <4> HIDE DEF w, Copy
      <4>3. /\ Len(w) \in Nat /\ Len(w) # 0
            /\ Head(w) = w[1]
            /\ Len(Tail(w)) = Len(w) - 1
            /\ \A i \in 1 .. Len(Tail(w)) : Tail(w)[i] = w[i + 1]
        BY <4>1, HeadTailProperties, EmptySeq, LenProperties
      <4> QED
        BY <4>1, <4>2, <4>3
    <3> QED
      BY <3>1, <3>2
  <2>3. CASE groupView' = groups /\ groupWatch' = [h \in Group |-> <<>>]
    BY <2>3 DEF GroupInv
  <2> QED
    BY <2>1, <2>2, <2>3 DEF GroupRead
<1>3. ASSUME NEW g \in Group, g \in loc'.name
      PROVE  Copy(loc'.lg, g)
  BY <1>3 DEF GroupRead, GroupInv
<1>4. \A g \in Group : Copy(groups[g], g)
  BY DEF GroupInv
<1> QED
  BY <1>1, <1>2, <1>3, <1>4 DEF GroupInv, GroupCopy, Single

(***************************************************************************)
(* The tokens.                                                             *)
(***************************************************************************)

\* A status covers the new version of a Lease too.
LEMMA CoversNew ==
  ASSUME TypeOK, LeaseInv, NEW status \in Status, status.of <= revision,
         Covers(lease, status),
         NEW new \in SUBSET Lease, \A n \in new : NewVersion(n)
  PROVE  Covers(new, status)
<1> SUFFICES ASSUME NEW n \in new, n.uid = status.of, NEW k \in status.token
             PROVE  k <= Transitions(n)
  BY DEF Covers
<1>1. PICK m \in lease : m.uid = n.uid
  <2>1. status.of \in Nat /\ revision \in Nat
    BY DEF Status, TypeOK
  <2> QED
    BY <2>1 DEF NewVersion
<1>2. m \in Lease /\ n \in Lease /\ k \in Nat
  BY Copies DEF Status
<1>3. k <= Transitions(m)
  BY <1>1 DEF Covers
<1>4. Transitions(m) <= Transitions(n)
  BY <1>2, HandedOverGrows DEF NewVersion
<1> QED
  BY <1>2, <1>3, <1>4, TransitionsType

LEMMA CoversFromCopy ==
  ASSUME TypeOK, NEW status \in Status, status.of <= revision,
         Covers(loc.lease, status), NEW new, \A n \in new : FromCopy(n)
  PROVE  Covers(new, status)
<1> SUFFICES ASSUME NEW n \in new, n.uid = status.of, NEW k \in status.token
             PROVE  k <= Transitions(n)
  BY DEF Covers
<1>1. PICK l \in loc.lease : l.uid = n.uid /\ l.transitions = n.transitions
  <2>1. status.of \in Nat /\ revision \in Nat
    BY DEF Status, TypeOK
  <2> QED
    BY <2>1 DEF FromCopy
<1>2. Transitions(n) = Transitions(l)
  BY <1>1 DEF Transitions
<1> QED
  BY <1>1, <1>2 DEF Covers

\* What TokenInv says of one status.
Good(status) ==
    /\ status.of <= revision
    /\ Single(status.token)
    /\ Covers(lease, status)
    /\ Covers(leaseView, status)
    /\ Covers(loc.lease, status)
    /\ \A i \in 1 .. Len(leaseWatch) : Covers(leaseWatch[i], status)

LEMMA WriteKeepsGood ==
  ASSUME TypeOK, LeaseInv, Write, NEW status \in Status, Good(status)
  PROVE  Good(status)'
<1>1. PICK new \in SUBSET Lease :
         /\ PutLease(new)
         /\ \A n \in new : NewVersion(n)
         /\ \/ loc'.lease \in {loc.lease, {}}
            \/ loc'.lease = new /\ \A n \in new : FromCopy(n)
  BY DEF Write
<1>2. /\ lease' = new /\ revision' = revision + 1
      /\ leaseView' = leaseView
      /\ leaseWatch' = Append(leaseWatch, new)
      /\ leaseWatch \in Seq(SUBSET Lease)
      /\ revision \in Nat
  BY <1>1 DEF PutLease, Write, TypeOK
<1>3. Covers(new, status)
  BY <1>1, CoversNew DEF Good
<1>4. Covers({}, status)
  BY DEF Covers
<1>5. Covers(loc'.lease, status)
  BY <1>1, <1>3, <1>4 DEF Good
<1>6. \A i \in 1 .. Len(leaseWatch') : Covers(leaseWatch'[i], status)
  BY <1>2, <1>3, AppendProperties DEF Good
<1>7. status.of <= revision'
  BY <1>2 DEF Good, Status
<1> QED
  BY <1>2, <1>3, <1>5, <1>6, <1>7 DEF Good, Covers, Single

LEMMA NoWriteKeepsGood ==
  ASSUME TypeOK, NoWrite, NEW status \in Status, Good(status)
  PROVE  Good(status)'
<1>1. UNCHANGED <<lease, revision>>
  BY DEF NoWrite
<1>2. Covers({}, status)
  BY DEF Covers
<1>3. Covers(loc'.lease, status)
  BY <1>2 DEF NoWrite, Good
<1>4. /\ Covers(leaseView', status)
      /\ \A i \in 1 .. Len(leaseWatch') : Covers(leaseWatch'[i], status)
  <2>1. CASE DeliverLease
    <3>1. leaseWatch \in Seq(SUBSET Lease) /\ leaseWatch # <<>>
      BY <2>1 DEF DeliverLease, TypeOK
    <3>2. /\ Len(leaseWatch) \in Nat /\ Len(leaseWatch) # 0
          /\ Head(leaseWatch) = leaseWatch[1]
          /\ Len(Tail(leaseWatch)) = Len(leaseWatch) - 1
          /\ \A i \in 1 .. Len(Tail(leaseWatch)) :
                Tail(leaseWatch)[i] = leaseWatch[i + 1]
      BY <3>1, HeadTailProperties, EmptySeq, LenProperties
    <3>3. leaseView' = Head(leaseWatch) /\ leaseWatch' = Tail(leaseWatch)
      BY <2>1 DEF DeliverLease
    <3> QED
      BY <3>2, <3>3 DEF Good
  <2>2. CASE UNCHANGED <<leaseView, leaseWatch>>
    BY <2>2 DEF Good
  <2>3. CASE leaseView' = lease /\ leaseWatch' = <<>>
    BY <2>3 DEF Good
  <2> QED
    BY <2>1, <2>2, <2>3 DEF NoWrite
<1> QED
  BY <1>1, <1>3, <1>4 DEF Good, Covers, Single

\* A status that is published from the copy that the reconcile read.
LEMMA PublishedGood ==
  ASSUME TypeOK, LeaseInv, OrderInv, NEW status \in Status, Good(status),
         NEW l \in loc.lease
  PROVE  Good(StatusFrom(l, status))
<1> DEFINE new == StatusFrom(l, status)
<1>1. l \in Lease /\ l.uid <= revision /\ Single(l.transitions)
  BY Copies DEF LeaseInv, CopyOf
<1>2. CASE l.transitions = {}
  <2>1. new.token = status.token /\ new.of = status.of
    BY <1>2 DEF StatusFrom
  <2> HIDE DEF new
  <2> QED
    BY <2>1 DEF Good, Covers, new
<1>3. CASE l.transitions # {}
  <2>1. new.token = l.transitions /\ new.of = l.uid
    BY <1>3 DEF StatusFrom
  <2>2. \A n \in l.transitions : n = Transitions(l)
    BY <1>1, <1>3 DEF Transitions, Single
  <2> HIDE DEF new
  <2>3. ASSUME NEW S, Before(loc.lease, S)
        PROVE  Covers(S, new)
    BY <2>1, <2>2, <2>3 DEF Before, Covers
  <2>4. Before(loc.lease, loc.lease)
    BY TransitionsType, Copies DEF LeaseInv, CopyOf, Single, Before
  <2>5. new.of <= revision /\ Single(new.token)
    BY <1>1, <2>1
  <2> QED
    BY <2>3, <2>4, <2>5 DEF OrderInv, Good, new
<1> QED
  BY <1>2, <1>3

LEMMA TokenMeans ==
  TokenInv <=> \A g \in Group : \A x \in groups[g] : Good(x.status)
  BY DEF TokenInv, Good

LEMMA GroupWriteKeepsTokens ==
  ASSUME TypeOK, LeaseInv, OrderInv, TokenInv, GroupWrite
  PROVE  TokenInv'
<1>1. PICK g \in Group, new \in SUBSET LeaderGroup :
          /\ PutGroup(g, new)
          /\ \A y \in new : \/ y = NewGroup(nextUid)
                            \/ \E x \in groups[g] : NextVersion(x, y)
  BY DEF GroupWrite
<1>2. \A h \in Group : groups[h] \in SUBSET LeaderGroup
  BY DEF TypeOK
<1>3. /\ groups'[g] = new
      /\ \A h \in Group : h # g => groups'[h] = groups[h]
  BY <1>1 DEF PutGroup, TypeOK
<1>4. ASSUME NEW y \in new
      PROVE  Good(y.status)
  <2>1. CASE y = NewGroup(nextUid)
    <3>1. y.status.token = {} /\ y.status.of = 0
      BY <2>1 DEF NewGroup
    <3> QED
      BY <3>1 DEF Good, Covers, Single, TypeOK
  <2>2. ASSUME NEW x \in groups[g], NextVersion(x, y)
        PROVE  Good(y.status)
    <3>1. Good(x.status) /\ x.status \in Status
      BY <1>2, TokenMeans DEF LeaderGroup
    <3> QED
      BY <2>2, <3>1, PublishedGood DEF NextVersion
  <2> QED
    BY <1>1, <2>1, <2>2
<1>5. \A h \in Group : \A y \in groups'[h] : Good(y.status)
  BY <1>3, <1>4, TokenMeans
<1>6. \A status : Good(status) => Good(status)'
  <2>1. /\ UNCHANGED <<lease, revision, leaseView, leaseWatch>>
        /\ loc'.lease \in {loc.lease, {}}
    BY DEF GroupWrite, NoLocals
  <2> QED
    BY <2>1 DEF Good, Covers, Single
<1>7. \A h \in Group : \A y \in groups'[h] : Good(y.status)'
  BY <1>5, <1>6
<1> QED
  BY <1>7 DEF TokenInv, Good

LEMMA TokenStep ==
  ASSUME TypeOK, LeaseInv, OrderInv, GroupInv, TokenInv, Next
  PROVE  TokenInv'
<1>1. CASE GroupWrite
  BY <1>1, GroupWriteKeepsTokens
<1>2. CASE GroupRead
  <2>1. groups' = groups
    BY <1>2 DEF GroupRead
  <2>2. \A g \in Group : \A x \in groups[g] : x.status \in Status /\ Good(x.status)
    BY TokenMeans DEF TypeOK, LeaderGroup
  <2>3. \A g \in Group : \A x \in groups[g] : Good(x.status)'
    BY <2>2, ControllerSteps, OtherSteps, WriteKeepsGood, NoWriteKeepsGood
  <2> QED
    BY <2>1, <2>3 DEF TokenInv, Good
<1> QED
  BY <1>1, <1>2, GroupSteps

TokenIInv == TypeOK /\ LeaseInv /\ OrderInv /\ GroupInv /\ TokenInv

LEMMA TokenIInvInit == Init => TokenIInv
<1> SUFFICES ASSUME Init PROVE TokenIInv
  OBVIOUS
<1>1. TypeOK
  BY TypeInit
<1>2. /\ lease = {} /\ leaseView = {} /\ leaseWatch = <<>>
      /\ loc.lease = {} /\ loc.name = {}
  BY DEF Init, NoLocals
<1>3. LeaseInv /\ OrderInv
  BY <1>2 DEF LeaseInv, OrderInv, CopyOf, Single, Before
<1>4. ASSUME NEW g \in Group
      PROVE  /\ GroupCopy(groups[g], groups[g], nextUid)
             /\ \A x \in groups[g] : x.status.of <= revision /\ x.status.token = {}
  <2>1. \A x \in groups[g] : x = NewGroup(1)
    BY DEF Init
  <2>2. /\ NewGroup(1).uid = 1 /\ NewGroup(1).rev = 0
        /\ NewGroup(1).status.of = 0 /\ NewGroup(1).status.token = {}
    BY DEF NewGroup
  <2>3. nextUid = 2 /\ revision = 0
    BY DEF Init
  <2> QED
    BY <2>1, <2>2, <2>3 DEF GroupCopy, Single
<1>5. GroupInv
  <2>1. \A g \in Group : groupView[g] = groups[g] /\ groupWatch[g] = <<>>
    BY DEF Init
  <2> QED
    BY <1>2, <1>4, <2>1 DEF GroupInv
<1>6. TokenInv
  BY <1>2, <1>4 DEF TokenInv, Covers, Single
<1> QED
  BY <1>1, <1>3, <1>5, <1>6 DEF TokenIInv

LEMMA TokenIInvStep ==
  ASSUME TokenIInv, [Next]_vars
  PROVE  TokenIInv'
<1>1. TypeOK /\ LeaseInv /\ OrderInv /\ GroupInv /\ TokenInv
  BY DEF TokenIInv
<1>2. CASE Next
  <2>1. TypeOK'
    BY <1>1, <1>2, TypeController, TypeInformer, TypeOutside DEF Next
  <2>2. LeaseInv' /\ OrderInv'
    BY <1>1, <1>2, ControllerSteps, OtherSteps, WriteKeepsCopies,
       NoWriteKeepsCopies, WriteKeepsOrder, NoWriteKeepsOrder
  <2>3. GroupInv'
    BY <1>1, <1>2, GroupSteps, GroupWriteKeepsGroups, GroupReadKeepsGroups
  <2>4. TokenInv'
    BY <1>1, <1>2, TokenStep
  <2> QED
    BY <2>1, <2>2, <2>3, <2>4 DEF TokenIInv
<1>3. CASE UNCHANGED vars
  <2>1. TypeOK' /\ LeaseInv'
    BY <1>1, <1>3 DEF TypeOK, LeaseInv, CopyOf, Single, vars, api, informer
  <2>2. OrderInv'
    BY <1>1, <1>3 DEF OrderInv, Before, vars, api, informer
  <2>3. GroupInv'
    BY <1>1, <1>3 DEF GroupInv, GroupCopy, Single, vars, api, informer
  <2>4. TokenInv'
    BY <1>1, <1>3 DEF TokenInv, Covers, Single, vars, api, informer
  <2> QED
    BY <2>1, <2>2, <2>3, <2>4 DEF TokenIInv
<1> QED
  BY <1>2, <1>3

\* The fencing token never falls while it comes from one Lease, for any number of
\* LeaderGroups on that Lease, replicas, faults and restarts of the controller:
\* no reconcile publishes a copy that is older than what is already published
\* (updateStatusFromLease).
THEOREM TokensGrow == Spec => TokenGrowsWithinLease
<1>1. Init => TokenIInv
  BY TokenIInvInit
<1>2. TokenIInv /\ [Next]_vars => TokenIInv'
  BY TokenIInvStep
<1>3. TokenIInv /\ [Next]_vars =>
         [\A g \in Group : \A x \in groups[g], y \in groups'[g] :
            (x.uid = y.uid /\ x.status.of = y.status.of) =>
               \A n \in x.status.token, m \in y.status.token : n <= m]_vars
  <2> SUFFICES ASSUME TokenIInv, Next, NEW g \in Group,
                      NEW x \in groups[g], NEW y \in groups'[g],
                      x.uid = y.uid, x.status.of = y.status.of,
                      NEW n \in x.status.token, NEW m \in y.status.token
               PROVE  n <= m
    OBVIOUS
  <2>1. TypeOK /\ LeaseInv /\ OrderInv /\ GroupInv /\ TokenInv
    BY DEF TokenIInv
  <2>2. /\ Good(x.status) /\ x \in LeaderGroup /\ x.status \in Status
        /\ n \in Nat
    BY <2>1, TokenMeans DEF TypeOK, LeaderGroup, Status
  <2>3. y.status.token = x.status.token => n <= m
    BY <2>2 DEF Good, Single
  <2>4. CASE y \in groups[g]
    <3>1. y = x
      BY <2>1, <2>4 DEF GroupInv, GroupCopy, Single
    <3> QED
      BY <2>3, <3>1
  <2>5. CASE GroupWrite
    <3>1. PICK h \in Group, new \in SUBSET LeaderGroup :
             /\ PutGroup(h, new)
             /\ \A z \in new : \/ z = NewGroup(nextUid)
                               \/ \E w \in groups[h] : NextVersion(w, z)
      BY <2>5 DEF GroupWrite
    <3>2. CASE h # g
      <4>1. groups'[g] = groups[g]
        BY <2>1, <3>1, <3>2 DEF PutGroup, TypeOK
      <4> QED
        BY <2>4, <4>1
    <3>3. CASE h = g
      <4>1. y \in new
        BY <2>1, <3>1, <3>3 DEF PutGroup, TypeOK
      <4>2. y # NewGroup(nextUid)
        <5>1. x.uid < nextUid /\ x.uid \in Nat /\ nextUid \in Nat
          BY <2>1, <2>2 DEF GroupInv, GroupCopy, TypeOK, LeaderGroup
        <5> QED
          BY <5>1 DEF NewGroup
      <4>3. NextVersion(x, y)
        BY <2>1, <3>1, <3>3, <4>1, <4>2 DEF GroupInv, GroupCopy, Single
      <4>4. CASE y.status = x.status
        BY <2>3, <4>4
      <4>5. ASSUME NEW l \in loc.lease, y.status = StatusFrom(l, x.status)
            PROVE  n <= m
        <5>1. CASE l.transitions = {}
          BY <2>3, <4>5, <5>1 DEF StatusFrom
        <5>2. CASE l.transitions # {}
          <6>1. y.status.token = l.transitions /\ y.status.of = l.uid
            BY <4>5, <5>2 DEF StatusFrom
          <6>2. m = Transitions(l)
            BY <2>1, <6>1 DEF LeaseInv, CopyOf, Single, Transitions
          <6> QED
            BY <2>2, <6>1, <6>2 DEF Good, Covers
        <5> QED
          BY <5>1, <5>2
      <4> QED
        BY <4>3, <4>4, <4>5 DEF NextVersion
    <3> QED
      BY <3>2, <3>3
  <2>6. CASE GroupRead
    BY <2>4, <2>6 DEF GroupRead
  <2> QED
    BY <2>1, <2>5, <2>6, GroupSteps
<1> QED
  BY <1>1, <1>2, <1>3, PTL DEF Spec, TokenGrowsWithinLease

=============================================================================
