----------------------------- MODULE FencedLease -----------------------------
(***************************************************************************)
(* What the replicas of a component rely on when they elect their leader   *)
(* with a Lease that the LeaderGroup controller writes as well: the Lease  *)
(* passes from holder to holder, its term counts the take-overs, and once  *)
(* it is gone it never comes back - the next one has an identity that none *)
(* had before, so a term of the old one cannot be taken for one of it.     *)
(*                                                                         *)
(* LeaderGroup implements it: LeaseIsFenced there.                         *)
(***************************************************************************)
EXTENDS Integers

CONSTANTS
    Holder,   \* the replicas
    NoHolder  \* what a Lease says that nobody holds

VARIABLES
    lock,  \* the Lease, if there is one: its identity, holder and term
    now    \* resource version of the last write

vars == <<lock, now>>

Init == lock = {}

\* A Lease appears, held by nobody or by the replica that made it.
Found ==
    /\ lock = {}
    /\ \E k \in lock' :
          /\ lock' = {k}
          /\ k.id \in (now + 1) .. now'
          /\ k.holder \in Holder \cup {NoHolder}

TakeOver(c) ==
    \E k \in lock :
        /\ k.holder # c
        /\ lock' = {[id |-> k.id, holder |-> c, term |-> k.term + 1]}

Release ==
    \E k \in lock : lock' = {[id |-> k.id, holder |-> NoHolder, term |-> k.term]}

Remove == lock' = {}

Next ==
    /\ now <= now'
    /\ \/ Found
       \/ \E c \in Holder : TakeOver(c)
       \/ Release
       \/ Remove
       \/ UNCHANGED lock

Spec == Init /\ [][Next]_vars

=============================================================================
