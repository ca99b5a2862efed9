---------------------------- MODULE LeaderRouting ----------------------------
(***************************************************************************)
(* What zen-lead promises of a leader Service, whatever happens to Pods,   *)
(* informers and the controller: its name leads to at most one Pod at a    *)
(* time, which had been Ready before it was chosen, and traffic moves from *)
(* one Pod to the next in one step, never through both.                    *)
(*                                                                         *)
(* ServiceDirector implements it: LeaderRoutingImplemented there.          *)
(***************************************************************************)

CONSTANTS
    Name,  \* names of leader Services
    Uid    \* UIDs of Pods

VARIABLES
    ready,  \* the Pods that were ever Ready
    route   \* by name, the Pods that traffic is sent to

vars == <<ready, route>>

Init == route = [n \in Name |-> {}]

BecomeReady ==
    /\ ready \subseteq ready'
    /\ UNCHANGED route

RouteTo(n, u) ==
    /\ u \in ready
    /\ route' = [route EXCEPT ![n] = {u}]
    /\ UNCHANGED ready

Unroute(n) ==
    /\ route' = [route EXCEPT ![n] = {}]
    /\ UNCHANGED ready

Next ==
    \/ BecomeReady
    \/ \E n \in Name : Unroute(n) \/ \E u \in Uid : RouteTo(n, u)

Spec == Init /\ [][Next]_vars

=============================================================================
