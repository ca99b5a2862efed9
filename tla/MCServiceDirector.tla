-------------------------- MODULE MCServiceDirector --------------------------
(***************************************************************************)
(* Small instances of ServiceDirector for TLC.                             *)
(***************************************************************************)
EXTENDS ServiceDirector, TLC

ReadyPod(n, u) ==
    [name |-> n, uid |-> u, label |-> "app", status |-> "Ready",
     mature |-> TRUE, deleting |-> FALSE, ip |-> TRUE]

PendingPod(n, u) ==
    [ReadyPod(n, u) EXCEPT !.status = "NotReady", !.mature = FALSE]

Optin == [uid |-> 2, enabled |-> TRUE, selector |-> {"app"}, custom |-> "",
          port |-> "number"]

\* The older Pod is not Ready yet.
OneReadyOnePending == {PendingPod(1, 1), ReadyPod(2, 2)}

TwoReady == {ReadyPod(1, 1), ReadyPod(2, 2)}

ThreeReady == {ReadyPod(1, 1), ReadyPod(2, 2), ReadyPod(3, 3)}

OptedInService == {Optin}

PlainService == {[Optin EXCEPT !.enabled = FALSE]}

\* Pods 2 and 3 are created in the same second.
Timestamps == [u \in PodUid |-> IF u = 1 THEN 1 ELSE 2]

\* Pods 1 and 2 declare the named port with different numbers, Pod 3 does not.
Ports == [u \in PodUid |-> CASE u = 1 -> 8080 [] u = 2 -> 8081 [] OTHER -> 0]

Bounds(pod, service, fault, restart) ==
    [pod |-> pod, svc |-> service, fault |-> fault, restart |-> restart]

NoBudget == Bounds(0, 0, 0, 0)
FailoverBudget == Bounds(3, 0, 1, 1)
PortBudget == Bounds(3, 1, 1, 0)
LifecycleBudget == Bounds(0, 3, 1, 0)
OneChange == Bounds(1, 0, 0, 0)
ThreeChanges == Bounds(3, 0, 0, 0)
OneEdit == Bounds(0, 1, 0, 0)

FailoverChanges ==
    {"ready", "unready", "fail", "terminate", "delete", "create", "getIP"}

=============================================================================
