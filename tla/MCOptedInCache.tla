----------------------------- MODULE MCOptedInCache -----------------------------
(***************************************************************************)
(* A small instance of OptedInCache for TLC.                               *)
(***************************************************************************)
EXTENDS OptedInCache, TLC

CONSTANTS s1, s2, p1, p2

\* One Pod for each of the selectors.
OneLabelEach == p1 :> "blue" @@ p2 :> "green"

Blue == [enabled |-> TRUE, selector |-> {"blue"}]

Green == [Blue EXCEPT !.selector = {"green"}]

\* Selectors change, Services opt out, and one may lose its selector.
SomeSpecs == {Blue, Green, [Blue EXCEPT !.enabled = FALSE],
              [Blue EXCEPT !.selector = {}]}

\* One Service opted in, one that is not there yet.
OneOptedIn == s1 :> {Blue} @@ s2 :> {}

Bounds(pod, service, fault) == [pod |-> pod, svc |-> service, fault |-> fault]

CacheBudget == Bounds(2, 2, 1)

=============================================================================
