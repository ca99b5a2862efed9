------------------------- MODULE DocumentedBehaviour -------------------------
(***************************************************************************)
(* What the documentation and the comments of zen-lead promise, stated of  *)
(* ServiceDirector.  Each of these is violated by what the code does.      *)
(***************************************************************************)
EXTENDS MCServiceDirector

\* service_director.go:378 "immediately failover if current leader is
\* unhealthy", where unhealthy is terminating, not Ready or without PodIP: when
\* everything has settled, a terminating Pod does not lead while a healthy one
\* could.  The filter of selectLeaderPod looks at readiness alone, so the oldest
\* Pod is chosen again.
TerminatingLeaderReplaced ==
    Quiescent =>
        \A s \in svc : Served(s) =>
            \A e \in slice[GetLeaderServiceName(s)] :
                \A p \in Lookup(e.target) :
                    p.deleting => \A q \in Matching(s) : Unhealthy(q)

\* docs/ARCHITECTURE.md:45 "Candidates: Pods matching S.spec.selector": when
\* everything has settled, the slice routes to a Pod that the Service selects.
\* podPredicate drops the event of a Pod that is only relabelled.
LeaderMatchesSelector ==
    Quiescent =>
        \A s \in svc : Served(s) =>
            \A e \in slice[GetLeaderServiceName(s)] :
                \A p \in Lookup(e.target) : Selects(s, p)

\* README.md:412 "The leader Service will have no endpoints (empty
\* EndpointSlice)": if from some time on no Pod is Ready, then from some time on
\* no slice routes anywhere.  The endpoint that reconcileEndpointSlice writes
\* has no address, which the API server rejects.
NoReadyPodsNoEndpoints ==
    <>[](\A p \in pods : ~IsPodReady(p)) =>
        <>[](\A l \in LeaderName : Targets(slice[l]) = {})

\* README.md:40 "no changes to user resources": a Service that zen-lead did not
\* create is neither patched nor deleted.  cleanupLeaderResources deletes by
\* name, and it runs for Services that never opted in, too.
UserServicesUntouched ==
    \A l \in UserServices : leaderSvc[l] = {UserService}

\* docs/ARCHITECTURE.md:151 "Remove zen-lead.io/enabled annotation -> Leader
\* Service deleted", and :153 "cleanup for stale resources": when everything has
\* settled, every leader Service is that of an enabled Service.  The cleanup
\* looks in the informer, which may not have the leader Service yet, and takes
\* a failed Get for its absence; the event of the leader Service does not bring
\* it back, only the source Service's next one or the informer's resync does.
StaleResourcesRemoved ==
    Quiescent =>
        \A l \in LeaderName : \A o \in leaderSvc[l] :
            o.managed => \E s \in svc : s.enabled /\ l = GetLeaderServiceName(s)

\* README.md:268 reads the current leader from the leader-pod-name annotation:
\* when everything has settled, the leader Service is annotated with the Pod
\* that its slice routes to.  The merge patch is computed from the informer's
\* copy of the leader Service, whose events do not enqueue the source Service.
AnnotationNamesLeader ==
    Quiescent =>
        \A s \in svc : Served(s) =>
            LET l == GetLeaderServiceName(s)
            IN  \A o \in leaderSvc[l] : \A e \in slice[l] :
                    o.leader = Uids(e.target)

=============================================================================
