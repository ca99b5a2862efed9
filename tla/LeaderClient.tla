----------------------------- MODULE LeaderClient -----------------------------
(***************************************************************************)
(* The query client of pkg/client/client.go: a process asks whether its    *)
(* Pod leads a pool, that is, whether the Pod holds the pool's Lease.      *)
(* Several goroutines of the process share one client and its cache of     *)
(* answers, each good for DefaultCacheTTL.                                 *)
(*                                                                         *)
(* The client is made with mgr.GetClient() (pkg/client/doc.go:27), so what *)
(* answers its Get is the manager's informer.  The informer goes through   *)
(* the versions of the Lease in order and may be any time behind.  A       *)
(* client that asks the API server is the case of one that never is.       *)
(*                                                                         *)
(* Time is discrete.  A version of the Lease says one of three things: the *)
(* holder is this Pod, it is not, or there is no Lease.                    *)
(***************************************************************************)
EXTENDS Integers, Sequences, FiniteSets

CONSTANTS
    Caller,     \* goroutines that call the client
    Key,        \* cache keys under which the Lease is asked for:
                \* "pool" by IsLeader, "ns/pool" by IsLeaderWithNamespace
    TTL,        \* DefaultCacheTTL
    MaxCall,    \* how long a call takes at most after its Get is answered
    MaxChanges, \* bound on the changes of the Lease
    Horizon     \* bound on time

ASSUME ClientAssumption ==
    /\ TTL \in Nat \ {0}
    /\ MaxCall \in Nat
    /\ MaxChanges \in Nat
    /\ Horizon \in Nat

Time == 0 .. Horizon

\* What a version of the Lease says, and from when to when it was the Lease.
Holder == {"self", "other", "absent"}

Version == [holder : Holder, from : Time]

VARIABLES
    now,      \* time.Now()
    lease,    \* the versions of the Lease at the API server, in order
    seen,     \* which of them the informer has
    cache,    \* the answers by key: none or one
    call,     \* the call in progress of each goroutine
    answer,   \* history: the last answer given, if it was not an error
    lag,      \* history: the most that what a Get returned was behind the Lease
    cleared,  \* history: what the informer had at the last ClearCache
    racing    \* history: goroutines that a ClearCache found in a call

vars == <<now, lease, seen, cache, call, answer, lag, cleared, racing>>

Idle == [pc |-> "idle", key |-> {}, isLeader |-> FALSE, got |-> 0]

Call == [pc : {"idle", "get", "store"}, key : SUBSET Key, isLeader : BOOLEAN,
         got : Time]

CacheEntry == [isLeader : BOOLEAN, expires : Nat]

Answer == [isLeader : BOOLEAN, at : Time]

\* The last moment at which version v was the Lease.
Until(v) == IF v = Len(lease) THEN now ELSE lease[v + 1].from

-----------------------------------------------------------------------------
(***************************************************************************)
(* IsLeader and IsLeaderWithNamespace, which differ in the cache key only. *)
(***************************************************************************)

\* Mutant of Fresh: an entry that expires now still answers.
FreshOnExpiry(e) == now <= e.expires

\* now is before the entry's expiry
Fresh(e) == now < e.expires

\* Under the read lock: a fresh entry answers, else the Lease must be read.
AskCache(c, k) ==
    /\ call[c].pc = "idle"
    /\ \/ \E e \in cache[k] :
             /\ Fresh(e)
             /\ answer' = {[isLeader |-> e.isLeader, at |-> now]}
             /\ UNCHANGED call
       \/ /\ \A e \in cache[k] : ~Fresh(e)
          /\ call' = [call EXCEPT ![c] = [Idle EXCEPT !.pc = "get",
                                                      !.key = {k}]]
          /\ UNCHANGED answer
    /\ UNCHANGED <<now, lease, seen, cache, lag, cleared, racing>>

Larger(m, n) == IF m < n THEN n ELSE m

\* The holder is the Pod's name or name-UID; an empty holder is not.
MatchesIdentity(h) == h = "self"

\* The Get of the Lease, answered by the informer.  If it fails or there is no
\* Lease, the call ends in an error, and the cache is as it was.
GetLease(c) ==
    /\ call[c].pc = "get"
    /\ \/ /\ lease[seen].holder # "absent"
          /\ call' = [call EXCEPT ![c] =
                 [@ EXCEPT !.pc = "store", !.got = now,
                           !.isLeader = MatchesIdentity(lease[seen].holder)]]
          /\ lag' = Larger(lag, now - Until(seen))
       \/ /\ call' = [call EXCEPT ![c] = Idle]
          /\ UNCHANGED lag
    /\ UNCHANGED <<now, lease, seen, cache, answer, cleared, racing>>

\* Mutant of NewEntry: the time to live is taken off.
ExpiredEntry(c) == [isLeader |-> call[c].isLeader, expires |-> now - TTL]

NewEntry(c) == [isLeader |-> call[c].isLeader, expires |-> now + TTL]

\* Under the lock: the answer goes into the cache, its time to live starts now.
StoreAnswer(c) ==
    /\ call[c].pc = "store"
    /\ cache' = [k \in Key |-> IF k \in call[c].key THEN {NewEntry(c)}
                                                    ELSE cache[k]]
    /\ answer' = {[isLeader |-> call[c].isLeader, at |-> now]}
    /\ call' = [call EXCEPT ![c] = Idle]
    /\ UNCHANGED <<now, lease, seen, lag, cleared, racing>>

Reading == {c \in Caller : call[c].pc = "store"}

\* Mutant of Cleared: one key survives.
OneKeyCleared(C) == [C EXCEPT ![CHOOSE k \in Key : TRUE] = {}]

Cleared(C) == [k \in Key |-> {}]

ClearCache ==
    /\ cache' = Cleared(cache)
    /\ cleared' = seen
    /\ racing' = Reading
    /\ UNCHANGED <<now, lease, seen, call, answer, lag>>

-----------------------------------------------------------------------------
(***************************************************************************)
(* The Lease, the informer and the time.                                   *)
(***************************************************************************)
LeaseChanges ==
    /\ Len(lease) <= MaxChanges
    /\ \E h \in Holder \ {lease[Len(lease)].holder} :
          lease' = Append(lease, [holder |-> h, from |-> now])
    /\ UNCHANGED <<now, seen, cache, call, answer, lag, cleared, racing>>

\* The next version reaches the informer, however late.
DeliverLease ==
    /\ seen < Len(lease)
    /\ seen' = seen + 1
    /\ UNCHANGED <<now, lease, cache, call, answer, lag, cleared, racing>>

Tick ==
    /\ now < Horizon
    /\ \A c \in Reading : now < call[c].got + MaxCall
    /\ now' = now + 1
    /\ UNCHANGED <<lease, seen, cache, call, answer, lag, cleared, racing>>

-----------------------------------------------------------------------------

Init ==
    /\ now = 0
    /\ \E h \in Holder : lease = <<[holder |-> h, from |-> 0]>>
    /\ seen = 1
    /\ cache = [k \in Key |-> {}]
    /\ call = [c \in Caller |-> Idle]
    /\ answer = {}
    /\ lag = 0
    /\ cleared = 1
    /\ racing = {}

Next ==
    \/ \E c \in Caller :
          \/ \E k \in Key : AskCache(c, k)
          \/ GetLease(c)
          \/ StoreAnswer(c)
    \/ ClearCache
    \/ LeaseChanges
    \/ DeliverLease
    \/ Tick

Spec == Init /\ [][Next]_vars

-----------------------------------------------------------------------------
(***************************************************************************)
(* Properties.                                                             *)
(***************************************************************************)

\* Every variable holds a value of its type.
TypeOK ==
    /\ now \in Time
    /\ lease \in Seq(Version)
    /\ seen \in 1 .. Len(lease)
    /\ \A k \in Key : cache[k] \subseteq CacheEntry
    /\ call \in [Caller -> Call]
    /\ answer \subseteq Answer
    /\ lag \in Nat
    /\ cleared \in 1 .. seen
    /\ racing \subseteq Caller

\* What a version of the Lease says that an answer agrees with.
Says(isLeader) == IF isLeader THEN "self" ELSE "other"

\* One of the versions from v on says so.
SaidSince(isLeader, v) ==
    \E w \in v .. Len(lease) : lease[w].holder = Says(isLeader)

\* The Lease was there and said so at t or later.
SaidAtOrAfter(isLeader, t) ==
    \E v \in 1 .. Len(lease) :
        lease[v].holder = Says(isLeader) /\ t <= Until(v)

\* An answer may be wrong, but not for long: when it is given, a Lease that
\* says the same was there less than TTL + MaxCall ago, plus the most that the
\* informer was ever behind at a Get, for "leader" and "not leader" alike.  A
\* missing Lease is neither.  So after a hand-over two Pods may both be told
\* that they lead, but only for that long (IsLeader caches what an earlier Get
\* returned; the time to live starts at the store).
AnswerIsRecent ==
    \A a \in answer :
        SaidAtOrAfter(a.isLeader, a.at - (TTL + MaxCall - 1) - lag)

\* ClearCache forces a fresh check, unless a call is between its Get and its
\* store at that moment: what is cached after the clear agrees with the version
\* that the informer had then or with a later one.  That version itself may be
\* older than the clear: no more is forced than a new look into the informer.
ClearForgets ==
    racing = {} =>
        \A k \in Key : \A e \in cache[k] : SaidSince(e.isLeader, cleared)

=============================================================================
