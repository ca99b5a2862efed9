-------------------------- MODULE LeaderClientProofs --------------------------
(***************************************************************************)
(* Proofs about LeaderClient, for any number of goroutines and keys, any   *)
(* time to live, any bound on a call and an informer that is any time      *)
(* behind.                                                                 *)
(***************************************************************************)
EXTENDS LeaderClient, TLAPS

\* The fields of a call in progress.
LEMMA CallType ==
  ASSUME TypeOK, NEW c \in Caller
  PROVE  /\ call[c] \in Call
         /\ Idle \in Call
         /\ call[c].key \subseteq Key
         /\ call[c].isLeader \in BOOLEAN
         /\ call[c].got \in Time
<1>1. call[c] \in Call
  BY DEF TypeOK
<1>2. Idle \in Call
  BY ClientAssumption DEF Idle, Call, Time
<1> QED
  BY <1>1, <1>2 DEF Call

\* The versions of the Lease, and until when each was the Lease.
LEMMA LeaseType ==
  ASSUME TypeOK
  PROVE  /\ Len(lease) \in Nat
         /\ Len(lease) \in 1 .. Len(lease)
         /\ now \in Nat
         /\ lag \in Nat
         /\ seen \in Nat
         /\ cleared \in Nat
         /\ \A v \in 1 .. Len(lease) : /\ lease[v].holder \in Holder
                                       /\ lease[v].from \in Nat
                                       /\ Until(v) \in Nat
<1>1. lease \in Seq(Version) /\ seen \in 1 .. Len(lease) /\ now \in Nat
  BY ClientAssumption DEF TypeOK, Time
<1>2. Len(lease) \in Nat /\ Len(lease) \in 1 .. Len(lease)
  BY <1>1
<1>3. \A v \in 1 .. Len(lease) : lease[v] \in Version
  BY <1>1
<1>4. \A x \in Version : x.holder \in Holder /\ x.from \in Nat
  BY ClientAssumption DEF Version, Time
<1>5. \A v \in 1 .. Len(lease) : Until(v) \in Nat
  <2> SUFFICES ASSUME NEW v \in 1 .. Len(lease) PROVE Until(v) \in Nat
    OBVIOUS
  <2>1. v # Len(lease) => v + 1 \in 1 .. Len(lease)
    BY <1>2
  <2> QED
    BY <1>1, <1>3, <1>4, <2>1 DEF Until
<1> QED
  BY <1>1, <1>2, <1>3, <1>4, <1>5 DEF TypeOK

LEMMA TypeInit == Init => TypeOK
<1> SUFFICES ASSUME Init PROVE TypeOK
  OBVIOUS
<1>1. 0 \in Time /\ Idle \in Call
  BY ClientAssumption DEF Idle, Call, Time
<1>2. call \in [Caller -> Call]
  BY <1>1 DEF Init
<1>3. PICK h \in Holder : lease = <<[holder |-> h, from |-> 0]>>
  BY DEF Init
<1>4. [holder |-> h, from |-> 0] \in Version
  BY <1>1 DEF Version
<1>5. lease \in Seq(Version) /\ Len(lease) = 1
  BY <1>3, <1>4
<1> QED
  BY <1>1, <1>2, <1>5 DEF Init, TypeOK

LEMMA TypeNext == TypeOK /\ Next => TypeOK'
<1> SUFFICES ASSUME TypeOK, Next PROVE TypeOK'
  OBVIOUS
<1> USE DEF TypeOK
<1>1. ASSUME NEW c \in Caller, NEW k \in Key, AskCache(c, k)
      PROVE  TypeOK'
  <2>1. answer' \subseteq Answer
    BY <1>1 DEF AskCache, Answer, CacheEntry
  <2>2. call' \in [Caller -> Call]
    <3>1. [Idle EXCEPT !.pc = "get", !.key = {k}] \in Call
      BY CallType DEF Idle, Call
    <3> QED
      BY <1>1, <3>1 DEF AskCache
  <2> QED
    BY <1>1, <2>1, <2>2 DEF AskCache
<1>2. ASSUME NEW c \in Caller, GetLease(c)
      PROVE  TypeOK'
  <2>1. \A h : /\ [call[c] EXCEPT !.pc = "store", !.got = now,
                                   !.isLeader = MatchesIdentity(h)] \in Call
               /\ Idle \in Call
    BY CallType DEF Call, MatchesIdentity
  <2>2. call' \in [Caller -> Call]
    BY <1>2, <2>1 DEF GetLease
  <2>3. lag' \in Nat
    <3>1. now - Until(seen) \in Int /\ lag \in Nat
      BY LeaseType
    <3> QED
      BY <1>2, <3>1 DEF GetLease, Larger
  <2> QED
    BY <1>2, <2>2, <2>3 DEF GetLease
<1>3. ASSUME NEW c \in Caller, StoreAnswer(c)
      PROVE  TypeOK'
  <2>1. NewEntry(c) \in CacheEntry
    BY CallType, ClientAssumption DEF NewEntry, CacheEntry, Time
  <2>2. \A k \in Key : cache'[k] \subseteq CacheEntry
    BY <1>3, <2>1 DEF StoreAnswer
  <2>3. answer' \subseteq Answer /\ call' \in [Caller -> Call]
    BY <1>3, CallType DEF StoreAnswer, Answer
  <2> QED
    BY <1>3, <2>2, <2>3 DEF StoreAnswer
<1>4. CASE ClearCache
  BY <1>4, LeaseType DEF ClearCache, Cleared, Reading
<1>5. CASE LeaseChanges
  <2>1. PICK h \in Holder : lease' = Append(lease, [holder |-> h, from |-> now])
    BY <1>5 DEF LeaseChanges
  <2>2. [holder |-> h, from |-> now] \in Version
    BY DEF Version
  <2>3. lease' \in Seq(Version) /\ Len(lease') = Len(lease) + 1
    BY <2>1, <2>2
  <2>4. seen \in 1 .. Len(lease')
    BY <2>3, LeaseType
  <2> QED
    BY <1>5, <2>3, <2>4 DEF LeaseChanges
<1>6. CASE DeliverLease
  BY <1>6, LeaseType DEF DeliverLease
<1>7. CASE Tick
  BY <1>7, ClientAssumption DEF Tick, Time
<1> QED
  BY <1>1, <1>2, <1>3, <1>4, <1>5, <1>6, <1>7 DEF Next

\* Every variable always holds a value of its type.
THEOREM TypeCorrect == Spec => []TypeOK
<1>1. TypeOK /\ UNCHANGED vars => TypeOK'
  BY DEF TypeOK, vars
<1> QED
  BY <1>1, TypeInit, TypeNext, PTL DEF Spec

-----------------------------------------------------------------------------
(***************************************************************************)
(* How old an answer can be.  The age of a cached answer is not kept in    *)
(* the entry: its expiry bounds it, because the time to live starts at     *)
(* most MaxCall after the Get was answered, and what the informer answered *)
(* had been the Lease at most lag before that.                             *)
(***************************************************************************)

CallsAreRecent ==
    \A c \in Caller :
        call[c].pc = "store" =>
            /\ SaidAtOrAfter(call[c].isLeader, call[c].got - lag)
            /\ now <= call[c].got + MaxCall

CacheIsRecent ==
    \A k \in Key : \A e \in cache[k] :
        SaidAtOrAfter(e.isLeader, e.expires - (MaxCall + TTL) - lag)

RecentInv == CallsAreRecent /\ CacheIsRecent /\ AnswerIsRecent

\* Time goes on, the Lease gets a version or none, and the lag only grows.
GoesOn ==
    /\ now' \in Nat
    /\ now <= now'
    /\ lag' \in Nat
    /\ lag <= lag'
    /\ \/ UNCHANGED lease
       \/ \E h \in Holder : lease' = Append(lease, [holder |-> h, from |-> now])

\* What the Lease was until some moment it was at least until then ever after.
LEMMA VersionsStay ==
  ASSUME TypeOK, GoesOn, NEW v \in 1 .. Len(lease)
  PROVE  /\ v \in 1 .. Len(lease')
         /\ lease'[v] = lease[v]
         /\ Until(v) <= Until(v)'
         /\ Until(v)' \in Nat
<1>0. /\ Len(lease) \in Nat /\ now \in Nat /\ Until(v) \in Nat
      /\ \A w \in 1 .. Len(lease) : lease[w].from \in Nat
  BY LeaseType
<1>1. CASE UNCHANGED lease
  BY <1>0, <1>1 DEF GoesOn, Until
<1>2. ASSUME NEW h \in Holder,
             lease' = Append(lease, [holder |-> h, from |-> now])
      PROVE  /\ v \in 1 .. Len(lease')
             /\ lease'[v] = lease[v]
             /\ Until(v) <= Until(v)'
             /\ Until(v)' \in Nat
  <2>1. lease \in Seq(Version)
    BY DEF TypeOK
  <2>2. /\ Len(lease') = Len(lease) + 1
        /\ \A w \in 1 .. Len(lease) : lease'[w] = lease[w]
        /\ lease'[Len(lease) + 1] = [holder |-> h, from |-> now]
    BY <1>0, <1>2, <2>1
  <2>3. Until(v)' = lease'[v + 1].from
    BY <1>0, <2>2 DEF Until
  <2>4. CASE v = Len(lease)
    BY <1>0, <2>2, <2>3, <2>4 DEF Until
  <2>5. CASE v # Len(lease)
    <3>1. v + 1 \in 1 .. Len(lease)
      BY <1>0, <2>5
    <3> QED
      BY <1>0, <2>2, <2>3, <2>5, <3>1 DEF Until
  <2> QED
    BY <1>0, <2>2, <2>4, <2>5
<1> QED
  BY <1>1, <1>2 DEF GoesOn

\* So what was said at some time or after it stays so, and more lag allows more.
LEMMA SaidStays ==
  ASSUME TypeOK, GoesOn, NEW b, NEW t \in Int, SaidAtOrAfter(b, t - lag)
  PROVE  SaidAtOrAfter(b, t - lag)'
<1>1. PICK v \in 1 .. Len(lease) :
         lease[v].holder = Says(b) /\ t - lag <= Until(v)
  BY DEF SaidAtOrAfter
<1>2. /\ v \in 1 .. Len(lease')
      /\ lease'[v].holder = Says(b)
      /\ Until(v) <= Until(v)' /\ Until(v)' \in Nat /\ Until(v) \in Nat
  BY <1>1, VersionsStay, LeaseType
<1>3. lag \in Nat /\ lag' \in Nat /\ lag <= lag'
  BY LeaseType DEF GoesOn
<1>4. t - lag' <= Until(v)'
  BY <1>1, <1>2, <1>3
<1> QED
  BY <1>2, <1>4 DEF SaidAtOrAfter, Says

\* The fields that the bounds are about are numbers.
LEMMA RecentTypes ==
  ASSUME TypeOK
  PROVE  /\ TTL \in Nat /\ TTL > 0 /\ MaxCall \in Nat
         /\ \A c \in Caller : call[c].got \in Nat
         /\ \A k \in Key : \A e \in cache[k] : e.expires \in Nat
         /\ \A a \in answer : a.at \in Nat
<1>1. \A c \in Caller : call[c].got \in Nat
  BY CallType, ClientAssumption DEF Time
<1> QED
  BY <1>1, ClientAssumption DEF TypeOK, CacheEntry, Answer, Time

\* What is cached and answered stays recent while it is not replaced.
LEMMA CacheStaysRecent ==
  ASSUME TypeOK, GoesOn, CacheIsRecent, UNCHANGED cache
  PROVE  CacheIsRecent'
<1> SUFFICES ASSUME NEW k \in Key, NEW e \in cache[k]
             PROVE  SaidAtOrAfter(e.isLeader,
                                  e.expires - (MaxCall + TTL) - lag)'
  BY DEF CacheIsRecent
<1>1. e.expires - (MaxCall + TTL) \in Int
  BY RecentTypes
<1>2. SaidAtOrAfter(e.isLeader, e.expires - (MaxCall + TTL) - lag)
  BY DEF CacheIsRecent
<1> QED
  BY <1>1, <1>2, SaidStays

LEMMA AnswerStaysRecent ==
  ASSUME TypeOK, GoesOn, AnswerIsRecent, UNCHANGED answer
  PROVE  AnswerIsRecent'
<1> SUFFICES ASSUME NEW a \in answer
             PROVE  SaidAtOrAfter(a.isLeader,
                                  a.at - (TTL + MaxCall - 1) - lag)'
  BY DEF AnswerIsRecent
<1>1. a.at - (TTL + MaxCall - 1) \in Int
  BY RecentTypes
<1>2. SaidAtOrAfter(a.isLeader, a.at - (TTL + MaxCall - 1) - lag)
  BY DEF AnswerIsRecent
<1> QED
  BY <1>1, <1>2, SaidStays

\* So does what a call carries, while it can still be stored in time.
LEMMA CallStaysRecent ==
  ASSUME TypeOK, GoesOn, CallsAreRecent, NEW c \in Caller,
         call[c].pc = "store", call'[c] = call[c],
         now' <= call[c].got + MaxCall
  PROVE  /\ SaidAtOrAfter(call[c].isLeader, call[c].got - lag)'
         /\ (now <= call[c].got + MaxCall)'
<1>1. call[c].got \in Int /\ SaidAtOrAfter(call[c].isLeader, call[c].got - lag)
  BY RecentTypes DEF CallsAreRecent
<1>2. PICK b, t : b = call[c].isLeader /\ t = call[c].got
  OBVIOUS
<1>3. SaidAtOrAfter(b, t - lag)'
  BY <1>1, <1>2, SaidStays
<1> QED
  BY <1>2, <1>3

\* A call that has been answered carries what the informer had, and the lag
\* covers how old that was.
LEMMA CallRead ==
  ASSUME TypeOK, NEW c \in Caller, GetLease(c), NEW d \in Caller,
         call'[d].pc = "store", call'[d] # call[d]
  PROVE  /\ call'[d].got = now
         /\ Says(call'[d].isLeader) = lease[seen].holder
         /\ now - Until(seen) <= lag'
<1>0. call \in [Caller -> Call] /\ seen \in 1 .. Len(lease)
  BY DEF TypeOK
<1>1. /\ lease[seen].holder \in Holder
      /\ lag \in Nat /\ now - Until(seen) \in Int
  BY <1>0, LeaseType
<1> DEFINE isLeader == MatchesIdentity(lease[seen].holder)
           read == [call[c] EXCEPT !.pc = "store", !.got = now,
                                   !.isLeader = isLeader]
<1>2. d = c
  BY <1>0 DEF GetLease
<1>3. CASE call' = [call EXCEPT ![c] = Idle]
  BY <1>0, <1>2, <1>3 DEF Idle
<1>4. CASE /\ lease[seen].holder # "absent"
           /\ call' = [call EXCEPT ![c] = read]
           /\ lag' = Larger(lag, now - Until(seen))
  <2>1. read.got = now /\ read.isLeader = isLeader
    <3> HIDE DEF isLeader
    <3> QED
      BY <1>0 DEF Call
  <2>2. Says(isLeader) = lease[seen].holder
    BY <1>1, <1>4 DEF Says, MatchesIdentity, Holder
  <2>3. call'[d] = read
    <3> HIDE DEF read
    <3> QED
      BY <1>0, <1>2, <1>4
  <2>4. now - Until(seen) <= lag'
    BY <1>1, <1>4 DEF Larger
  <2> HIDE DEF read, isLeader
  <2> QED
    BY <2>1, <2>2, <2>3, <2>4
<1> QED
  BY <1>3, <1>4 DEF GetLease

LEMMA RecentNext == TypeOK /\ RecentInv /\ Next => RecentInv'
<1> SUFFICES ASSUME TypeOK, CallsAreRecent, CacheIsRecent, AnswerIsRecent, Next
             PROVE  RecentInv'
  BY DEF RecentInv
<1>0. /\ now \in Nat /\ lag \in Nat
      /\ TTL \in Nat /\ TTL > 0 /\ MaxCall \in Nat
      /\ call \in [Caller -> Call]
  BY LeaseType, RecentTypes DEF TypeOK
<1>1. ASSUME NEW c \in Caller, NEW k \in Key, AskCache(c, k)
      PROVE  RecentInv'
  <2>1. UNCHANGED <<now, lease, cache, lag>> /\ GoesOn
    BY <1>0, <1>1 DEF AskCache, GoesOn
  <2>2. CallsAreRecent'
    <3> SUFFICES ASSUME NEW d \in Caller, call'[d].pc = "store"
                 PROVE  /\ SaidAtOrAfter(call[d].isLeader, call[d].got - lag)'
                        /\ (now <= call[d].got + MaxCall)'
      BY DEF CallsAreRecent
    <3>1. call'[d] = call[d]
      BY <1>0, <1>1 DEF AskCache, Idle
    <3>2. now' <= call[d].got + MaxCall
      BY <2>1, <3>1 DEF CallsAreRecent
    <3> QED
      BY <2>1, <3>1, <3>2, CallStaysRecent
  <2>3. AnswerIsRecent'
    <3>1. CASE UNCHANGED answer
      BY <2>1, <3>1, AnswerStaysRecent
    <3>2. ASSUME NEW e \in cache[k], Fresh(e),
                 answer' = {[isLeader |-> e.isLeader, at |-> now]}
          PROVE  AnswerIsRecent'
      <4>1. e.expires \in Nat /\ now < e.expires
        BY <3>2, RecentTypes DEF Fresh
      <4>2. PICK v \in 1 .. Len(lease) :
               /\ lease[v].holder = Says(e.isLeader)
               /\ e.expires - (MaxCall + TTL) - lag <= Until(v)
        BY DEF CacheIsRecent, SaidAtOrAfter
      <4>3. Until(v) \in Nat
        BY LeaseType
      <4>4. now - (TTL + MaxCall - 1) - lag <= Until(v)
        <5> DEFINE x == e.expires
                   u == Until(v)
        <5>1. /\ x \in Nat /\ now < x /\ u \in Nat
              /\ x - (MaxCall + TTL) - lag <= u
          BY <4>1, <4>2, <4>3
        <5> HIDE DEF x, u
        <5>2. now - (TTL + MaxCall - 1) - lag <= u
          BY <1>0, <5>1
        <5> QED
          BY <5>2 DEF u
      <4> QED
        BY <2>1, <3>2, <4>2, <4>4 DEF AnswerIsRecent, SaidAtOrAfter, Until
    <3> QED
      BY <1>1, <3>1, <3>2 DEF AskCache
  <2> QED
    BY <2>1, <2>2, <2>3, CacheStaysRecent DEF RecentInv
<1>2. ASSUME NEW c \in Caller, GetLease(c)
      PROVE  RecentInv'
  <2>1. /\ UNCHANGED <<now, lease, seen, cache, answer>>
        /\ lag' \in Nat /\ lag <= lag'
    <3>1. now - Until(seen) \in Int
      BY LeaseType DEF TypeOK
    <3> QED
      BY <1>0, <1>2, <3>1 DEF GetLease, Larger
  <2>2. GoesOn
    BY <1>0, <2>1 DEF GoesOn
  <2>3. CallsAreRecent'
    <3> SUFFICES ASSUME NEW d \in Caller, call'[d].pc = "store"
                 PROVE  /\ SaidAtOrAfter(call[d].isLeader, call[d].got - lag)'
                        /\ (now <= call[d].got + MaxCall)'
      BY DEF CallsAreRecent
    <3>1. CASE call'[d] = call[d]
      <4>1. now' <= call[d].got + MaxCall
        BY <2>1, <3>1 DEF CallsAreRecent
      <4> QED
        BY <2>2, <3>1, <4>1, CallStaysRecent
    <3>2. CASE call'[d] # call[d]
      <4>1. /\ call'[d].got = now
            /\ Says(call'[d].isLeader) = lease[seen].holder
            /\ now - Until(seen) <= lag'
        BY <1>2, <3>2, CallRead
      <4>2. seen \in 1 .. Len(lease) /\ Until(seen) \in Nat
        BY LeaseType DEF TypeOK
      <4>3. now - lag' <= Until(seen)
        BY <1>0, <2>1, <4>1, <4>2
      <4>4. SaidAtOrAfter(call[d].isLeader, call[d].got - lag)'
        BY <2>1, <4>1, <4>2, <4>3 DEF SaidAtOrAfter, Until, Says
      <4> QED
        BY <1>0, <2>1, <4>1, <4>4
    <3> QED
      BY <3>1, <3>2
  <2> QED
    BY <2>1, <2>2, <2>3, CacheStaysRecent, AnswerStaysRecent DEF RecentInv
<1>3. ASSUME NEW c \in Caller, StoreAnswer(c)
      PROVE  RecentInv'
  <2>1. UNCHANGED <<now, lease, lag>> /\ GoesOn
    BY <1>0, <1>3 DEF StoreAnswer, GoesOn
  <2> DEFINE got == call[c].got
             isLeader == call[c].isLeader
  <2>2. /\ got \in Nat /\ now <= got + MaxCall
        /\ SaidAtOrAfter(isLeader, got - lag)
    BY <1>3, RecentTypes DEF StoreAnswer, CallsAreRecent
  <2>3. PICK v \in 1 .. Len(lease) :
           lease[v].holder = Says(isLeader) /\ got - lag <= Until(v)
    BY <2>2 DEF SaidAtOrAfter
  <2>4. Until(v) \in Nat
    BY LeaseType
  <2>5. CallsAreRecent'
    <3> SUFFICES ASSUME NEW d \in Caller, call'[d].pc = "store"
                 PROVE  /\ SaidAtOrAfter(call[d].isLeader, call[d].got - lag)'
                        /\ (now <= call[d].got + MaxCall)'
      BY DEF CallsAreRecent
    <3>1. call'[d] = call[d]
      BY <1>0, <1>3 DEF StoreAnswer, Idle
    <3>2. now' <= call[d].got + MaxCall
      BY <2>1, <3>1 DEF CallsAreRecent
    <3> QED
      BY <2>1, <3>1, <3>2, CallStaysRecent
  <2>6. CacheIsRecent'
    <3>1. \A x : x = now + TTL => x - (MaxCall + TTL) - lag <= Until(v)
      BY <1>0, <2>2, <2>3, <2>4
    <3>2. \A k \in Key : cache'[k] \in {cache[k], {NewEntry(c)}}
      BY <1>3 DEF StoreAnswer
    <3>3. /\ NewEntry(c).isLeader = isLeader
          /\ NewEntry(c).expires = now + TTL
      BY DEF NewEntry
    <3>4. NewEntry(c).expires - (MaxCall + TTL) - lag <= Until(v)
      BY <3>1, <3>3
    <3>5. SaidAtOrAfter(NewEntry(c).isLeader,
                        NewEntry(c).expires - (MaxCall + TTL) - lag)
      BY <2>3, <3>3, <3>4 DEF SaidAtOrAfter
    <3> HIDE DEF got, isLeader
    <3> QED
      BY <2>1, <3>2, <3>5 DEF CacheIsRecent, SaidAtOrAfter, Until
  <2>7. AnswerIsRecent'
    <3>1. now - (TTL + MaxCall - 1) - lag <= Until(v)
      BY <1>0, <2>2, <2>3, <2>4
    <3>2. answer' = {[isLeader |-> isLeader, at |-> now]}
      BY <1>3 DEF StoreAnswer
    <3> QED
      BY <2>1, <2>3, <3>1, <3>2 DEF AnswerIsRecent, SaidAtOrAfter, Until
  <2> QED
    BY <2>5, <2>6, <2>7 DEF RecentInv
<1>4. ASSUME ClearCache \/ LeaseChanges \/ DeliverLease
      PROVE  RecentInv'
  <2>1. UNCHANGED <<now, call, answer, lag>>
    BY <1>4 DEF ClearCache, LeaseChanges, DeliverLease
  <2>2. GoesOn
    <3>1. CASE LeaseChanges
      BY <1>0, <2>1, <3>1 DEF LeaseChanges, GoesOn
    <3>2. CASE ClearCache \/ DeliverLease
      BY <1>0, <2>1, <3>2 DEF ClearCache, DeliverLease, GoesOn
    <3> QED
      BY <1>4, <3>1, <3>2
  <2>3. CallsAreRecent'
    <3> SUFFICES ASSUME NEW d \in Caller, call'[d].pc = "store"
                 PROVE  /\ SaidAtOrAfter(call[d].isLeader, call[d].got - lag)'
                        /\ (now <= call[d].got + MaxCall)'
      BY DEF CallsAreRecent
    <3>1. call'[d] = call[d] /\ now' <= call[d].got + MaxCall
      BY <2>1 DEF CallsAreRecent
    <3> QED
      BY <2>1, <2>2, <3>1, CallStaysRecent
  <2>4. CacheIsRecent'
    <3>1. CASE UNCHANGED cache
      BY <2>2, <3>1, CacheStaysRecent
    <3>2. CASE ClearCache
      BY <3>2 DEF ClearCache, Cleared, CacheIsRecent
    <3> QED
      BY <1>4, <3>1, <3>2 DEF LeaseChanges, DeliverLease
  <2> QED
    BY <2>1, <2>2, <2>3, <2>4, AnswerStaysRecent DEF RecentInv
<1>5. CASE Tick
  <2>1. /\ UNCHANGED <<lease, cache, call, answer, lag>>
        /\ now' = now + 1
        /\ GoesOn
    BY <1>0, <1>5 DEF Tick, GoesOn
  <2>2. CallsAreRecent'
    <3> SUFFICES ASSUME NEW d \in Caller, call'[d].pc = "store"
                 PROVE  /\ SaidAtOrAfter(call[d].isLeader, call[d].got - lag)'
                        /\ (now <= call[d].got + MaxCall)'
      BY DEF CallsAreRecent
    <3>1. d \in Reading /\ call[d].got \in Nat
      BY <2>1, RecentTypes DEF Reading
    <3>2. now' <= call[d].got + MaxCall
      BY <1>0, <1>5, <2>1, <3>1 DEF Tick
    <3> QED
      BY <2>1, <3>2, CallStaysRecent
  <2> QED
    BY <2>1, <2>2, CacheStaysRecent, AnswerStaysRecent DEF RecentInv
<1> QED
  BY <1>1, <1>2, <1>3, <1>4, <1>5 DEF Next

\* However the Lease changes hands, however far the informer is behind and
\* however the calls overlap, an answer agrees with a Lease that was there less
\* than TTL + MaxCall before, plus the informer's lag: the split brain that
\* IsLeader's cache allows is bounded.
THEOREM AnswersAreRecent == Spec => []AnswerIsRecent
<1>1. Init => TypeOK /\ RecentInv
  BY TypeInit DEF Init, Idle, RecentInv, CallsAreRecent, CacheIsRecent,
                  AnswerIsRecent
<1>2. TypeOK /\ RecentInv /\ [Next]_vars => (TypeOK /\ RecentInv)'
  <2>1. TypeOK /\ RecentInv /\ UNCHANGED vars => (TypeOK /\ RecentInv)'
    BY DEF TypeOK, vars, RecentInv, CallsAreRecent, CacheIsRecent,
           AnswerIsRecent, SaidAtOrAfter, Until
  <2> QED
    BY <2>1, TypeNext, RecentNext
<1>3. RecentInv => AnswerIsRecent
  BY DEF RecentInv
<1> QED
  BY <1>1, <1>2, <1>3, PTL DEF Spec

-----------------------------------------------------------------------------
(***************************************************************************)
(* What ClearCache forgets.                                                *)
(***************************************************************************)

ClearInv ==
    /\ \A c \in Reading \ racing : SaidSince(call[c].isLeader, cleared)
    /\ ClearForgets

\* What a version said it says ever after.
LEMMA SaidSinceStays ==
  ASSUME TypeOK, NEW b, SaidSince(b, cleared), UNCHANGED cleared,
         UNCHANGED lease \/ LeaseChanges
  PROVE  SaidSince(b, cleared)'
<1>1. PICK w \in cleared .. Len(lease) : lease[w].holder = Says(b)
  BY DEF SaidSince
<1>2. /\ Len(lease) \in Nat /\ cleared \in Nat /\ cleared >= 1
      /\ lease \in Seq(Version) /\ w \in 1 .. Len(lease)
  BY <1>1, LeaseType DEF TypeOK
<1>3. w \in cleared' .. Len(lease') /\ lease'[w] = lease[w]
  <2>1. CASE UNCHANGED lease
    BY <1>1, <2>1
  <2>2. ASSUME NEW h \in Holder,
               lease' = Append(lease, [holder |-> h, from |-> now])
        PROVE  w \in cleared' .. Len(lease') /\ lease'[w] = lease[w]
    BY <1>1, <1>2, <2>2
  <2> QED
    BY <2>1, <2>2 DEF LeaseChanges
<1> QED
  BY <1>1, <1>3 DEF SaidSince, Says

\* ClearInv is kept by a step in which every call that has been answered, and
\* every entry, was there before or agrees with a version since the clear.
LEMMA ClearKept ==
  ASSUME TypeOK, ClearInv, UNCHANGED <<cleared, racing>>,
         UNCHANGED lease \/ LeaseChanges,
         \A d \in Caller : call'[d].pc = "store" =>
             \/ call'[d] = call[d]
             \/ SaidSince(call[d].isLeader, cleared)',
         racing = {} =>
             \A k \in Key : \A e \in cache'[k] :
                 e \in cache[k] \/ SaidSince(e.isLeader, cleared)
  PROVE  ClearInv'
<1>1. ASSUME NEW d \in Reading', d \notin racing
      PROVE  SaidSince(call[d].isLeader, cleared)'
  <2>1. CASE call'[d] = call[d]
    <3>1. SaidSince(call[d].isLeader, cleared)
      BY <1>1, <2>1 DEF Reading, ClearInv
    <3>2. PICK b : b = call[d].isLeader
      OBVIOUS
    <3>3. SaidSince(b, cleared)'
      BY <3>1, <3>2, SaidSinceStays
    <3> QED
      BY <2>1, <3>2, <3>3
  <2>2. CASE call'[d] # call[d]
    BY <1>1, <2>2 DEF Reading
  <2> QED
    BY <2>1, <2>2
<1>2. ASSUME racing = {}, NEW k \in Key, NEW e \in cache'[k]
      PROVE  SaidSince(e.isLeader, cleared)'
  <2>1. SaidSince(e.isLeader, cleared)
    BY <1>2 DEF ClearInv, ClearForgets
  <2> QED
    BY <2>1, SaidSinceStays
<1> QED
  BY <1>1, <1>2 DEF ClearInv, ClearForgets

LEMMA ClearNext == TypeOK /\ ClearInv /\ Next => ClearInv'
<1> SUFFICES ASSUME TypeOK, ClearInv, Next PROVE ClearInv'
  OBVIOUS
<1>0. call \in [Caller -> Call]
  BY DEF TypeOK
<1>1. ASSUME NEW c \in Caller, NEW k \in Key, AskCache(c, k)
      PROVE  ClearInv'
  <2>1. \A d \in Caller : call'[d].pc = "store" => call'[d] = call[d]
    BY <1>0, <1>1 DEF AskCache, Idle
  <2> QED
    BY <1>1, <2>1, ClearKept DEF AskCache
<1>2. ASSUME NEW c \in Caller, GetLease(c)
      PROVE  ClearInv'
  <2>1. UNCHANGED <<lease, seen, cache, cleared, racing>>
    BY <1>2 DEF GetLease
  <2>2. ASSUME NEW d \in Caller, call'[d].pc = "store", call'[d] # call[d]
        PROVE  SaidSince(call[d].isLeader, cleared)'
    <3>1. Says(call'[d].isLeader) = lease[seen].holder
      BY <1>2, <2>2, CallRead
    <3>2. seen \in cleared .. Len(lease)
      BY LeaseType DEF TypeOK
    <3> QED
      BY <2>1, <3>1, <3>2 DEF SaidSince, Says
  <2> QED
    BY <2>1, <2>2, ClearKept
<1>3. ASSUME NEW c \in Caller, StoreAnswer(c)
      PROVE  ClearInv'
  <2>1. UNCHANGED <<lease, cleared, racing>>
    BY <1>3 DEF StoreAnswer
  <2>2. \A d \in Caller : call'[d].pc = "store" => call'[d] = call[d]
    BY <1>0, <1>3 DEF StoreAnswer, Idle
  <2>3. racing = {} => SaidSince(NewEntry(c).isLeader, cleared)
    BY <1>3 DEF StoreAnswer, Reading, ClearInv, NewEntry
  <2>4. \A k \in Key : cache'[k] \in {cache[k], {NewEntry(c)}}
    BY <1>3 DEF StoreAnswer
  <2> QED
    BY <2>1, <2>2, <2>3, <2>4, ClearKept
<1>4. CASE ClearCache
  BY <1>4 DEF ClearCache, Cleared, Reading, ClearInv, ClearForgets
<1>5. CASE LeaseChanges
  BY <1>5, ClearKept DEF LeaseChanges
<1>6. CASE DeliverLease
  BY <1>6, ClearKept DEF DeliverLease
<1>7. CASE Tick
  BY <1>7, ClearKept DEF Tick
<1> QED
  BY <1>1, <1>2, <1>3, <1>4, <1>5, <1>6, <1>7 DEF Next

\* ClearCache forces a new look at the Lease, however many goroutines share the
\* client: only a call that it finds between its Get and its store can bring back
\* what the informer had before.
THEOREM ClearCacheForgets == Spec => []ClearForgets
<1>1. Init => TypeOK /\ ClearInv
  BY TypeInit DEF Init, Idle, ClearInv, ClearForgets, Reading
<1>2. TypeOK /\ ClearInv /\ [Next]_vars => (TypeOK /\ ClearInv)'
  <2>1. TypeOK /\ ClearInv /\ UNCHANGED vars => (TypeOK /\ ClearInv)'
    BY DEF TypeOK, vars, ClearInv, ClearForgets, Reading, SaidSince
  <2> QED
    BY <2>1, TypeNext, ClearNext
<1>3. ClearInv => ClearForgets
  BY DEF ClearInv
<1> QED
  BY <1>1, <1>2, <1>3, PTL DEF Spec

=============================================================================
