------------------------- MODULE SessionKeysProofs -------------------------
(***************************************************************************)
(* Proofs about ImageServiceManager, and about SessionKeys that composes   *)
(* it with the session registry, for every set of users, sessions, keys    *)
(* and threads, every configuration and any number of restarts of the      *)
(* service.  The first part is about the key manager alone.                *)
(***************************************************************************)
EXTENDS SessionKeys, TLAPS

LEMMA Threshold == CircuitBreakerThreshold \in Nat
  BY ImageAssumption

(***************************************************************************)
(* TypeOK in four parts, which the provers take one at a time.             *)
(***************************************************************************)
CacheType ==
    /\ SessionTokenToImageKey \in [Sessions -> Keys \cup {NoKey}]
    /\ SessionTokenToImageKeyIssuedAt \in [Sessions -> {"none", "fresh", "stale"}]
    /\ FailedKeyRegistrations \in [Sessions -> {"none", "recent", "old"}]
CountType == ConsecutiveImageServiceFailures \in 0..CircuitBreakerThreshold
FlagType == Cooling \in BOOLEAN /\ ProbeDue \in BOOLEAN /\ up \in BOOLEAN
ProbeType == LastKnownInstanceId \in Nat /\ probePc \in ProbePcValues /\ probed \in Nat
CallType ==
    /\ pc \in [Threads -> PcValues]
    /\ arg \in [Threads -> Sessions \cup {NoSession}]
    /\ \A th \in Threads : pc[th] # "idle" => arg[th] \in Sessions
    /\ key \in [Threads -> Keys \cup {NoKey}]
    /\ \A th \in Threads : pc[th] \in {"store", "breaker", "delete"} => key[th] \in Keys
ServiceType ==
    /\ instance \in Nat
    /\ registered \subseteq Keys
    /\ issuedTo \in [Keys -> Sessions \cup {NoSession}]
    /\ issuedBy \in [Keys -> Nat]
    /\ withdrawn \subseteq Keys

LEMMA TypeParts ==
  /\ TypeOK <=> CacheType /\ CountType /\ FlagType /\ ProbeType /\ CallType /\ ServiceType
  /\ TypeOK' <=> CacheType' /\ CountType' /\ FlagType' /\ ProbeType' /\ CallType' /\ ServiceType'
  BY DEF TypeOK, CacheType, CountType, FlagType, ProbeType, CallType, ServiceType

LEMMA TypeInit == Init => TypeOK
  <1> SUFFICES ASSUME Init PROVE TypeOK
    OBVIOUS
  <1>1. CacheType
    BY DEF Init, CacheType
  <1>2. CountType
    BY Threshold DEF Init, CountType
  <1>3. FlagType
    BY DEF Init, FlagType
  <1>4. ProbeType
    BY DEF Init, ProbeType, ProbePcValues
  <1>5. CallType
    BY DEF Init, CallType, PcValues
  <1>6. ServiceType
    BY DEF Init, ServiceType
  <1> QED BY <1>1, <1>2, <1>3, <1>4, <1>5, <1>6, TypeParts

\* The breaker keeps its type whatever is recorded: a failure is counted only below
\* the threshold.
LEMMA RecordType ==
  ASSUME CountType, Cooling \in BOOLEAN,
         RecordImageServiceFailureLocked \/ RecordImageServiceSuccessLocked
  PROVE  CountType' /\ Cooling' \in BOOLEAN
  <1>1. CASE RecordImageServiceFailureLocked /\ CircuitBreakerThreshold # 0
    BY <1>1, Threshold DEF RecordImageServiceFailureLocked, CountType, Tripped
  <1>2. CASE RecordImageServiceFailureLocked /\ CircuitBreakerThreshold = 0
    BY <1>2, Zenon DEF RecordImageServiceFailureLocked, breaker, CountType
  <1>3. CASE RecordImageServiceSuccessLocked
    <2>1. CountType'
      BY <1>3, Threshold DEF RecordImageServiceSuccessLocked, CountType
    <2>2. Cooling' \in BOOLEAN
      BY <1>3 DEF RecordImageServiceSuccessLocked
    <2> QED BY <2>1, <2>2
  <1> QED BY <1>1, <1>2, <1>3

LEMMA TypeThread ==
  ASSUME TypeOK, NEW th \in Threads, SomeCall(th) \/ ThreadStep(th)
  PROVE  TypeOK'
  <1> USE DEF calls, cache, service, history, probe, breaker, Goto, Return, PcValues
  <1>0. CacheType /\ CountType /\ FlagType /\ ProbeType /\ CallType /\ ServiceType
    BY TypeParts
  <1>1. ASSUME NEW s \in Sessions, NEW step \in {"register", "get", "revoke"}, Call(th, s, step)
        PROVE  TypeOK'
    BY <1>0, <1>1, TypeParts DEF Call, CallType, CacheType, CountType, FlagType, ProbeType,
       ServiceType
  <1>2. CASE GetKeyForSession(th) \/ RegisterCached(th) \/ PostFails(th) \/ RevokeBreaker(th)
    BY <1>0, <1>2, TypeParts DEF GetKeyForSession, RegisterCached, PostFails, RevokeBreaker,
       CallType, CacheType, CountType, FlagType, ProbeType, ServiceType
  <1>3. CASE RegisterDecide(th)
    BY <1>0, <1>3, TypeParts DEF RegisterDecide, CallType, CacheType, SetKey, CountType, FlagType,
       ProbeType, ServiceType
  <1>4. CASE PostIssues(th)
    BY <1>0, <1>4, TypeParts DEF PostIssues, CallType, ServiceType, CacheType, CountType, FlagType,
       ProbeType
  <1>5. CASE StoreKey(th) \/ RecordKeyRegistrationFailure(th)
    BY <1>0, <1>5, RecordType, TypeParts DEF StoreKey, RecordKeyRegistrationFailure, CallType,
       CacheType, SetKey, FlagType, ProbeType, ServiceType
  <1>6. CASE RevokeErase(th) \/ DeleteKey(th) \/ DeleteFails(th)
    <2>1. CallType'
      BY <1>6, <1>0 DEF RevokeErase, DeleteKey, DeleteFails, CallType, CacheType, Cached
    <2>2. CacheType'
      BY <1>6, <1>0 DEF RevokeErase, DeleteKey, DeleteFails, CallType, CacheType, SetKey
    <2>3. ServiceType'
      BY <1>6, <1>0 DEF RevokeErase, DeleteKey, DeleteFails, CallType, CacheType, ServiceType, Cached
    <2>4. CountType' /\ FlagType' /\ ProbeType'
      BY <1>6, <1>0 DEF RevokeErase, DeleteKey, DeleteFails, CountType, FlagType, ProbeType
    <2> QED BY <2>1, <2>2, <2>3, <2>4, TypeParts
  <1> QED
    BY <1>1, <1>2, <1>3, <1>4, <1>5, <1>6
       DEF SomeCall, ThreadStep, RegisterStep, RevokeStep, CallRegisterKey, CallGetKeyForSession,
           CallRevokeKey

LEMMA TypeProbe ==
  ASSUME TypeOK, ProbeInstanceId
  PROVE  TypeOK'
  <1> USE DEF calls, cache, service, history, probe, breaker, ProbePcValues
  <1>0. CacheType /\ CountType /\ FlagType /\ ProbeType /\ CallType /\ ServiceType
    BY TypeParts
  <1>1. UNCHANGED calls /\ UNCHANGED service /\ UNCHANGED history
    BY DEF ProbeInstanceId, ProbeStart, ProbeRequest, ProbeFailed, ProbeRecord
  <1>2. CallType' /\ ServiceType'
    BY <1>0, <1>1 DEF CallType, ServiceType
  <1>3. ProbeType'
    BY <1>0 DEF ProbeInstanceId, ProbeStart, ProbeRequest, ProbeFailed, ProbeRecord, ProbeType,
                ServiceType
  <1>4. CacheType'
    BY <1>0 DEF ProbeInstanceId, ProbeStart, ProbeRequest, ProbeFailed, ProbeRecord, CacheType,
                InvalidateAllCachedKeysLocked
  <1>5. CountType' /\ Cooling' \in BOOLEAN
    BY <1>0, RecordType DEF ProbeFailed, ProbeRecord, FlagType, ProbeStart, ProbeRequest, CountType,
       ProbeInstanceId
  <1>6. ProbeDue' \in {ProbeDue, FALSE}
    BY DEF ProbeInstanceId, ProbeStart, ProbeRequest, ProbeFailed, ProbeRecord
  <1>7. FlagType'
    BY <1>0, <1>1, <1>5, <1>6, Zenon DEF FlagType
  <1> QED BY <1>2, <1>3, <1>4, <1>5, <1>7, TypeParts

LEMMA TypeTime ==
  ASSUME TypeOK, TimePasses \/ ServiceStep
  PROVE  TypeOK'
  <1> USE DEF calls, cache, service, history, probe, breaker
  <1>0. CacheType /\ CountType /\ FlagType /\ ProbeType /\ CallType /\ ServiceType
    BY TypeParts
  <1> USE DEF TimePasses, ServiceStep, BreakerCooldownElapses, ProbeIntervalElapses, CacheAges,
              ServiceStops, ServiceStarts
  <1>1. CacheType'
    BY <1>0 DEF CacheType, KeyExpires, RetryCooldownElapses
  <1>2. CountType' /\ CallType' /\ ProbeType'
    BY <1>0 DEF CountType, CallType, ProbeType
  <1>3. ServiceType'
    BY <1>0 DEF ServiceType
  <1>4. Cooling' \in {Cooling, FALSE} /\ ProbeDue' \in {ProbeDue, TRUE} /\ up' \in {up, TRUE, FALSE}
    OBVIOUS
  <1>5. FlagType'
    BY <1>0, <1>4, Zenon DEF FlagType
  <1> QED BY <1>1, <1>2, <1>3, <1>5, TypeParts

LEMMA TypeStep == TypeOK /\ [Next]_vars => TypeOK'
  BY TypeThread, TypeProbe, TypeTime DEF TypeOK, vars, calls, cache, service, history, probe,
     breaker, Next

\* The cache, the breaker, the probe, the calls and the service always have their types:
\* the clamped count of failures never passes the threshold, and a key at hand is a key.
THEOREM TypeCorrect == Spec => []TypeOK
  BY TypeInit, TypeStep, PTL DEF Spec

(***************************************************************************)
(* Who has a key.  A key the service issued is in one place at a time: in  *)
(* the cache, on its way there with the thread that posted, or on its way  *)
(* out with the thread that revokes it.  So the DELETE of one thread never *)
(* hits a key that the cache still hands out.                              *)
(***************************************************************************)
Holding(th) == pc[th] \in {"store", "breaker", "delete"}

CacheApart ==
    \A s1, s2 \in Sessions :
        Cached(s1) /\ SessionTokenToImageKey[s1] = SessionTokenToImageKey[s2] => s1 = s2
CacheThreadApart ==
    \A s \in Sessions, th \in Threads : Holding(th) => SessionTokenToImageKey[s] # key[th]
ThreadsApart ==
    \A t1, t2 \in Threads : Holding(t1) /\ Holding(t2) /\ key[t1] = key[t2] => t1 = t2

\* A key anybody knows of has been issued, and by an instance that has started.
KnownIssued ==
    /\ \A s \in Sessions : Cached(s) => issuedTo[SessionTokenToImageKey[s]] # NoSession
    /\ \A th \in Threads : key[th] # NoKey => issuedTo[key[th]] # NoSession
IssuedByStarted == \A k \in Keys : issuedBy[k] <= instance

\* A key that is on its way to the cache is as good as a cached one.
StoredKeyAccepted ==
    \A th \in Threads :
        pc[th] = "store" /\ up /\ issuedBy[key[th]] = instance => key[th] \in registered

KeysInv ==
    /\ CacheApart /\ CacheThreadApart /\ ThreadsApart
    /\ KnownIssued /\ IssuedByStarted
    /\ StoredKeyAccepted /\ CachedKeyAccepted

IInv == TypeOK /\ IssuedIffCached /\ KeysInv

LEMMA InvInit == Init => IInv
  <1> SUFFICES ASSUME Init PROVE IInv
    OBVIOUS
  <1>1. IssuedIffCached
    BY DEF Init, IssuedIffCached, Cached
  <1>2. KeysInv
    BY DEF Init, KeysInv, CacheApart, CacheThreadApart, ThreadsApart, KnownIssued, Holding, Cached,
           IssuedByStarted, StoredKeyAccepted, CachedKeyAccepted
  <1> QED BY <1>1, <1>2, TypeInit DEF IInv

\* What the invariant speaks of, and what the provers need to know of its types.
LEMMA KeysFacts ==
  ASSUME TypeOK
  PROVE  /\ SessionTokenToImageKey \in [Sessions -> Keys \cup {NoKey}]
         /\ SessionTokenToImageKeyIssuedAt \in [Sessions -> {"none", "fresh", "stale"}]
         /\ pc \in [Threads -> PcValues]
         /\ \A th \in Threads : pc[th] # "idle" => arg[th] \in Sessions
         /\ key \in [Threads -> Keys \cup {NoKey}]
         /\ \A th \in Threads : Holding(th) => key[th] \in Keys
         /\ instance \in Nat /\ registered \subseteq Keys
         /\ issuedTo \in [Keys -> Sessions \cup {NoSession}]
         /\ issuedBy \in [Keys -> Nat]
         /\ NoKey \notin Keys /\ NoSession \notin Sessions
  BY ImageAssumption, Zenon DEF TypeOK, Holding

\* The key and the issue time of a session are always written together.
LEMMA IssuedStep ==
  ASSUME TypeOK, IssuedIffCached, [Next]_vars
  PROVE  IssuedIffCached'
  <1> USE KeysFacts DEF IssuedIffCached, Cached, cache, calls
  <1>1. ASSUME NEW th \in Threads, SomeCall(th) \/ ThreadStep(th) PROVE IssuedIffCached'
    <2>1. CASE RegisterDecide(th)
      BY <2>1 DEF RegisterDecide, SetKey
    <2>2. CASE StoreKey(th)
      BY <2>2 DEF StoreKey, SetKey, Holding
    <2>3. CASE RevokeErase(th)
      BY <2>3 DEF RevokeErase, SetKey
    <2> QED
      BY <1>1, <2>1, <2>2, <2>3
         DEF ThreadStep, RegisterStep, RevokeStep, SomeCall, CallRegisterKey,
             CallGetKeyForSession, CallRevokeKey, Call, GetKeyForSession, RegisterCached,
             PostIssues, PostFails, RecordKeyRegistrationFailure, RevokeBreaker, DeleteKey, DeleteFails
  <1>2. CASE ProbeInstanceId
    BY <1>2 DEF ProbeInstanceId, ProbeStart, ProbeRequest, ProbeFailed, ProbeRecord,
                InvalidateAllCachedKeysLocked
  <1>3. CASE TimePasses \/ ServiceStep
    BY <1>3 DEF TimePasses, ServiceStep, BreakerCooldownElapses, ProbeIntervalElapses, CacheAges,
                KeyExpires, RetryCooldownElapses, ServiceStops, ServiceStarts
  <1>4. CASE UNCHANGED vars
    BY <1>4 DEF vars
  <1> QED BY <1>1, <1>2, <1>3, <1>4 DEF Next

LEMMA KeysThread ==
  ASSUME TypeOK, KeysInv, NEW th \in Threads, SomeCall(th) \/ ThreadStep(th)
  PROVE  KeysInv'
  <1> USE KeysFacts DEF KeysInv, CacheApart, CacheThreadApart, ThreadsApart, KnownIssued, Holding,
          Cached, IssuedByStarted, StoredKeyAccepted, CachedKeyAccepted, Goto, Return, PcValues,
          cache, service, history
  <1>1. ASSUME NEW s \in Sessions, NEW step \in {"register", "get", "revoke"}, Call(th, s, step)
        PROVE  KeysInv'
    BY <1>1 DEF Call
  <1>2. CASE GetKeyForSession(th) \/ RegisterCached(th) \/ PostFails(th) \/ RevokeBreaker(th)
    BY <1>2 DEF GetKeyForSession, RegisterCached, PostFails, RevokeBreaker
  <1>3. CASE RecordKeyRegistrationFailure(th)
    BY <1>3 DEF RecordKeyRegistrationFailure
  <1>4. CASE RegisterDecide(th)
    BY <1>4 DEF RegisterDecide, SetKey
  <1>5. ASSUME NEW k \in Keys, Unissued(k),
               pc[th] = "post", up,
               registered' = registered \cup {k},
               issuedTo' = [issuedTo EXCEPT ![k] = arg[th]],
               issuedBy' = [issuedBy EXCEPT ![k] = instance],
               \/ Goto(th, "store") /\ key' = [key EXCEPT ![th] = k]
               \/ Goto(th, "failed") /\ UNCHANGED key,
               UNCHANGED <<cache, up, instance>>
        PROVE  KeysInv'
    BY <1>5 DEF Unissued
  <1>6. CASE StoreKey(th)
    BY <1>6 DEF StoreKey, SetKey
  <1>7. CASE RevokeErase(th)
    BY <1>7 DEF RevokeErase, SetKey
  <1>8. CASE DeleteKey(th) \/ DeleteFails(th)
    BY <1>8 DEF DeleteKey, DeleteFails
  <1>9. CASE PostIssues(th)
    BY <1>5, <1>9 DEF PostIssues
  <1> QED
    BY <1>1, <1>2, <1>3, <1>4, <1>6, <1>7, <1>8, <1>9
       DEF SomeCall, ThreadStep, RegisterStep, RevokeStep, CallRegisterKey, CallGetKeyForSession,
           CallRevokeKey

LEMMA KeysStep ==
  ASSUME TypeOK, KeysInv, [Next]_vars
  PROVE  KeysInv'
  <1> USE KeysFacts DEF KeysInv, CacheApart, CacheThreadApart, ThreadsApart, KnownIssued, Holding,
          Cached, IssuedByStarted, StoredKeyAccepted, CachedKeyAccepted, PcValues,
          cache, service, history, calls
  <1>1. CASE ProbeInstanceId
    BY <1>1 DEF ProbeInstanceId, ProbeStart, ProbeRequest, ProbeFailed, ProbeRecord,
                InvalidateAllCachedKeysLocked
  <1>2. CASE ServiceStep
    BY <1>2 DEF ServiceStep, ServiceStops, ServiceStarts
  <1>3. CASE TimePasses
    BY <1>3 DEF TimePasses, BreakerCooldownElapses, ProbeIntervalElapses, CacheAges, KeyExpires,
                RetryCooldownElapses
  <1>4. CASE UNCHANGED vars
    BY <1>4 DEF vars
  <1> QED BY <1>1, <1>2, <1>3, <1>4, KeysThread DEF Next

LEMMA Invariance == Spec => []IInv
  <1>1. IInv /\ [Next]_vars => IInv'
    BY TypeStep, IssuedStep, KeysStep DEF IInv
  <1> QED BY <1>1, InvInit, PTL DEF Spec

\* A cached key has an issue time and no other session has one, through registration,
\* expiry, revocation, invalidation and every race between them.
THEOREM KeyAndTimeAgree == Spec => []IssuedIffCached
  <1>1. IInv => IssuedIffCached
    BY DEF IInv
  <1> QED BY <1>1, Invariance, PTL

\* The service accepts every cached key its running instance has issued: no DELETE that
\* is still under way, however late, hits a key that is cached.
THEOREM CachedKeysWork == Spec => []CachedKeyAccepted
  <1>1. IInv => CachedKeyAccepted
    BY DEF IInv, KeysInv
  <1> QED BY <1>1, Invariance, PTL

\* The three together, whatever threads register, ask for and revoke keys at once.
THEOREM KeysStayConsistent == Spec => []KeysConsistent
  BY TypeCorrect, KeyAndTimeAgree, CachedKeysWork, PTL DEF KeysConsistent

LEMMA ServedStep ==
  ASSUME TypeOK, [Next]_vars, NEW th \in Threads, Returns(th)
  PROVE  /\ SessionTokenToImageKey'[arg[th]] = key'[th]
         /\ \/ SessionTokenToImageKey[arg[th]] = key'[th]
            \/ pc[th] = "store" /\ key[th] = key'[th]
  <1> USE KeysFacts DEF Returns, Cached, Goto, Return, PcValues, cache, calls
  <1>1. PICK t \in Threads : SomeCall(t) \/ ThreadStep(t)
    BY DEF Next, ProbeInstanceId, ProbeStart, ProbeRequest, ProbeFailed, ProbeRecord,
           TimePasses, BreakerCooldownElapses, ProbeIntervalElapses, CacheAges,
           ServiceStep, ServiceStops, ServiceStarts, vars
  <1>2. th = t
    BY <1>1 DEF SomeCall, ThreadStep, RegisterStep, RevokeStep, CallRegisterKey,
                CallGetKeyForSession, CallRevokeKey, Call, GetKeyForSession, RegisterCached,
                RegisterDecide, PostIssues, PostFails, StoreKey, RecordKeyRegistrationFailure,
                RevokeErase, RevokeBreaker, DeleteKey, DeleteFails
  <1>3. CASE GetKeyForSession(th) \/ RegisterCached(th)
    BY <1>3 DEF GetKeyForSession, RegisterCached
  <1>4. CASE StoreKey(th)
    BY <1>4 DEF StoreKey, SetKey
  <1> QED
    BY <1>1, <1>2, <1>3, <1>4
       DEF SomeCall, ThreadStep, RegisterStep, RevokeStep, CallRegisterKey,
           CallGetKeyForSession, CallRevokeKey, Call, RegisterDecide, PostIssues, PostFails,
           RecordKeyRegistrationFailure, RevokeErase, RevokeBreaker, DeleteKey, DeleteFails

\* Whichever registration wins, the key a client is handed is the cached one.
THEOREM ServedKeysAreCached == Spec => ServedKeyIsCached
  <1>1. TypeOK /\ [Next]_vars =>
          [\A th \in Threads :
              Returns(th) => SessionTokenToImageKey'[arg[th]] = key'[th]]_vars
    BY ServedStep
  <1> QED BY <1>1, TypeCorrect, PTL DEF Spec, ServedKeyIsCached

(***************************************************************************)
(* With a service that never draws a key twice, a withdrawn key is gone.   *)
(***************************************************************************)
WithdrawnGone ==
    /\ \A s \in Sessions : SessionTokenToImageKey[s] \notin withdrawn
    /\ \A th \in Threads : pc[th] = "store" => key[th] \notin withdrawn
    /\ \A k \in withdrawn : issuedTo[k] # NoSession

LEMMA WithdrawnStep ==
  ASSUME ~ReuseKeys, IInv, WithdrawnGone, [Next]_vars
  PROVE  WithdrawnGone'
  <1>0. TypeOK /\ KeysInv /\ withdrawn \subseteq Keys
    BY DEF IInv, TypeOK
  <1> USE <1>0, KeysFacts DEF WithdrawnGone, Cached, Goto, Return, PcValues, cache, calls, service,
                              history
  <1>1. ASSUME NEW th \in Threads, RevokeErase(th) PROVE WithdrawnGone'
    BY <1>1 DEF RevokeErase, SetKey, KeysInv, CacheApart, CacheThreadApart, KnownIssued, Holding,
                Cached
  <1>2. ASSUME NEW th \in Threads, PostIssues(th) PROVE WithdrawnGone'
    BY <1>2 DEF PostIssues, Unissued
  <1>3. ASSUME NEW th \in Threads,
               RegisterDecide(th) \/ StoreKey(th) \/ RecordKeyRegistrationFailure(th)
        PROVE  WithdrawnGone'
    BY <1>3 DEF RegisterDecide, StoreKey, RecordKeyRegistrationFailure, SetKey
  <1>4. ASSUME NEW th \in Threads,
               \/ SomeCall(th) \/ GetKeyForSession(th) \/ RegisterCached(th) \/ PostFails(th)
               \/ RevokeBreaker(th) \/ DeleteKey(th) \/ DeleteFails(th)
        PROVE  WithdrawnGone'
    BY <1>4 DEF SomeCall, CallRegisterKey, CallGetKeyForSession, CallRevokeKey, Call,
                GetKeyForSession, RegisterCached, PostFails, RevokeBreaker, DeleteKey, DeleteFails
  <1>5. CASE ProbeInstanceId
    BY <1>5 DEF ProbeInstanceId, ProbeStart, ProbeRequest, ProbeFailed, ProbeRecord,
                InvalidateAllCachedKeysLocked
  <1>6. CASE TimePasses \/ ServiceStep
    BY <1>6 DEF TimePasses, BreakerCooldownElapses, ProbeIntervalElapses, CacheAges, KeyExpires,
                RetryCooldownElapses, ServiceStep, ServiceStops, ServiceStarts
  <1>7. CASE UNCHANGED vars
    BY <1>7 DEF vars
  <1> QED
    BY <1>1, <1>2, <1>3, <1>4, <1>5, <1>6, <1>7 DEF Next, ThreadStep, RegisterStep, RevokeStep

\* A key that RevokeKey has taken out of the cache is handed to nobody any more, not even
\* by a registration that was under way when the session ended.
THEOREM WithdrawnKeysStayAway == ASSUME ~ReuseKeys PROVE Spec => WithdrawnNeverServed
  <1>1. Init => WithdrawnGone
    BY ImageAssumption DEF Init, WithdrawnGone
  <1>2. IInv /\ WithdrawnGone /\ [Next]_vars => WithdrawnGone'
    BY WithdrawnStep
  <1>3. IInv /\ WithdrawnGone /\ [Next]_vars =>
          [\A th \in Threads : Returns(th) => key'[th] \notin withdrawn]_vars
    BY ServedStep DEF IInv, TypeOK, Returns, WithdrawnGone
  <1> QED BY Invariance, <1>1, <1>2, <1>3, PTL DEF Spec, WithdrawnNeverServed

(***************************************************************************)
(* Sessions and keys together.  Every step of the composition is a step of *)
(* the key manager and, at most, one of the session registry: what is      *)
(* proved of the two alone holds of them together.                         *)
(***************************************************************************)
LEMMA IsKeyManagerStep == [SKNext]_allVars => [Next]_vars
  BY DEF SKNext, KeyStep, SessionCall, Login, ClientConnects, SessionEnds, allVars, Next, SomeCall,
         ThreadStep

LEMMA IsRegistryStep == [SKNext]_allVars => [Registry!Next]_(Registry!vars)
  BY DEF SKNext, KeyStep, SessionCall, Login, ClientConnects, SessionEnds, allVars, Registry!vars,
         Registry!Next

\* The composition implements the two it is made of: no interleaving of logins, connections
\* and ends of sessions with the manager's steps is one that either of them alone does not allow.
THEOREM ComposesBoth == SKSpec => Spec /\ Registry!Spec
  <1>1. SKInit => Init /\ Registry!Init
    BY DEF SKInit
  <1> QED BY <1>1, IsKeyManagerStep, IsRegistryStep, PTL DEF SKSpec, Spec, Registry!Spec

\* A key that RevokeKey has in hand was withdrawn.
TakenWithdrawn == \A th \in Threads : pc[th] \in {"breaker", "delete"} => key[th] \in withdrawn

\* A withdrawn key the service still accepts is one it was not told of, or is about to be.
ToBeDeleted(k) == \E th \in Threads : pc[th] \in {"breaker", "delete"} /\ key[th] = k
WithdrawnAccounted == \A k \in withdrawn \cap registered : k \in undelivered \/ ToBeDeleted(k)

SKInv ==
    /\ IInv
    /\ loggingIn \subseteq Threads /\ undelivered \subseteq withdrawn
    /\ TakenWithdrawn

\* RegisterStep and the steps of RevokeStep, and what they do to a key in hand.
LEMMA HandsStep ==
  ASSUME TypeOK, TakenWithdrawn, [Next]_vars
  PROVE  TakenWithdrawn' /\ withdrawn \subseteq withdrawn'
  <1> USE KeysFacts DEF TakenWithdrawn, Cached, Goto, Return, PcValues, cache, calls, service,
                              history
  <1>1. ASSUME NEW th \in Threads, RevokeErase(th) \/ RevokeBreaker(th) \/ DeleteKey(th) \/ DeleteFails(th)
        PROVE  TakenWithdrawn' /\ withdrawn \subseteq withdrawn'
    BY <1>1 DEF RevokeErase, RevokeBreaker, DeleteKey, DeleteFails
  <1>2. ASSUME NEW th \in Threads, RegisterStep(th) \/ SomeCall(th)
        PROVE  TakenWithdrawn' /\ withdrawn \subseteq withdrawn'
    BY <1>2 DEF RegisterStep, GetKeyForSession, RegisterCached, RegisterDecide, PostIssues, PostFails, StoreKey,
                RecordKeyRegistrationFailure, SomeCall, CallRegisterKey, CallGetKeyForSession, CallRevokeKey, Call
  <1>3. CASE ProbeInstanceId \/ TimePasses \/ ServiceStep \/ UNCHANGED vars
    BY <1>3 DEF ProbeInstanceId, ProbeStart, ProbeRequest, ProbeFailed, ProbeRecord, TimePasses,
                BreakerCooldownElapses, ProbeIntervalElapses, CacheAges, ServiceStep, ServiceStops,
                ServiceStarts, vars
  <1> QED BY <1>1, <1>2, <1>3 DEF Next, ThreadStep, RevokeStep

\* What the composition adds to the steps of the key manager.
LEMMA SKInvInit == SKInit => SKInv
  BY InvInit DEF SKInit, Init, TakenWithdrawn, SKInv

LEMMA SKInvStep == SKInv /\ [SKNext]_allVars => SKInv'
  <1> SUFFICES ASSUME SKInv, [SKNext]_allVars PROVE SKInv'
    OBVIOUS
  <1>1. TypeOK /\ [Next]_vars
    BY IsKeyManagerStep DEF SKInv, IInv
  <1>2. IInv'
    BY <1>1, TypeStep, IssuedStep, KeysStep DEF SKInv, IInv
  <1>3. TakenWithdrawn' /\ withdrawn \subseteq withdrawn'
    BY <1>1, HandsStep DEF SKInv
  <1>4. loggingIn' \subseteq Threads
    BY DEF SKInv, SKNext, KeyStep, SessionCall, Login, ClientConnects, SessionEnds, allVars
  <1>5. undelivered' \subseteq withdrawn'
    BY <1>3 DEF SKInv, TakenWithdrawn, SKNext, KeyStep, Skipped, DeleteFails, allVars
  <1> QED BY <1>2, <1>3, <1>4, <1>5 DEF SKInv

LEMMA SKInvariance == SKSpec => []SKInv
  BY SKInvInit, SKInvStep, PTL DEF SKSpec

\* The registry and the key manager keep their types together, and what the service was not told
\* of has been withdrawn.
THEOREM TypesTogether == SKSpec => []SKTypeOK
  <1>1. Registry!Init => Registry!TypeOK
    BY DEF Registry!Init, Registry!TypeOK
  <1>2. Registry!TypeOK /\ [Registry!Next]_(Registry!vars) => Registry!TypeOK'
    BY DEF Registry!TypeOK, Registry!Next, Registry!vars, Registry!Open, Registry!Close
  <1>3. Registry!Spec => []Registry!TypeOK
    BY <1>1, <1>2, PTL DEF Registry!Spec
  <1>4. SKInv /\ Registry!TypeOK => SKTypeOK
    BY DEF SKInv, IInv, SKTypeOK
  <1> QED BY <1>3, <1>4, ComposesBoth, SKInvariance, PTL

(***************************************************************************)
(* The end of a session.  The key it takes out of the cache is in the      *)
(* hands of its thread until the service has deleted it, or could not be   *)
(* asked to; a service that draws no key twice does not issue it again.    *)
(***************************************************************************)
LEMMA AccountedStep ==
  ASSUME ~ReuseKeys, SKInv, WithdrawnGone, WithdrawnAccounted, [SKNext]_allVars
  PROVE  WithdrawnAccounted'
  <1>0. TypeOK
    BY DEF SKInv, IInv
  <1> USE <1>0, KeysFacts DEF WithdrawnAccounted, ToBeDeleted, Goto, Return, PcValues, calls, service, history
  <1>1. ASSUME NEW th \in Threads, RevokeErase(th), undelivered' = undelivered \cup Skipped(th)
        PROVE  WithdrawnAccounted'
    BY <1>1 DEF RevokeErase, Cached
  <1>2. ASSUME NEW th \in Threads, RevokeBreaker(th), undelivered' = undelivered \cup Skipped(th)
        PROVE  WithdrawnAccounted'
    BY <1>2 DEF RevokeBreaker, Skipped
  <1>3. ASSUME NEW th \in Threads, DeleteKey(th), undelivered' = undelivered \cup Skipped(th)
        PROVE  WithdrawnAccounted'
    BY <1>3 DEF DeleteKey
  <1>4. ASSUME NEW th \in Threads, DeleteFails(th), undelivered' = undelivered \cup {key[th]}
        PROVE  WithdrawnAccounted'
    BY <1>4 DEF DeleteFails
  <1>5. ASSUME NEW th \in Threads, PostIssues(th), undelivered' = undelivered \cup Skipped(th)
        PROVE  WithdrawnAccounted'
    BY <1>5 DEF PostIssues, Unissued, WithdrawnGone
  <1>6. ASSUME NEW th \in Threads,
               \/ SomeCall(th) /\ UNCHANGED undelivered
               \/ /\ \/ GetKeyForSession(th) \/ RegisterCached(th) \/ RegisterDecide(th) \/ PostFails(th)
                     \/ StoreKey(th) \/ RecordKeyRegistrationFailure(th)
                  /\ undelivered' = undelivered \cup Skipped(th)
        PROVE  WithdrawnAccounted'
    BY <1>6 DEF SomeCall, CallRegisterKey, CallGetKeyForSession, CallRevokeKey, Call, GetKeyForSession,
                RegisterCached, RegisterDecide, PostFails, StoreKey, RecordKeyRegistrationFailure
  <1>7. CASE (ProbeInstanceId \/ ServiceStep \/ TimePasses) /\ UNCHANGED undelivered
    BY <1>7 DEF ProbeInstanceId, ProbeStart, ProbeRequest, ProbeFailed, ProbeRecord, TimePasses,
                BreakerCooldownElapses, ProbeIntervalElapses, CacheAges, ServiceStep, ServiceStops,
                ServiceStarts
  <1>8. CASE UNCHANGED allVars
    BY <1>8 DEF allVars, vars
  <1>9. ASSUME NEW th \in Threads, SessionCall(th), UNCHANGED undelivered
        PROVE  WithdrawnAccounted'
    BY <1>6, <1>9 DEF SessionCall, Login, ClientConnects, SessionEnds, SomeCall
  <1> QED
    BY <1>1, <1>2, <1>3, <1>4, <1>5, <1>6, <1>7, <1>8, <1>9 DEF SKNext, KeyStep, RegisterStep, RevokeStep

\* A key that the end of its session found in the cache is dead at the service once every call
\* has returned, or the service could not be told, for keys that are never drawn twice.
THEOREM WithdrawnKeysDie == ASSUME ~ReuseKeys PROVE SKSpec => []WithdrawnDeleted
  <1>1. SKInit => WithdrawnGone /\ WithdrawnAccounted
    BY ImageAssumption DEF SKInit, Init, WithdrawnGone, WithdrawnAccounted
  <1>2. SKInv /\ WithdrawnGone /\ [SKNext]_allVars => WithdrawnGone'
    BY WithdrawnStep, IsKeyManagerStep DEF SKInv
  <1>3. SKInv /\ WithdrawnGone /\ WithdrawnAccounted /\ [SKNext]_allVars => WithdrawnAccounted'
    BY AccountedStep
  <1>4. WithdrawnAccounted => WithdrawnDeleted
    BY DEF WithdrawnAccounted, ToBeDeleted, WithdrawnDeleted, Quiet
  <1> QED BY <1>1, <1>2, <1>3, <1>4, SKInvariance, PTL DEF SKSpec

\* The two components together keep the cache consistent, whatever sessions end meanwhile.
THEOREM SessionKeysStayConsistent == SKSpec => []SessionKeysConsistent
  BY ComposesBoth, TypesTogether, KeysStayConsistent, PTL DEF SessionKeysConsistent
=============================================================================
