----------------------- MODULE ImageServiceManager -----------------------
(***************************************************************************)
(* FImageServiceManager (Managers/ImageServiceManager.cpp): one API key of *)
(* the image service per session, cached with an issue time, a negative    *)
(* cache of failed registrations, a circuit breaker over every HTTP call,  *)
(* and a probe of the service's instance id made by the engine tick.       *)
(*                                                                         *)
(* The image service is another program: its registry of keys lives in     *)
(* memory and is lost when it stops.  A locked section of the manager is   *)
(* one step and an HTTP call is one step, so everything can happen between *)
(* the decision to call, the call, and the recording of its outcome.       *)
(*                                                                         *)
(* Points in time are kept only as far as they are compared: an interval   *)
(* has elapsed since then or it has not.                                   *)
(***************************************************************************)
EXTENDS Naturals

CONSTANTS Sessions,          \* session tokens
          Keys,              \* keys the service can draw, all different
          Threads,           \* login, socket and session cleanup threads
          NoKey, NoSession,  \* the empty key; a key that has not been issued
          CircuitBreakerThreshold,  \* 0 disables the breaker
          CooldownConfigured,       \* FALSE: a tripped breaker stays open
          KeyInvalidation,   \* FALSE: keys never expire in the cache
          ProbeEnabled,      \* FALSE: InstanceProbeInterval is 0
          FaultsWhenUp,      \* TRUE: a call to a running service may fail or lose its reply
          MaxInstances,      \* bound: starts of the service
          ReuseKeys          \* bound: TRUE lets the service draw a key again once nobody holds it

ASSUME ImageAssumption ==
    /\ NoKey \notin Keys
    /\ NoSession \notin Sessions
    /\ CircuitBreakerThreshold \in Nat
    /\ MaxInstances \in Nat \ {0}
    /\ {CooldownConfigured, KeyInvalidation, ProbeEnabled, FaultsWhenUp, ReuseKeys} \subseteq BOOLEAN

VARIABLES
    SessionTokenToImageKey,          \* session -> its cached key, or NoKey
    SessionTokenToImageKeyIssuedAt,  \* "none", "fresh", or "stale" once the interval elapsed
    FailedKeyRegistrations,          \* "none", "recent", or "old" once the retry cooldown elapsed
    ConsecutiveImageServiceFailures,
    Cooling,               \* CircuitOpenedAt is less than a cooldown ago
    LastKnownInstanceId,   \* 0 when it is empty
    ProbeDue,              \* the probe interval has elapsed
    pc, arg, key,          \* per thread: next step, its session, the key in hand or returned
    probePc, probed,       \* the tick's probe: next step, the id it read
    up, instance, registered,   \* the service: running, its id, the keys it accepts
    issuedTo, issuedBy,    \* history: the session and the instance a key was issued for and by
    withdrawn              \* history: keys RevokeKey has taken out of the cache

cache == <<SessionTokenToImageKey, SessionTokenToImageKeyIssuedAt, FailedKeyRegistrations>>
breaker == <<ConsecutiveImageServiceFailures, Cooling>>
probe == <<LastKnownInstanceId, ProbeDue, probePc, probed>>
calls == <<pc, arg, key>>
service == <<up, instance, registered>>
history == <<issuedTo, issuedBy, withdrawn>>
vars == <<cache, breaker, probe, calls, service, history>>

PcValues == {"idle", "get", "register", "post", "store", "failed",
             "revoke", "breaker", "delete"}
ProbePcValues == {"idle", "request", "record", "failed"}

TypeOK ==
    /\ SessionTokenToImageKey \in [Sessions -> Keys \cup {NoKey}]
    /\ SessionTokenToImageKeyIssuedAt \in [Sessions -> {"none", "fresh", "stale"}]
    /\ FailedKeyRegistrations \in [Sessions -> {"none", "recent", "old"}]
    /\ ConsecutiveImageServiceFailures \in 0..CircuitBreakerThreshold
    /\ Cooling \in BOOLEAN
    /\ LastKnownInstanceId \in Nat
    /\ ProbeDue \in BOOLEAN
    /\ pc \in [Threads -> PcValues]
    /\ arg \in [Threads -> Sessions \cup {NoSession}]
    /\ \A th \in Threads : pc[th] # "idle" => arg[th] \in Sessions
    /\ key \in [Threads -> Keys \cup {NoKey}]
    /\ \A th \in Threads : pc[th] \in {"store", "breaker", "delete"} => key[th] \in Keys
    /\ probePc \in ProbePcValues
    /\ probed \in Nat
    /\ up \in BOOLEAN
    /\ instance \in Nat
    /\ registered \subseteq Keys
    /\ issuedTo \in [Keys -> Sessions \cup {NoSession}]
    /\ issuedBy \in [Keys -> Nat]
    /\ withdrawn \subseteq Keys

Init ==
    /\ SessionTokenToImageKey = [s \in Sessions |-> NoKey]
    /\ SessionTokenToImageKeyIssuedAt = [s \in Sessions |-> "none"]
    /\ FailedKeyRegistrations = [s \in Sessions |-> "none"]
    /\ ConsecutiveImageServiceFailures = 0
    /\ Cooling = FALSE
    /\ LastKnownInstanceId = 0
    /\ ProbeDue = TRUE
    /\ pc = [th \in Threads |-> "idle"]
    /\ arg = [th \in Threads |-> NoSession]
    /\ key = [th \in Threads |-> NoKey]
    /\ probePc = "idle"
    /\ probed = 0
    /\ up = TRUE
    /\ instance = 1
    /\ registered = {}
    /\ issuedTo = [k \in Keys |-> NoSession]
    /\ issuedBy = [k \in Keys |-> 0]
    /\ withdrawn = {}

(***************************************************************************)
(* What the locked sections are made of.                                   *)
(***************************************************************************)
Tripped ==
    /\ CircuitBreakerThreshold > 0
    /\ ConsecutiveImageServiceFailures >= CircuitBreakerThreshold

IsCircuitOpenLocked == Tripped /\ (CooldownConfigured => Cooling)

RecordImageServiceFailureLocked ==
    IF CircuitBreakerThreshold = 0
    THEN UNCHANGED breaker
    ELSE LET failures == IF Tripped THEN ConsecutiveImageServiceFailures
                                    ELSE ConsecutiveImageServiceFailures + 1
         IN /\ ConsecutiveImageServiceFailures' = failures
            /\ Cooling' = (Cooling \/ failures >= CircuitBreakerThreshold)

\* Mutant: a success restarts no count.
RecordImageServiceSuccessLocked_KeepsCount ==
    /\ Cooling' = FALSE
    /\ UNCHANGED ConsecutiveImageServiceFailures

RecordImageServiceSuccessLocked ==
    /\ ConsecutiveImageServiceFailures' = 0
    /\ Cooling' = FALSE

\* Mutant: the issue time is not looked at.
IsKeyStillValidLocked_Always(s) == s \in Sessions

IsKeyStillValidLocked(s) ==
    ~KeyInvalidation \/ SessionTokenToImageKeyIssuedAt[s] = "fresh"

Cached(s) == SessionTokenToImageKey[s] # NoKey

SetKey(s, k, issued) ==
    /\ SessionTokenToImageKey' = [SessionTokenToImageKey EXCEPT ![s] = k]
    /\ SessionTokenToImageKeyIssuedAt' = [SessionTokenToImageKeyIssuedAt EXCEPT ![s] = issued]

InvalidateAllCachedKeysLocked ==
    /\ SessionTokenToImageKey' = [s \in Sessions |-> NoKey]
    /\ SessionTokenToImageKeyIssuedAt' = [s \in Sessions |-> "none"]
    /\ FailedKeyRegistrations' = [s \in Sessions |-> "none"]

RecentlyFailed(s) == FailedKeyRegistrations[s] = "recent"

Goto(th, step) == pc' = [pc EXCEPT ![th] = step]

\* The call of a thread returns k.
Return(th, k) == Goto(th, "idle") /\ key' = [key EXCEPT ![th] = k]

Call(th, s, step) ==
    /\ pc[th] = "idle"
    /\ Goto(th, step)
    /\ arg' = [arg EXCEPT ![th] = s]
    /\ key' = [key EXCEPT ![th] = NoKey]
    /\ UNCHANGED <<cache, breaker, probe, service, history>>

\* A login registers a key, a socket that opens first looks for one, and a
\* session that ends revokes its key.
CallRegisterKey(th, s) == Call(th, s, "register")
CallGetKeyForSession(th, s) == Call(th, s, "get")
CallRevokeKey(th, s) == Call(th, s, "revoke")

(***************************************************************************)
(* GetKeyForSession, then RegisterKey when it gave nothing.                *)
(***************************************************************************)
GetKeyForSession(th) ==
    /\ pc[th] = "get"
    /\ IF Cached(arg[th]) /\ IsKeyStillValidLocked(arg[th])
       THEN Return(th, SessionTokenToImageKey[arg[th]])
       ELSE Goto(th, "register") /\ UNCHANGED key
    /\ UNCHANGED <<cache, breaker, probe, arg, service, history>>

\* The fast path of RegisterKey.
RegisterCached(th) ==
    /\ pc[th] = "register"
    /\ Cached(arg[th])
    /\ IsKeyStillValidLocked(arg[th])
    /\ Return(th, SessionTokenToImageKey[arg[th]])
    /\ UNCHANGED <<cache, breaker, probe, arg, service, history>>

\* No valid key: drop the expired one, then give up if the breaker or the negative
\* cache says so, or go on to the request.
RegisterDecide(th) ==
    LET s == arg[th] IN
    /\ pc[th] = "register"
    /\ ~(Cached(s) /\ IsKeyStillValidLocked(s))
    /\ IF Cached(s) THEN SetKey(s, NoKey, "none")
       ELSE UNCHANGED <<SessionTokenToImageKey, SessionTokenToImageKeyIssuedAt>>
    /\ IF IsCircuitOpenLocked \/ RecentlyFailed(s)
       THEN Return(th, NoKey)
       ELSE Goto(th, "post") /\ UNCHANGED key
    /\ UNCHANGED <<FailedKeyRegistrations, breaker, probe, arg, service, history>>

\* A key the service can draw.
Unissued(k) ==
    \/ issuedTo[k] = NoSession
    \/ /\ ReuseKeys
       /\ \A s \in Sessions : SessionTokenToImageKey[s] # k
       /\ \A th \in Threads : key[th] # k

\* The service issues a key; its reply arrives, or is lost or malformed.
PostIssues(th) ==
    /\ pc[th] = "post"
    /\ up
    /\ \E k \in Keys :
          /\ Unissued(k)
          /\ registered' = registered \cup {k}
          /\ issuedTo' = [issuedTo EXCEPT ![k] = arg[th]]
          /\ issuedBy' = [issuedBy EXCEPT ![k] = instance]
          /\ \/ Goto(th, "store") /\ key' = [key EXCEPT ![th] = k]
             \/ FaultsWhenUp /\ Goto(th, "failed") /\ UNCHANGED key
    /\ UNCHANGED <<cache, breaker, probe, arg, up, instance, withdrawn>>

\* The service is down, or refuses.
PostFails(th) ==
    /\ pc[th] = "post"
    /\ up => FaultsWhenUp
    /\ Goto(th, "failed")
    /\ UNCHANGED <<cache, breaker, probe, arg, key, service, history>>

RecordKeyRegistrationFailure(th) ==
    /\ pc[th] = "failed"
    /\ FailedKeyRegistrations' = [FailedKeyRegistrations EXCEPT ![arg[th]] = "recent"]
    /\ RecordImageServiceFailureLocked
    /\ Return(th, NoKey)
    /\ UNCHANGED <<SessionTokenToImageKey, SessionTokenToImageKeyIssuedAt, probe, arg,
                   service, history>>

\* Mutant: the thread that lost the race returns its own key all the same.
StoreKey_OwnKey(th) ==
    LET s == arg[th] IN
    /\ pc[th] = "store"
    /\ FailedKeyRegistrations' = [FailedKeyRegistrations EXCEPT ![s] = "none"]
    /\ RecordImageServiceSuccessLocked
    /\ Return(th, key[th])
    /\ IF Cached(s) THEN UNCHANGED <<SessionTokenToImageKey, SessionTokenToImageKeyIssuedAt>>
                    ELSE SetKey(s, key[th], "fresh")
    /\ UNCHANGED <<probe, arg, service, history>>

\* The last section of RegisterKey: a key that another thread has stored meanwhile wins.
StoreKey(th) ==
    LET s == arg[th] IN
    /\ pc[th] = "store"
    /\ FailedKeyRegistrations' = [FailedKeyRegistrations EXCEPT ![s] = "none"]
    /\ RecordImageServiceSuccessLocked
    /\ IF Cached(s)
       THEN /\ Return(th, SessionTokenToImageKey[s])
            /\ UNCHANGED <<SessionTokenToImageKey, SessionTokenToImageKeyIssuedAt>>
       ELSE /\ Return(th, key[th])
            /\ SetKey(s, key[th], "fresh")
    /\ UNCHANGED <<probe, arg, service, history>>

(***************************************************************************)
(* RevokeKey.                                                              *)
(***************************************************************************)
\* Mutant: the key is deleted at the service and stays in the cache.
RevokeErase_KeepsEntry(th) ==
    LET s == arg[th] IN
    /\ pc[th] = "revoke"
    /\ IF Cached(s)
       THEN /\ Goto(th, "breaker")
            /\ key' = [key EXCEPT ![th] = SessionTokenToImageKey[s]]
            /\ withdrawn' = withdrawn \cup {SessionTokenToImageKey[s]}
       ELSE Return(th, NoKey) /\ UNCHANGED withdrawn
    /\ UNCHANGED <<cache, breaker, probe, arg, service, issuedTo, issuedBy>>

RevokeErase(th) ==
    LET s == arg[th] IN
    /\ pc[th] = "revoke"
    /\ IF Cached(s)
       THEN /\ Goto(th, "breaker")
            /\ key' = [key EXCEPT ![th] = SessionTokenToImageKey[s]]
            /\ withdrawn' = withdrawn \cup {SessionTokenToImageKey[s]}
            /\ SetKey(s, NoKey, "none")
       ELSE /\ Return(th, NoKey)
            /\ UNCHANGED <<withdrawn, SessionTokenToImageKey, SessionTokenToImageKeyIssuedAt>>
    /\ UNCHANGED <<FailedKeyRegistrations, breaker, probe, arg, service,
                   issuedTo, issuedBy>>

RevokeBreaker(th) ==
    /\ pc[th] = "breaker"
    /\ IF IsCircuitOpenLocked
       THEN Return(th, NoKey)
       ELSE Goto(th, "delete") /\ UNCHANGED key
    /\ UNCHANGED <<cache, breaker, probe, arg, service, history>>

\* Mutant: the key is dropped and the service is not told.
DeleteKey_Skipped(th) ==
    /\ pc[th] = "delete"
    /\ up
    /\ Return(th, NoKey)
    /\ UNCHANGED <<cache, breaker, probe, arg, service, history>>

\* The DELETE reaches the service, or it does not: RevokeKey only logs.
DeleteKey(th) ==
    /\ pc[th] = "delete"
    /\ up
    /\ registered' = registered \ {key[th]}
    /\ Return(th, NoKey)
    /\ UNCHANGED <<cache, breaker, probe, arg, up, instance, history>>

DeleteFails(th) ==
    /\ pc[th] = "delete"
    /\ up => FaultsWhenUp
    /\ Return(th, NoKey)
    /\ UNCHANGED <<cache, breaker, probe, arg, service, history>>

(***************************************************************************)
(* ProbeInstanceId, called by every engine tick.                           *)
(***************************************************************************)
ProbeStart ==
    /\ ProbeEnabled
    /\ probePc = "idle"
    /\ ProbeDue
    /\ ~IsCircuitOpenLocked
    /\ ProbeDue' = FALSE
    /\ probePc' = "request"
    /\ UNCHANGED <<cache, breaker, LastKnownInstanceId, probed, calls, service, history>>

\* An answer carries the instance id; an older service answers without one.
ProbeRequest ==
    /\ probePc = "request"
    /\ \/ up /\ probePc' = "record" /\ probed' \in {0, instance}
       \/ (up => FaultsWhenUp) /\ probePc' = "failed" /\ UNCHANGED probed
    /\ UNCHANGED <<cache, breaker, LastKnownInstanceId, ProbeDue, calls, service, history>>

ProbeFailed ==
    /\ probePc = "failed"
    /\ RecordImageServiceFailureLocked
    /\ probePc' = "idle"
    /\ UNCHANGED <<cache, LastKnownInstanceId, ProbeDue, probed, calls, service, history>>

ProbeRecord ==
    /\ probePc = "record"
    /\ RecordImageServiceSuccessLocked
    /\ LastKnownInstanceId' = IF probed = 0 THEN LastKnownInstanceId ELSE probed
    /\ IF LastKnownInstanceId \notin {0, LastKnownInstanceId'}
       THEN InvalidateAllCachedKeysLocked
       ELSE UNCHANGED cache
    /\ probePc' = "idle"
    /\ UNCHANGED <<ProbeDue, probed, calls, service, history>>

(***************************************************************************)
(* Time, and the life of the service.                                      *)
(***************************************************************************)
KeyExpires(s) ==
    /\ KeyInvalidation
    /\ SessionTokenToImageKeyIssuedAt[s] = "fresh"
    /\ SessionTokenToImageKeyIssuedAt' = [SessionTokenToImageKeyIssuedAt EXCEPT ![s] = "stale"]
    /\ UNCHANGED <<SessionTokenToImageKey, FailedKeyRegistrations>>

RetryCooldownElapses(s) ==
    /\ RecentlyFailed(s)
    /\ FailedKeyRegistrations' = [FailedKeyRegistrations EXCEPT ![s] = "old"]
    /\ UNCHANGED <<SessionTokenToImageKey, SessionTokenToImageKeyIssuedAt>>

CacheAges(s) ==
    /\ KeyExpires(s) \/ RetryCooldownElapses(s)
    /\ UNCHANGED <<breaker, probe, calls, service, history>>

BreakerCooldownElapses ==
    /\ Cooling
    /\ Cooling' = FALSE
    /\ UNCHANGED <<cache, ConsecutiveImageServiceFailures, probe, calls, service, history>>

ProbeIntervalElapses ==
    /\ ProbeEnabled /\ ~ProbeDue
    /\ ProbeDue' = TRUE
    /\ UNCHANGED <<cache, breaker, LastKnownInstanceId, probePc, probed, calls, service,
                   history>>

\* The service stops and forgets its keys; it comes back as another instance.
ServiceStops ==
    /\ up /\ instance < MaxInstances
    /\ up' = FALSE
    /\ registered' = {}
    /\ UNCHANGED <<cache, breaker, probe, calls, instance, history>>

ServiceStarts ==
    /\ ~up
    /\ up' = TRUE
    /\ instance' = instance + 1
    /\ UNCHANGED <<cache, breaker, probe, calls, registered, history>>

(***************************************************************************)
(* The specification.                                                      *)
(***************************************************************************)
RegisterStep(th) ==
    \/ GetKeyForSession(th) \/ RegisterCached(th) \/ RegisterDecide(th)
    \/ PostIssues(th) \/ PostFails(th) \/ StoreKey(th) \/ RecordKeyRegistrationFailure(th)

RevokeStep(th) == RevokeErase(th) \/ RevokeBreaker(th) \/ DeleteKey(th)

ThreadStep(th) == RegisterStep(th) \/ RevokeStep(th) \/ DeleteFails(th)

ProbeInstanceId == ProbeStart \/ ProbeRequest \/ ProbeFailed \/ ProbeRecord

ServiceStep == ServiceStops \/ ServiceStarts

TimePasses ==
    \/ BreakerCooldownElapses \/ ProbeIntervalElapses
    \/ \E s \in Sessions : CacheAges(s)

SomeCall(th) ==
    \E s \in Sessions : CallRegisterKey(th, s) \/ CallGetKeyForSession(th, s) \/ CallRevokeKey(th, s)

Next ==
    \/ \E th \in Threads : SomeCall(th) \/ ThreadStep(th)
    \/ ProbeInstanceId
    \/ ServiceStep
    \/ TimePasses

Spec == Init /\ [][Next]_vars

\* Calls go on, time passes, the engine ticks, and somebody restarts the service.
Fairness ==
    /\ \A th \in Threads : WF_vars(ThreadStep(th))
    /\ WF_vars(ProbeInstanceId)
    /\ WF_vars(ServiceStarts)
    /\ WF_vars(BreakerCooldownElapses)
    /\ WF_vars(ProbeIntervalElapses)
    /\ \A s \in Sessions : WF_vars(CacheAges(s))

FairSpec == Spec /\ Fairness

(***************************************************************************)
(* Properties.                                                             *)
(***************************************************************************)
\* The issue time and the key of a session come and go together, through
\* registration, expiry, revocation and invalidation.
IssuedIffCached ==
    \A s \in Sessions : SessionTokenToImageKeyIssuedAt[s] # "none" <=> Cached(s)

\* Nothing but a restart of the service kills a cached key: the cache never holds a
\* key of the running instance that the service would refuse.
CachedKeyAccepted ==
    \A s \in Sessions :
        Cached(s) /\ up /\ issuedBy[SessionTokenToImageKey[s]] = instance =>
            SessionTokenToImageKey[s] \in registered

\* The cache is consistent, in itself and with the running service.
KeysConsistent == TypeOK /\ IssuedIffCached /\ CachedKeyAccepted

Returns(th) == pc[th] # "idle" /\ pc'[th] = "idle" /\ key'[th] # NoKey

\* Every key that is handed to a client is in the cache at that moment, where the end
\* of the session will find it, whichever registration won the race for it.
ServedKeyIsCached ==
    [][\A th \in Threads : Returns(th) => SessionTokenToImageKey'[arg[th]] = key'[th]]_vars

\* A key that RevokeKey has taken away is never handed out again.
WithdrawnNeverServed ==
    [][\A th \in Threads : Returns(th) => key'[th] \notin withdrawn]_vars

\* A tripped breaker closes again once the service is back: the probe reaches it
\* even if no client ever asks for a key.
BreakerCloses == Tripped ~> ~Tripped

Working(s) ==
    /\ Cached(s) /\ IsKeyStillValidLocked(s)
    /\ up /\ SessionTokenToImageKey[s] \in registered

Revoking(s) == \E th \in Threads : arg[th] = s /\ pc[th] \in {"revoke", "breaker", "delete"}
Connects(s) == \E th \in Threads : CallGetKeyForSession(th, s)

\* ImageServiceManager.h:24-28, the self-healing of keys that a restart killed: a
\* client that keeps reconnecting has a working key again and again, even when the
\* probe missed the restart.
KeyHeals ==
    \A s \in Sessions : []<><<Connects(s)>>_vars /\ []~Revoking(s) => []<>Working(s)
===========================================================================
