-------------------------- MODULE SessionManager --------------------------
(***************************************************************************)
(* FSessionManager (Auth/SessionManager.cpp): two maps guarded by one      *)
(* shared mutex, a clock cached once per second by the engine tick, and a  *)
(* worker thread that sweeps expired sessions.                             *)
(*                                                                         *)
(* Every critical section of the code is one atomic step.  A call that     *)
(* takes the lock twice is two steps, so other threads can run in between: *)
(* GetUserIdFromSessionId checks and then looks up, DeactivateSession      *)
(* removes and then calls the deactivation callback, the sweep copies the  *)
(* tokens, then checks and deactivates them one by one.                    *)
(*                                                                         *)
(* A caller authenticates a request (or a WebSocket upgrade) by            *)
(* FUserManager::VerifyToken and then GetIdFromToken, two calls of         *)
(* GetUserIdFromSessionId, so four critical sections.                      *)
(***************************************************************************)
EXTENDS Naturals

CONSTANTS Users,                  \* user ids the database has handed out
          Tokens,                 \* tokens CreateTokenFromId can draw, never the same one twice
          Threads,                \* REST and socket threads
          NoUser, NoToken,        \* the id 0, and no token
          SessionExpirationTime,  \* seconds a session lives
          TimeBetweenRuns,        \* seconds between two sweeps (180 in the code)
          StartTime, MaxTime,     \* clock at start, and the bound of the clock
          NoSession               \* marks a token the first map does not hold

ASSUME SessionAssumption ==
    /\ NoUser \notin Users
    /\ NoToken \notin Tokens
    /\ SessionExpirationTime \in Nat \ {0}
    /\ TimeBetweenRuns \in Nat
    /\ StartTime \in Nat \ {0}
    /\ MaxTime \in Nat
    /\ NoSession \notin [UserId : Users \cup {NoUser}, SessionTime : Nat]

VARIABLES
    SessionIdToUserIdMap,     \* token -> [UserId, SessionTime], or NoSession
    UserIdToSessionTokenMap,  \* user -> set of its tokens, {} when it has no entry
    CurrentTimeCached,        \* clock read by the last PostSecondTick
    AsyncWorkLastTime,        \* when the last sweep started
    pc, arg, uid,             \* per thread: next step, its token, the id it got
    workerPc, SessionIds, current, \* the sweep: next step, tokens left, token at hand
    owner,                    \* history: the user CreateSession was called for
    notified                  \* history: tokens whose deactivation callback ran

vars == <<SessionIdToUserIdMap, UserIdToSessionTokenMap, CurrentTimeCached,
          AsyncWorkLastTime, pc, arg, uid, workerPc, SessionIds, current,
          owner, notified>>

maps == <<SessionIdToUserIdMap, UserIdToSessionTokenMap>>
clock == <<CurrentTimeCached, AsyncWorkLastTime>>
calls == <<pc, arg, uid>>
worker == <<workerPc, SessionIds, current>>

FUserSessionData == [UserId : Users \cup {NoUser}, SessionTime : Nat]

\* Mutants of EmptySession: a field left uninitialised, a default that never expires.
EmptySession_SomeUser == [UserId |-> CHOOSE u \in Users : TRUE, SessionTime |-> 0]
EmptySession_Uninitialised == [UserId |-> NoUser, SessionTime |-> NoToken]
EmptySession_NeverExpires == [UserId |-> NoUser, SessionTime |-> MaxTime + 1]

\* The value operator[] default-constructs for a missing key.
EmptySession == [UserId |-> NoUser, SessionTime |-> 0]

ContainsKey(t) == SessionIdToUserIdMap[t] # NoSession

\* operator[] on the first map: what it returns ...
At(t) == IF ContainsKey(t) THEN SessionIdToUserIdMap[t] ELSE EmptySession

\* DeactivateSession removed this session: it was created and is no longer held.
Ended(t) == owner[t] # NoUser /\ At(t).UserId = NoUser

PcValues == {"idle", "verifyCheck", "verifyLookup", "idCheck", "idLookup",
             "accepted", "refreshed", "notify"}
WorkerPcValues == {"sleep", "check", "deactivate", "notify"}

TypeOK ==
    /\ SessionIdToUserIdMap \in [Tokens -> FUserSessionData \cup {NoSession}]
    /\ UserIdToSessionTokenMap \in [Users \cup {NoUser} -> SUBSET Tokens]
    /\ CurrentTimeCached \in Nat
    /\ AsyncWorkLastTime \in Nat
    /\ pc \in [Threads -> PcValues]
    /\ arg \in [Threads -> Tokens \cup {NoToken}]
    /\ \A th \in Threads : pc[th] # "idle" => arg[th] \in Tokens
    /\ uid \in [Threads -> Users \cup {NoUser}]
    /\ workerPc \in WorkerPcValues
    /\ SessionIds \subseteq Tokens
    /\ current \in Tokens \cup {NoToken}
    /\ workerPc \in {"deactivate", "notify"} => current \in Tokens
    /\ owner \in [Tokens -> Users \cup {NoUser}]
    /\ notified \subseteq Tokens

Init ==
    /\ SessionIdToUserIdMap = [t \in Tokens |-> NoSession]
    /\ UserIdToSessionTokenMap = [u \in Users \cup {NoUser} |-> {}]
    /\ CurrentTimeCached = StartTime
    /\ AsyncWorkLastTime = 0
    /\ pc = [th \in Threads |-> "idle"]
    /\ arg = [th \in Threads |-> NoToken]
    /\ uid = [th \in Threads |-> NoUser]
    /\ workerPc = "sleep"
    /\ SessionIds = {}
    /\ current = NoToken
    /\ owner = [t \in Tokens |-> NoUser]
    /\ notified = {}

(***************************************************************************)
(* The critical sections.                                                  *)
(***************************************************************************)
IsSessionTokenAlive(t) ==
    ContainsKey(t) /\ CurrentTimeCached < SessionIdToUserIdMap[t].SessionTime

\* ... and what it does to the map: a missing key is inserted, here under a shared lock.
TouchAt(t) == SessionIdToUserIdMap' = [SessionIdToUserIdMap EXCEPT ![t] = At(t)]

\* The body of DeactivateSession under its unique lock.
EraseSession(t) ==
    LET u == At(t).UserId IN
    /\ SessionIdToUserIdMap' = [SessionIdToUserIdMap EXCEPT ![t] = NoSession]
    /\ UserIdToSessionTokenMap' = [UserIdToSessionTokenMap EXCEPT ![u] = @ \ {t}]

(***************************************************************************)
(* The engine tick.                                                        *)
(***************************************************************************)
PostSecondTick ==
    /\ \E now \in (CurrentTimeCached + 1)..MaxTime : CurrentTimeCached' = now
    /\ UNCHANGED <<maps, AsyncWorkLastTime, calls, worker, owner, notified>>

(***************************************************************************)
(* Calls of the request threads.                                           *)
(***************************************************************************)
\* Mutant: tokens are not unique, a new session may draw one that was used.
CreateSession_ReusesToken(th, u, t) ==
    /\ pc[th] = "idle"
    /\ SessionIdToUserIdMap' = [SessionIdToUserIdMap EXCEPT
           ![t] = [UserId |-> u, SessionTime |-> CurrentTimeCached + SessionExpirationTime]]
    /\ UserIdToSessionTokenMap' = [UserIdToSessionTokenMap EXCEPT ![u] = @ \cup {t}]
    /\ owner' = [owner EXCEPT ![t] = u]
    /\ UNCHANGED <<clock, calls, worker, notified>>

\* The session of a login that has checked its credentials.  The token goes to
\* the client with the answer, so nobody uses it before this step.
CreateSession(th, u, t) ==
    /\ pc[th] = "idle"
    /\ owner[t] = NoUser
    /\ SessionIdToUserIdMap' = [SessionIdToUserIdMap EXCEPT
           ![t] = [UserId |-> u, SessionTime |-> CurrentTimeCached + SessionExpirationTime]]
    /\ UserIdToSessionTokenMap' = [UserIdToSessionTokenMap EXCEPT ![u] = @ \cup {t}]
    /\ owner' = [owner EXCEPT ![t] = u]
    /\ UNCHANGED <<clock, calls, worker, notified>>

\* A request arrives with a token some login has handed out.
Authenticate(th, t) ==
    /\ pc[th] = "idle"
    /\ owner[t] # NoUser
    /\ pc' = [pc EXCEPT ![th] = "verifyCheck"]
    /\ arg' = [arg EXCEPT ![th] = t]
    /\ uid' = [uid EXCEPT ![th] = NoUser]
    /\ UNCHANGED <<maps, clock, worker, owner, notified>>

\* First lock of GetUserIdFromSessionId.  A dead token ends VerifyToken with
\* false (the request is refused) and GetIdFromToken with 0.
CheckAlive(th, from, to, dead) ==
    /\ pc[th] = from
    /\ pc' = [pc EXCEPT ![th] = IF IsSessionTokenAlive(arg[th]) THEN to ELSE dead]
    /\ UNCHANGED <<maps, clock, arg, uid, worker, owner, notified>>

VerifyCheck(th) == CheckAlive(th, "verifyCheck", "verifyLookup", "idle")
IdCheck(th) == CheckAlive(th, "idCheck", "idLookup", "accepted")

\* Second lock of GetUserIdFromSessionId, in VerifyToken: true when the id is not 0.
VerifyLookup(th) ==
    /\ pc[th] = "verifyLookup"
    /\ TouchAt(arg[th])
    /\ pc' = [pc EXCEPT ![th] = IF At(arg[th]).UserId # NoUser THEN "idCheck" ELSE "idle"]
    /\ UNCHANGED <<UserIdToSessionTokenMap, clock, arg, uid, worker, owner, notified>>

\* The same in GetIdFromToken: the id the request then acts for.
IdLookup(th) ==
    /\ pc[th] = "idLookup"
    /\ TouchAt(arg[th])
    /\ uid' = [uid EXCEPT ![th] = At(arg[th]).UserId]
    /\ pc' = [pc EXCEPT ![th] = "accepted"]
    /\ UNCHANGED <<UserIdToSessionTokenMap, clock, arg, worker, owner, notified>>

\* The request, or the WebSocket connection, is over.
Finish(th) ==
    /\ pc[th] \in {"accepted", "refreshed"}
    /\ pc' = [pc EXCEPT ![th] = "idle"]
    /\ UNCHANGED <<maps, clock, arg, uid, worker, owner, notified>>

\* The refresh request: FUserManager only asks IsSessionTokenAlive and reports success;
\* FSessionManager::RefreshSessionToken, which would prolong the session, is never called.
RefreshCheck(th, t) ==
    /\ pc[th] = "idle"
    /\ owner[t] # NoUser
    /\ IsSessionTokenAlive(t)
    /\ pc' = [pc EXCEPT ![th] = "refreshed"]
    /\ arg' = [arg EXCEPT ![th] = t]
    /\ UNCHANGED <<maps, clock, uid, worker, owner, notified>>

\* Logout: DeactivateSession, up to the release of its lock.
Logout(th, t) ==
    /\ pc[th] = "idle"
    /\ owner[t] # NoUser
    /\ ContainsKey(t)
    /\ EraseSession(t)
    /\ pc' = [pc EXCEPT ![th] = "notify"]
    /\ arg' = [arg EXCEPT ![th] = t]
    /\ UNCHANGED <<clock, uid, worker, owner, notified>>

\* OnSessionDeactivatedCallback, after the lock has been released.
LogoutNotify(th) ==
    /\ pc[th] = "notify"
    /\ notified' = notified \cup {arg[th]}
    /\ pc' = [pc EXCEPT ![th] = "idle"]
    /\ UNCHANGED <<maps, clock, arg, uid, worker, owner>>

(***************************************************************************)
(* The sweep of the worker thread.                                         *)
(***************************************************************************)
\* Mutant: the sweep collects the sessions that are alive.
SweepStart_CopiesLive ==
    /\ workerPc = "sleep"
    /\ AsyncWorkLastTime + TimeBetweenRuns <= CurrentTimeCached
    /\ AsyncWorkLastTime' = CurrentTimeCached
    /\ SessionIds' = {t \in Tokens : IsSessionTokenAlive(t)}
    /\ workerPc' = "check"
    /\ UNCHANGED <<maps, CurrentTimeCached, calls, current, owner, notified>>

SweepStart ==
    /\ workerPc = "sleep"
    /\ AsyncWorkLastTime + TimeBetweenRuns <= CurrentTimeCached
    /\ AsyncWorkLastTime' = CurrentTimeCached
    /\ SessionIds' = {t \in Tokens : ContainsKey(t)}
    /\ workerPc' = "check"
    /\ UNCHANGED <<maps, CurrentTimeCached, calls, current, owner, notified>>

SweepCheck(t) ==
    /\ workerPc = "check"
    /\ t \in SessionIds
    /\ SessionIds' = SessionIds \ {t}
    /\ IF IsSessionTokenAlive(t)
       THEN UNCHANGED <<workerPc, current>>
       ELSE workerPc' = "deactivate" /\ current' = t
    /\ UNCHANGED <<maps, clock, calls, owner, notified>>

\* Mutant: the sweep erases the session itself and never calls back.
SweepDeactivate_Silent ==
    /\ workerPc = "deactivate"
    /\ IF ContainsKey(current) THEN EraseSession(current) ELSE UNCHANGED maps
    /\ workerPc' = "check"
    /\ UNCHANGED <<clock, calls, SessionIds, current, owner, notified>>

SweepDeactivate ==
    /\ workerPc = "deactivate"
    /\ IF ContainsKey(current)
       THEN EraseSession(current) /\ workerPc' = "notify"
       ELSE UNCHANGED maps /\ workerPc' = "check"
    /\ UNCHANGED <<clock, calls, SessionIds, current, owner, notified>>

SweepNotify ==
    /\ workerPc = "notify"
    /\ notified' = notified \cup {current}
    /\ workerPc' = "check"
    /\ UNCHANGED <<maps, clock, calls, SessionIds, current, owner>>

SweepEnd ==
    /\ workerPc = "check"
    /\ SessionIds = {}
    /\ workerPc' = "sleep"
    /\ UNCHANGED <<maps, clock, calls, SessionIds, current, owner, notified>>

WorkerStep ==
    \/ SweepStart \/ SweepDeactivate \/ SweepNotify \/ SweepEnd
    \/ \E t \in Tokens : SweepCheck(t)

ThreadContinue(th) ==
    \/ VerifyCheck(th) \/ VerifyLookup(th) \/ IdCheck(th) \/ IdLookup(th)
    \/ Finish(th) \/ LogoutNotify(th)

ThreadCall(th) ==
    \E t \in Tokens :
        \/ \E u \in Users : CreateSession(th, u, t)
        \/ Authenticate(th, t) \/ RefreshCheck(th, t) \/ Logout(th, t)

Next ==
    \/ PostSecondTick
    \/ WorkerStep
    \/ \E th \in Threads : ThreadCall(th) \/ ThreadContinue(th)

Spec == Init /\ [][Next]_vars

\* The engine ticks, the worker loop runs, and a call that has started returns.
Fairness ==
    /\ WF_vars(PostSecondTick)
    /\ WF_vars(WorkerStep)
    /\ \A th \in Threads : WF_vars(ThreadContinue(th))

FairSpec == Spec /\ Fairness

(***************************************************************************)
(* Properties.                                                             *)
(***************************************************************************)
\* The two maps always describe the same sessions: a token is in a user's set
\* exactly when the first map gives it to that user, whatever interleaving of
\* logins, logouts, lookups and sweeps, the default-inserted entries included.
MapsAgree ==
    /\ UserIdToSessionTokenMap[NoUser] = {}
    /\ \A u \in Users, t \in Tokens :
           t \in UserIdToSessionTokenMap[u] <=> At(t).UserId = u

\* A token never names anybody but the user it was created for, in the map and
\* in the id a request acts for, even when its session dies during the request.
OwnerKept ==
    /\ \A t \in Tokens : At(t).UserId \in {owner[t], NoUser}
    /\ \A th \in Threads : pc[th] = "accepted" => uid[th] \in {owner[arg[th]], NoUser}

\* After DeactivateSession a token is dead for good: no lookup, refresh or sweep
\* that was already under way brings it back.
EndedStaysDead == \A t \in Tokens : Ended(t) => ~IsSessionTokenAlive(t)

Notifying(t) ==
    \/ \E th \in Threads : pc[th] = "notify" /\ arg[th] = t
    \/ workerPc = "notify" /\ current = t

\* The callback that releases a session's resources runs for every session that
\* ends, unless its thread is just about to run it, and for no session that lives.
EndedIffNotified == \A t \in Tokens : Ended(t) <=> t \in notified \/ Notifying(t)

\* What the manager keeps of its sessions is one story: the maps agree, owners stay, and a
\* session that ended was or is being notified, in every state of lookups, logins and sweeps.
SessionsConsistent == TypeOK /\ MapsAgree /\ OwnerKept /\ EndedIffNotified

\* The component implements the abstract registry of open tokens.
Registry == INSTANCE SessionRegistry WITH
    open <- [t \in Tokens |-> At(t).UserId],
    used <- {t \in Tokens : owner[t] # NoUser}
RegistrySpec == Registry!Spec

\* The sweep reaches every session that expires early enough for a sweep to start
\* before the clock's bound: it ends, whatever the threads do.
Sweepable(t) == At(t).SessionTime + TimeBetweenRuns <= MaxTime

ExpiredSwept ==
    \A t \in Tokens :
        ContainsKey(t) /\ owner[t] # NoUser /\ Sweepable(t) ~> Ended(t)
============================================================================
