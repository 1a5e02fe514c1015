----------------------- MODULE SessionManagerProofs -----------------------
(***************************************************************************)
(* Proofs about SessionManager for every set of users, tokens and threads, *)
(* every expiration time and every bound of the clock.                     *)
(***************************************************************************)
EXTENDS SessionManager, TLAPS

LEMMA TypeInit == Init => TypeOK
  BY SessionAssumption DEF Init, TypeOK, FUserSessionData, PcValues, WorkerPcValues

LEMMA TypeStep == TypeOK /\ [Next]_vars => TypeOK'
  <1> SUFFICES ASSUME TypeOK, [Next]_vars PROVE TypeOK'
    OBVIOUS
  <1> USE SessionAssumption DEF TypeOK, maps, clock, calls, worker
  <1>1. CASE PostSecondTick
    BY <1>1 DEF PostSecondTick
  <1>2. CASE WorkerStep
    <2>1. CASE SweepStart
      BY <2>1 DEF SweepStart, WorkerPcValues
    <2>2. CASE SweepDeactivate
      BY <2>2 DEF SweepDeactivate, EraseSession, WorkerPcValues, At, EmptySession,
                  ContainsKey, FUserSessionData
    <2>3. CASE SweepNotify
      BY <2>3 DEF SweepNotify, WorkerPcValues
    <2>4. CASE SweepEnd
      BY <2>4 DEF SweepEnd, WorkerPcValues
    <2>5. ASSUME NEW t \in Tokens, SweepCheck(t) PROVE TypeOK'
      BY <2>5 DEF SweepCheck, WorkerPcValues
    <2> QED BY <1>2, <2>1, <2>2, <2>3, <2>4, <2>5 DEF WorkerStep
  <1>3. ASSUME NEW th \in Threads, NEW t \in Tokens, NEW u \in Users, CreateSession(th, u, t)
        PROVE  TypeOK'
    BY <1>3 DEF CreateSession, FUserSessionData
  <1>4. ASSUME NEW th \in Threads, NEW t \in Tokens,
               Authenticate(th, t) \/ RefreshCheck(th, t) \/ Logout(th, t)
        PROVE  TypeOK'
    BY <1>4 DEF Authenticate, RefreshCheck, Logout, EraseSession, PcValues, At,
                EmptySession, ContainsKey, FUserSessionData
  <1>5. ASSUME NEW th \in Threads, VerifyCheck(th) \/ IdCheck(th) \/ Finish(th) \/ LogoutNotify(th)
        PROVE  TypeOK'
    BY <1>5 DEF VerifyCheck, IdCheck, CheckAlive, Finish, LogoutNotify, PcValues
  <1>6. ASSUME NEW th \in Threads, VerifyLookup(th) \/ IdLookup(th)
        PROVE  TypeOK'
    BY <1>6 DEF VerifyLookup, IdLookup, TouchAt, At, EmptySession, ContainsKey,
                FUserSessionData, PcValues
  <1>7. CASE UNCHANGED vars
    BY <1>7 DEF vars
  <1> QED
    BY <1>1, <1>2, <1>3, <1>4, <1>5, <1>6, <1>7 DEF Next, ThreadCall, ThreadContinue

\* The state of the manager always has its type: no step of any thread, the tick or
\* the sweep takes a map, a clock or a call record out of its domain.
THEOREM TypeCorrect == Spec => []TypeOK
  BY TypeInit, TypeStep, PTL DEF Spec

(***************************************************************************)
(* The maps, the callbacks and the history agree.  The three properties    *)
(* need each other and the facts that only tokens some login has handed    *)
(* out are in the map, in a call or in the sweep.                          *)
(***************************************************************************)
FreshTokensAbsent == \A t \in Tokens : owner[t] = NoUser => SessionIdToUserIdMap[t] = NoSession
CallsOwned ==
    \A th \in Threads :
        /\ pc[th] # "idle" => owner[arg[th]] # NoUser
        /\ pc[th] \in {"verifyCheck", "verifyLookup", "idCheck", "idLookup"} => uid[th] = NoUser
SweepOwned ==
    /\ \A t \in SessionIds : owner[t] # NoUser
    /\ workerPc \in {"deactivate", "notify"} => owner[current] # NoUser

IInv ==
    /\ TypeOK
    /\ MapsAgree
    /\ OwnerKept
    /\ EndedIffNotified
    /\ FreshTokensAbsent
    /\ CallsOwned
    /\ SweepOwned

LEMMA InvInit == Init => IInv
  <1> SUFFICES ASSUME Init PROVE IInv
    OBVIOUS
  <1>1. TypeOK
    BY TypeInit
  <1>2. MapsAgree /\ OwnerKept /\ FreshTokensAbsent /\ CallsOwned /\ SweepOwned
    BY SessionAssumption DEF Init, MapsAgree, OwnerKept, FreshTokensAbsent, CallsOwned,
                             SweepOwned, At, ContainsKey, EmptySession
  <1>3. EndedIffNotified
    BY DEF Init, EndedIffNotified, Ended, Notifying
  <1> QED BY <1>1, <1>2, <1>3 DEF IInv

LEMMA AtType ==
  ASSUME TypeOK, NEW t \in Tokens
  PROVE  /\ At(t) \in FUserSessionData
         /\ ContainsKey(t) => At(t) = SessionIdToUserIdMap[t]
         /\ ~ContainsKey(t) => At(t).UserId = NoUser
  BY SessionAssumption DEF TypeOK, At, ContainsKey, EmptySession, FUserSessionData

\* Inserting the default entry changes nobody's user.
LEMMA TouchKeepsUsers ==
  ASSUME TypeOK, NEW t \in Tokens, TouchAt(t)
  PROVE  \A s \in Tokens : At(s)'.UserId = At(s).UserId
  BY SessionAssumption DEF TypeOK, TouchAt, At, ContainsKey, EmptySession, FUserSessionData

\* Erasing a token leaves it without a user and every other token with its own.
LEMMA EraseUsers ==
  ASSUME TypeOK, NEW t \in Tokens, EraseSession(t)
  PROVE  /\ At(t)'.UserId = NoUser
         /\ \A s \in Tokens \ {t} : At(s)'.UserId = At(s).UserId
         /\ SessionIdToUserIdMap'[t] = NoSession
         /\ \A s \in Tokens \ {t} : SessionIdToUserIdMap'[s] = SessionIdToUserIdMap[s]
         /\ UserIdToSessionTokenMap' =
               [UserIdToSessionTokenMap EXCEPT ![At(t).UserId] = @ \ {t}]
  BY SessionAssumption DEF TypeOK, EraseSession, At, ContainsKey, EmptySession, FUserSessionData

LEMMA EraseKeepsAgreement ==
  ASSUME TypeOK, MapsAgree, NEW t \in Tokens, EraseSession(t)
  PROVE  MapsAgree'
  BY AtType, EraseUsers, SessionAssumption DEF FUserSessionData, TypeOK, MapsAgree

(* A step that leaves the user of every token, the second map and the      *)
(* owners alone keeps everything that is said of these alone.              *)
LEMMA SameUsers ==
  ASSUME IInv, TypeOK', owner' = owner, UserIdToSessionTokenMap' = UserIdToSessionTokenMap,
         \A t \in Tokens : At(t)'.UserId = At(t).UserId
  PROVE  /\ MapsAgree'
         /\ \A t \in Tokens : At(t)'.UserId \in {owner'[t], NoUser}
         /\ \A t \in Tokens : Ended(t)' <=> Ended(t)
  BY DEF IInv, MapsAgree, OwnerKept, Ended

\* Steps that change no map: a tick, the first lock of a lookup, the sweep's bookkeeping.
LEMMA QuietStep ==
  ASSUME IInv, TypeOK', UNCHANGED <<maps, owner, notified>>,
         \A t \in Tokens : Notifying(t)' <=> Notifying(t),
         \A th \in Threads : pc'[th] = "accepted" => uid'[th] \in {owner[arg'[th]], NoUser},
         CallsOwned', SweepOwned'
  PROVE  IInv'
  BY SameUsers DEF At, ContainsKey, maps, OwnerKept, IInv, EndedIffNotified, FreshTokensAbsent

\* The second lock of a lookup: the missing entry it inserts belongs to nobody.
LEMMA LookupStep ==
  ASSUME IInv, TypeOK', NEW th \in Threads, VerifyLookup(th) \/ IdLookup(th)
  PROVE  IInv'
  <1>1. arg[th] \in Tokens /\ TouchAt(arg[th])
    BY DEF IInv, TypeOK, VerifyLookup, IdLookup
  <1>2. \A t \in Tokens : At(t)'.UserId = At(t).UserId
    BY <1>1, TouchKeepsUsers DEF IInv
  <1>3. UNCHANGED <<UserIdToSessionTokenMap, owner, notified, arg, worker>>
    BY DEF VerifyLookup, IdLookup
  <1>4. MapsAgree' /\ (\A t \in Tokens : At(t)'.UserId \in {owner'[t], NoUser})
                   /\ (\A t \in Tokens : Ended(t)' <=> Ended(t))
    BY <1>2, <1>3, SameUsers
  <1>5. owner[arg[th]] # NoUser
    BY <1>1 DEF IInv, CallsOwned, VerifyLookup, IdLookup
  <1>6. \A x \in Threads : pc'[x] # "idle" => pc[x] # "idle"
    BY DEF VerifyLookup, IdLookup, IInv, TypeOK
  <1>7. OwnerKept'
    BY <1>1, <1>3, <1>4 DEF IdLookup, IInv, TypeOK, OwnerKept, VerifyLookup
  <1>8. \A t \in Tokens : Notifying(t)' <=> Notifying(t)
    BY <1>3 DEF Notifying, VerifyLookup, IdLookup, worker, IInv, TypeOK
  <1>9. EndedIffNotified'
    BY <1>3, <1>4, <1>8 DEF IInv, EndedIffNotified
  <1>10. FreshTokensAbsent'
    BY <1>1, <1>3, <1>5 DEF IInv, FreshTokensAbsent, TouchAt, TypeOK
  <1>11. CallsOwned' /\ SweepOwned'
    BY <1>3, <1>6 DEF IInv, TypeOK, CallsOwned, SweepOwned, worker, VerifyLookup, IdLookup
  <1> QED BY <1>4, <1>7, <1>9, <1>10, <1>11 DEF IInv

\* A login takes a token nobody had.
LEMMA CreateStep ==
  ASSUME IInv, TypeOK', NEW th \in Threads, NEW t \in Tokens, NEW u \in Users,
         CreateSession(th, u, t)
  PROVE  IInv'
  <1> USE DEF CreateSession
  <1>1. owner[t] = NoUser /\ ~ContainsKey(t) /\ At(t).UserId = NoUser
    BY DEF IInv, FreshTokensAbsent, ContainsKey, At, EmptySession
  <1>2. /\ owner'[t] = u /\ u # NoUser
        /\ \A s \in Tokens \ {t} : owner'[s] = owner[s]
    BY SessionAssumption DEF IInv, TypeOK
  <1>3. SessionIdToUserIdMap'[t] =
           [UserId |-> u, SessionTime |-> CurrentTimeCached + SessionExpirationTime]
    BY DEF IInv, TypeOK
  <1>4. At(t)'.UserId = u
    BY <1>3, SessionAssumption DEF IInv, TypeOK, FUserSessionData, ContainsKey, At
  <1>5. \A s \in Tokens \ {t} : At(s)' = At(s)
    BY DEF At, ContainsKey, IInv, TypeOK
  <1>6. MapsAgree'
    BY <1>1, <1>2, <1>4, <1>5, SessionAssumption DEF IInv, TypeOK, MapsAgree
  <1>7. \A x \in Threads : pc[x] # "idle" => arg[x] \in Tokens \ {t}
    BY <1>1 DEF IInv, TypeOK, CallsOwned
  <1>8. OwnerKept'
    BY <1>2, <1>4, <1>5, <1>7 DEF IInv, OwnerKept, calls
  <1>9. EndedIffNotified'
    BY <1>1, <1>2, <1>4, <1>5 DEF Ended, Notifying, calls, worker, IInv, EndedIffNotified
  <1>10. FreshTokensAbsent'
    BY <1>2 DEF IInv, FreshTokensAbsent, TypeOK
  <1>11. CallsOwned' /\ SweepOwned'
    BY <1>1, <1>2, <1>7 DEF IInv, CallsOwned, SweepOwned, calls, worker, TypeOK
  <1> QED BY <1>6, <1>8, <1>9, <1>10, <1>11 DEF IInv

\* DeactivateSession, called by a logout or by the sweep, on a token in the map:
\* what it does to everything but the call or the sweep record of its caller.
LEMMA EraseEffect ==
  ASSUME IInv, TypeOK', NEW t \in Tokens, EraseSession(t), owner' = owner, owner[t] # NoUser
  PROVE  /\ MapsAgree'
         /\ \A s \in Tokens : At(s)'.UserId \in {owner'[s], NoUser}
         /\ \A s \in Tokens : Ended(s)' <=> Ended(s) \/ s = t
         /\ FreshTokensAbsent'
  BY EraseKeepsAgreement, EraseUsers DEF IInv, OwnerKept, Ended, FreshTokensAbsent

LEMMA LogoutStep ==
  ASSUME IInv, TypeOK', NEW th \in Threads, NEW t \in Tokens, Logout(th, t)
  PROVE  IInv'
  <1> USE DEF Logout
  <1>1. /\ MapsAgree'
        /\ \A s \in Tokens : At(s)'.UserId \in {owner'[s], NoUser}
        /\ \A s \in Tokens : Ended(s)' <=> Ended(s) \/ s = t
        /\ FreshTokensAbsent'
    BY EraseEffect
  <1>2. OwnerKept'
    BY <1>1 DEF IInv, OwnerKept, TypeOK
  <1>3. EndedIffNotified'
    BY <1>1 DEF IInv, TypeOK, Notifying, worker, EndedIffNotified
  <1>4. CallsOwned' /\ SweepOwned'
    BY DEF IInv, CallsOwned, SweepOwned, worker, TypeOK
  <1> QED BY <1>1, <1>2, <1>3, <1>4 DEF IInv

LEMMA SweepDeactivateStep ==
  ASSUME IInv, TypeOK', SweepDeactivate
  PROVE  IInv'
  <1> USE DEF SweepDeactivate
  <1>0. current \in Tokens /\ owner[current] # NoUser
    BY DEF IInv, TypeOK, SweepOwned
  <1>1. CASE ContainsKey(current)
    BY <1>0, <1>1, EraseEffect DEF IInv, OwnerKept, calls, Notifying, EndedIffNotified, CallsOwned,
       SweepOwned
  <1>2. CASE ~ContainsKey(current)
    BY <1>2, QuietStep DEF maps, IInv, CallsOwned, SweepOwned, calls, Notifying, OwnerKept
  <1> QED BY <1>1, <1>2

\* The callback runs for the token whose entry its thread has just erased.
LEMMA NotifyStep ==
  ASSUME IInv, TypeOK', SweepNotify \/ \E th \in Threads : LogoutNotify(th)
  PROVE  IInv'
  <1>1. UNCHANGED <<maps, owner>> /\ \A t \in Tokens : At(t)' = At(t)
    BY DEF SweepNotify, LogoutNotify, At, ContainsKey, maps
  <1>2. /\ MapsAgree'
        /\ \A t \in Tokens : At(t)'.UserId \in {owner'[t], NoUser}
        /\ \A t \in Tokens : Ended(t)' <=> Ended(t)
    BY <1>1, SameUsers DEF maps
  <1>3. OwnerKept'
    BY <1>1, <1>2 DEF IInv, OwnerKept, SweepNotify, LogoutNotify, calls, TypeOK
  <1>4. EndedIffNotified'
    BY <1>2 DEF IInv, TypeOK, Notifying, SweepNotify, LogoutNotify, calls, worker, EndedIffNotified
  <1>5. FreshTokensAbsent'
    BY <1>1 DEF IInv, FreshTokensAbsent, maps
  <1>6. CallsOwned' /\ SweepOwned'
    BY DEF IInv, CallsOwned, SweepOwned, SweepNotify, LogoutNotify, calls, worker, TypeOK
  <1> QED BY <1>2, <1>3, <1>4, <1>5, <1>6 DEF IInv

\* Steps that change no map.
LEMMA BookkeepingStep ==
  ASSUME IInv, TypeOK',
         \/ PostSecondTick \/ SweepStart \/ SweepEnd \/ UNCHANGED vars
         \/ \E t \in Tokens : SweepCheck(t)
         \/ \E th \in Threads : VerifyCheck(th) \/ IdCheck(th) \/ Finish(th)
         \/ \E th \in Threads, t \in Tokens : Authenticate(th, t) \/ RefreshCheck(th, t)
  PROVE  IInv'
  <1> USE DEF PostSecondTick, SweepStart, SweepEnd, SweepCheck, VerifyCheck, IdCheck, CheckAlive,
              Finish, Authenticate, RefreshCheck
  <1>1. UNCHANGED <<maps, owner, notified>>
    BY DEF vars, maps
  <1>2. \A t \in Tokens : Notifying(t)' <=> Notifying(t)
    BY DEF IInv, TypeOK, Notifying, vars, calls, worker
  <1>3. \A th \in Threads : pc'[th] = "accepted" => uid'[th] \in {owner[arg'[th]], NoUser}
    BY DEF IInv, TypeOK, OwnerKept, CallsOwned, vars, calls
  <1>4. CallsOwned'
    BY DEF IInv, TypeOK, CallsOwned, vars, calls
  <1>5. SweepOwned'
    BY DEF IInv, TypeOK, SweepOwned, FreshTokensAbsent, ContainsKey, vars, worker
  <1> QED BY <1>1, <1>2, <1>3, <1>4, <1>5, QuietStep

LEMMA InvStep == IInv /\ [Next]_vars => IInv'
  BY TypeStep, BookkeepingStep, SweepDeactivateStep, NotifyStep, CreateStep, LogoutStep, LookupStep
     DEF IInv, WorkerStep, ThreadCall, ThreadContinue, Next

THEOREM Invariance == Spec => []IInv
  BY InvInit, InvStep, PTL DEF Spec

\* The first map and the users' token sets never disagree, for any number of threads.
THEOREM MapsNeverDisagree == Spec => []MapsAgree
  <1>1. IInv => MapsAgree
    BY DEF IInv
  <1> QED BY Invariance, <1>1, PTL

\* No interleaving makes a token name a user it was not created for.
THEOREM TokensKeepTheirOwner == Spec => []OwnerKept
  <1>1. IInv => OwnerKept
    BY DEF IInv
  <1> QED BY Invariance, <1>1, PTL

\* Exactly the sessions that ended have their callback run or about to run.
THEOREM CallbackPerEndedSession == Spec => []EndedIffNotified
  <1>1. IInv => EndedIffNotified
    BY DEF IInv
  <1> QED BY Invariance, <1>1, PTL

\* The four together, as the runs check them, for any number of users, tokens and threads.
THEOREM SessionsStayConsistent == Spec => []SessionsConsistent
  BY TypeCorrect, MapsNeverDisagree, TokensKeepTheirOwner, CallbackPerEndedSession, PTL DEF SessionsConsistent

(***************************************************************************)
(* A token that has ended stays dead: the entries that lookups insert      *)
(* never live.                                                             *)
(***************************************************************************)
GhostsExpired == \A t \in Tokens : ContainsKey(t) /\ At(t).UserId = NoUser => At(t).SessionTime = 0

LEMMA GhostStep ==
  ASSUME IInv, GhostsExpired, [Next]_vars
  PROVE  GhostsExpired'
  <1>0. TypeOK
    BY DEF IInv
  <1>1. ASSUME UNCHANGED SessionIdToUserIdMap PROVE GhostsExpired'
    BY <1>1 DEF GhostsExpired, At, ContainsKey
  <1>2. ASSUME NEW s \in Tokens, TouchAt(s) PROVE GhostsExpired'
    BY <1>2, <1>0, SessionAssumption DEF GhostsExpired, TouchAt, At, ContainsKey, EmptySession,
                                        TypeOK, FUserSessionData
  <1>3. ASSUME NEW s \in Tokens, EraseSession(s) PROVE GhostsExpired'
    BY <1>3, <1>0 DEF GhostsExpired, EraseSession, At, ContainsKey, TypeOK
  <1>4. ASSUME NEW th \in Threads, NEW s \in Tokens, NEW u \in Users, CreateSession(th, u, s)
        PROVE  GhostsExpired'
    BY <1>4, <1>0, SessionAssumption DEF GhostsExpired, CreateSession, At, ContainsKey, TypeOK,
                                        FUserSessionData
  <1>5. CASE WorkerStep
    BY <1>0, <1>1, <1>3, <1>5 DEF SweepDeactivate, TypeOK, maps, WorkerStep, SweepStart,
       SweepNotify, SweepEnd, SweepCheck
  <1>6. ASSUME NEW th \in Threads, ThreadCall(th) PROVE GhostsExpired'
    BY <1>6, <1>1, <1>3, <1>4 DEF ThreadCall, Authenticate, RefreshCheck, Logout, maps
  <1>7. ASSUME NEW th \in Threads, ThreadContinue(th) PROVE GhostsExpired'
    BY <1>0, <1>1, <1>2, <1>7 DEF VerifyLookup, IdLookup, TypeOK, ThreadContinue, VerifyCheck,
       IdCheck, CheckAlive, Finish, LogoutNotify, maps
  <1> QED BY <1>1, <1>5, <1>6, <1>7 DEF Next, PostSecondTick, vars, maps

\* No login, lookup, refresh or sweep brings an ended session back to life.
THEOREM EndedSessionsStayDead == Spec => []EndedStaysDead
  <1>1. Init => GhostsExpired
    BY DEF Init, GhostsExpired, ContainsKey
  <1>2. IInv /\ GhostsExpired /\ [Next]_vars => GhostsExpired'
    BY GhostStep
  <1>3. IInv /\ GhostsExpired => EndedStaysDead
    BY AtType DEF IInv, TypeOK, GhostsExpired, EndedStaysDead, Ended, IsSessionTokenAlive, At
  <1> QED BY Invariance, <1>1, <1>2, <1>3, PTL DEF Spec

(***************************************************************************)
(* Refinement: every step of the component is a step of the registry of    *)
(* open tokens, or leaves it alone.                                        *)
(***************************************************************************)
LEMMA RegistryInit == Init => Registry!Init
  BY DEF Init, Registry!Init, At, ContainsKey, EmptySession

LEMMA SameRegistry ==
  ASSUME TypeOK, TypeOK', owner' = owner, \A t \in Tokens : At(t)'.UserId = At(t).UserId
  PROVE  UNCHANGED Registry!vars
  BY DEF Registry!vars

LEMMA EraseIsClose ==
  ASSUME IInv, NEW t \in Tokens, owner' = owner, EraseSession(t)
  PROVE  [Registry!Next]_Registry!vars
  <1>1. TypeOK
    BY DEF IInv
  <1>2. At(t)'.UserId = NoUser /\ \A s \in Tokens \ {t} : At(s)'.UserId = At(s).UserId
    BY <1>1, EraseUsers
  <1>3. CASE At(t).UserId = NoUser
    BY <1>2, <1>3 DEF Registry!vars
  <1>4. CASE At(t).UserId # NoUser
    BY <1>2, <1>4 DEF Registry!Close, Registry!Next
  <1> QED BY <1>3, <1>4

LEMMA RegistryStep == IInv /\ [Next]_vars => [Registry!Next]_Registry!vars
  <1> SUFFICES ASSUME IInv, [Next]_vars PROVE [Registry!Next]_Registry!vars
    OBVIOUS
  <1>0. TypeOK /\ TypeOK'
    BY TypeStep DEF IInv
  <1>1. ASSUME UNCHANGED <<SessionIdToUserIdMap, owner>> PROVE [Registry!Next]_Registry!vars
    BY <1>1 DEF Registry!vars, At, ContainsKey
  <1>2. ASSUME NEW t \in Tokens, TouchAt(t), owner' = owner PROVE [Registry!Next]_Registry!vars
    BY <1>2, <1>0, TouchKeepsUsers, SameRegistry
  <1>3. CASE WorkerStep
    BY <1>0, <1>1, <1>3, EraseIsClose DEF SweepDeactivate, TypeOK, maps, WorkerStep, SweepStart,
       SweepNotify, SweepEnd, SweepCheck
  <1>4. ASSUME NEW th \in Threads, ThreadCall(th) PROVE [Registry!Next]_Registry!vars
    <2>1. ASSUME NEW t \in Tokens, NEW u \in Users, CreateSession(th, u, t)
          PROVE  Registry!Open(t, u)
      <3>1. owner[t] = NoUser /\ owner' = [owner EXCEPT ![t] = u] /\ u # NoUser
        BY <2>1, SessionAssumption DEF CreateSession
      <3>2. SessionIdToUserIdMap'[t] \in FUserSessionData /\ SessionIdToUserIdMap'[t].UserId = u
        BY <2>1, <1>0, SessionAssumption DEF CreateSession, TypeOK, FUserSessionData
      <3>3. At(t)'.UserId = u
        BY <3>2, SessionAssumption DEF At, ContainsKey, FUserSessionData
      <3>4. \A s \in Tokens \ {t} : At(s)' = At(s)
        BY <2>1, <1>0 DEF CreateSession, At, ContainsKey, TypeOK
      <3>5. [s \in Tokens |-> At(s)'.UserId] = [[s \in Tokens |-> At(s).UserId] EXCEPT ![t] = u]
        BY <3>3, <3>4
      <3>6. t \notin {s \in Tokens : owner[s] # NoUser}
        BY <3>1
      <3>7. {s \in Tokens : owner'[s] # NoUser} = {s \in Tokens : owner[s] # NoUser} \cup {t}
        BY <1>0, <3>1 DEF TypeOK
      <3> QED BY <3>5, <3>6, <3>7 DEF Registry!Open
    <2> QED BY <1>4, <2>1, <1>1, EraseIsClose DEF ThreadCall, Authenticate, RefreshCheck, Logout,
                                               maps, Registry!Next
  <1>5. ASSUME NEW th \in Threads, ThreadContinue(th) PROVE [Registry!Next]_Registry!vars
    BY <1>0, <1>1, <1>2, <1>5 DEF VerifyLookup, IdLookup, TypeOK, ThreadContinue, VerifyCheck,
       IdCheck, CheckAlive, Finish, LogoutNotify, maps
  <1> QED BY <1>1, <1>3, <1>4, <1>5 DEF Next, PostSecondTick, vars, maps

\* The session manager implements the registry: with its caches, its clock, its sweep
\* and its threads, a token is opened once, for one user, and closed once.
THEOREM ImplementsRegistry == Spec => RegistrySpec
  BY Invariance, RegistryInit, RegistryStep, PTL DEF Spec, RegistrySpec, Registry!Spec

=============================================================================
