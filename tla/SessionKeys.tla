--------------------------- MODULE SessionKeys ---------------------------
(***************************************************************************)
(* Sessions and image keys together, as FUserManager wires them: a login   *)
(* creates a session and registers a key for it, a socket that was let in  *)
(* with a session's token asks for the key, and FSessionManager's          *)
(* deactivation callback revokes it when the session ends.                 *)
(*                                                                         *)
(* The sessions are the abstract registry that SessionManager is shown to  *)
(* implement; the keys are ImageServiceManager, step for step.  A session  *)
(* token is checked when the socket is upgraded and never again.           *)
(***************************************************************************)
EXTENDS ImageServiceManager

CONSTANTS Users, NoUser

VARIABLES open, used,  \* the registry of sessions
          loggingIn,   \* threads whose last call was a login
          undelivered  \* history: withdrawn keys the service was not told of

Registry == INSTANCE SessionRegistry WITH Tokens <- Sessions

allVars == <<vars, open, used, loggingIn, undelivered>>

SKTypeOK == TypeOK /\ Registry!TypeOK /\ loggingIn \subseteq Threads /\ undelivered \subseteq withdrawn

SKInit == Init /\ Registry!Init /\ loggingIn = {} /\ undelivered = {}

\* The login that created the session has answered, so its client has the token.
HandedOut(s) == s \in used /\ \A th \in loggingIn : arg[th] = s => pc[th] = "idle"

\* LoginUser, LoginIntegration and LoginFromId: CreateSession, then RegisterKey.
Login(th, s, u) ==
    /\ Registry!Open(s, u)
    /\ CallRegisterKey(th, s)
    /\ loggingIn' = loggingIn \cup {th}

\* The upgrade handler accepts the token; OnClientConnected follows.
ClientConnects(th, s) ==
    /\ HandedOut(s) /\ open[s] # NoUser
    /\ CallGetKeyForSession(th, s)
    /\ loggingIn' = loggingIn \ {th}
    /\ UNCHANGED <<open, used>>

\* Logout or expiry, which may come before the login has its key: DeactivateSession erases the
\* session, then calls RevokeKey.
SessionEnds(th, s) ==
    /\ Registry!Close(s)
    /\ CallRevokeKey(th, s)
    /\ loggingIn' = loggingIn \ {th}

SessionCall(th) ==
    \E s \in Sessions :
        \/ \E u \in Users : Login(th, s, u)
        \/ ClientConnects(th, s)
        \/ SessionEnds(th, s)

\* The breaker is open, and the service is not asked to delete the key.
Skipped(th) == IF pc[th] = "breaker" /\ pc'[th] = "idle" THEN {key[th]} ELSE {}

KeyStep ==
    /\ \/ \E th \in Threads :
              \/ (RegisterStep(th) \/ RevokeStep(th)) /\ undelivered' = undelivered \cup Skipped(th)
              \/ DeleteFails(th) /\ undelivered' = undelivered \cup {key[th]}
       \/ (ProbeInstanceId \/ ServiceStep \/ TimePasses) /\ UNCHANGED undelivered
    /\ UNCHANGED <<open, used, loggingIn>>

SKNext ==
    \/ KeyStep
    \/ \E th \in Threads : SessionCall(th) /\ UNCHANGED undelivered

SKSpec == SKInit /\ [][SKNext]_allVars

(***************************************************************************)
(* Properties.                                                             *)
(***************************************************************************)
\* Every login, connection and logout has run to its end.
Quiet == \A th \in Threads : pc[th] = "idle"

Ended(s) == s \in used /\ open[s] = NoUser

\* A key that the end of its session found in the cache is dead at the service once all
\* calls have returned, unless the breaker was open or the request to delete it failed.
WithdrawnDeleted == Quiet => withdrawn \cap registered \subseteq undelivered

\* ImageServiceManager.h:17-19: "On logout / session expiry the key is revoked again,
\* so a leaked key stops working as soon as the session ends."  When nothing is under
\* way the image service accepts no key of an ended session.
KeyDiesWithSession ==
    Quiet => \A s \in Sessions : Ended(s) => \A k \in registered : issuedTo[k] # s

\* Together with sessions that open, end and race the registration of their keys, the cache of keys
\* stays consistent in itself and with the running service.
SessionKeysConsistent == SKTypeOK /\ KeysConsistent
===========================================================================
