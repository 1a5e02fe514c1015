-------------------------- MODULE TransferTokens --------------------------
(***************************************************************************)
(* FTransferTokenManager (Auth/TransferTokenManager.cpp) and its two REST  *)
(* endpoints: a user draws a token on one device and redeems it on another *)
(* for a session.  The manager keeps the latest token of each user and a   *)
(* reverse map from token to user, under one lock; a redeem takes that     *)
(* lock three times, to check, to look up and to remove, and then logs in. *)
(***************************************************************************)
EXTENDS TokenCalls

CONSTANTS Users,
          NoUser,            \* the id 0
          NoData,            \* marks a user without a token
          Lifetime,          \* seconds a token lives (60 in the code)
          TimeBetweenRuns,   \* seconds between two sweeps (120 in the code)
          StartTime, MaxTime,  \* clock at start, and the bound of the clock
          WorkerRuns         \* FALSE as deployed: nobody calls Init, which starts the worker

ASSUME TransferAssumption ==
    /\ NoUser \notin Users
    /\ NoToken \notin Tokens
    /\ NoData \notin [Token : Tokens, ExpirationTime : Nat]
    /\ Lifetime \in Nat \ {0}
    /\ TimeBetweenRuns \in Nat
    /\ StartTime \in Nat
    /\ MaxTime \in Nat
    /\ WorkerRuns \in BOOLEAN

VARIABLES
    TransferTokensMap,     \* user -> [Token, ExpirationTime], or NoData
    TransferTokenToIdMap,  \* token -> user, NoUser when it has no entry
    CurrentTimeCached, AsyncWorkLastTime,
    uid, expires,          \* per thread: its user, the expiry it computed; arg is its token
    workerPc, ExpiredTokens,
    logins                 \* history: threads that redeemed a token for a session

maps == <<TransferTokensMap, TransferTokenToIdMap>>
clock == <<CurrentTimeCached, AsyncWorkLastTime>>
transferCalls == <<pc, arg, uid, expires>>
worker == <<workerPc, ExpiredTokens>>
transferVars == <<maps, clock, transferCalls, worker, drawnFor, logins>>

FTransferTokenData == [Token : Tokens, ExpirationTime : Nat]

TransferTypeOK ==
    /\ TransferTokensMap \in [Users -> FTransferTokenData \cup {NoData}]
    /\ TransferTokenToIdMap \in [Tokens -> Users \cup {NoUser}]
    /\ CurrentTimeCached \in Nat
    /\ AsyncWorkLastTime \in Nat
    /\ pc \in [Threads -> {"idle", "create", "check", "lookup", "remove", "login"}]
    /\ arg \in [Threads -> Tokens \cup {NoToken}]
    /\ uid \in [Threads -> Users \cup {NoUser}]
    /\ expires \in [Threads -> Nat]
    /\ \A th \in Threads : pc[th] # "idle" => arg[th] \in Tokens
    /\ \A th \in Threads : pc[th] = "create" => uid[th] \in Users
    /\ workerPc \in {"sleep", "collect", "erase"}
    /\ ExpiredTokens \subseteq Tokens
    /\ drawnFor \in [Tokens -> Users \cup {NoUser}]
    /\ logins \in [Tokens -> SUBSET Threads]

TransferInit ==
    /\ TransferTokensMap = [u \in Users |-> NoData]
    /\ TransferTokenToIdMap = [t \in Tokens |-> NoUser]
    /\ CurrentTimeCached = StartTime
    /\ AsyncWorkLastTime = 0
    /\ pc = [th \in Threads |-> "idle"]
    /\ arg = [th \in Threads |-> NoToken]
    /\ uid = [th \in Threads |-> NoUser]
    /\ expires = [th \in Threads |-> 0]
    /\ workerPc = "sleep"
    /\ ExpiredTokens = {}
    /\ drawnFor = [t \in Tokens |-> NoUser]
    /\ logins = [t \in Tokens |-> {}]

(***************************************************************************)
(* The locked sections.                                                    *)
(***************************************************************************)
HasToken(u) == TransferTokensMap[u] # NoData

\* Mutant: any unexpired token of the user will do.
IsTransferTokenValid_AnyOfUser(t) ==
    \E u \in Users :
        /\ TransferTokenToIdMap[t] = u
        /\ HasToken(u)
        /\ TransferTokensMap[u].ExpirationTime > CurrentTimeCached

IsTransferTokenValid(t) ==
    \E u \in Users :
        /\ TransferTokenToIdMap[t] = u
        /\ HasToken(u)
        /\ TransferTokensMap[u].Token = t
        /\ TransferTokensMap[u].ExpirationTime > CurrentTimeCached

\* Erases the user's entry, whichever token it holds, and this token's own.
EraseToken(t) ==
    /\ TransferTokensMap' = [TransferTokensMap EXCEPT ![TransferTokenToIdMap[t]] = NoData]
    /\ TransferTokenToIdMap' = [TransferTokenToIdMap EXCEPT ![t] = NoUser]

PostSecondTick ==
    /\ \E now \in (CurrentTimeCached + 1)..MaxTime : CurrentTimeCached' = now
    /\ UNCHANGED <<maps, AsyncWorkLastTime, transferCalls, worker, drawnFor, logins>>

(***************************************************************************)
(* /api/v1/transfer_token/create, for a user whose session was verified.   *)
(***************************************************************************)
\* The token is drawn and its expiry computed before the lock is taken.
CreateTransferToken(th, u, t) ==
    /\ pc[th] = "idle"
    /\ drawnFor[t] = NoUser
    /\ drawnFor' = [drawnFor EXCEPT ![t] = u]
    /\ pc' = [pc EXCEPT ![th] = "create"]
    /\ arg' = [arg EXCEPT ![th] = t]
    /\ uid' = [uid EXCEPT ![th] = u]
    /\ expires' = [expires EXCEPT ![th] = CurrentTimeCached + Lifetime]
    /\ UNCHANGED <<maps, clock, worker, logins>>

\* Under the lock: the user's entry is replaced, its former token stays in the reverse map.
CreateStore(th) ==
    /\ pc[th] = "create"
    /\ TransferTokensMap' = [TransferTokensMap EXCEPT
           ![uid[th]] = [Token |-> arg[th], ExpirationTime |-> expires[th]]]
    /\ TransferTokenToIdMap' = [TransferTokenToIdMap EXCEPT ![arg[th]] = uid[th]]
    /\ pc' = [pc EXCEPT ![th] = "idle"]
    /\ UNCHANGED <<clock, arg, uid, expires, worker, drawnFor, logins>>

(***************************************************************************)
(* /api/v1/transfer_token/redeem.                                          *)
(***************************************************************************)
\* A request names a token that some create has answered with.
Redeem(th, t) ==
    /\ pc[th] = "idle"
    /\ drawnFor[t] # NoUser
    /\ \A other \in Threads : ~(pc[other] = "create" /\ arg[other] = t)
    /\ pc' = [pc EXCEPT ![th] = "check"]
    /\ arg' = [arg EXCEPT ![th] = t]
    /\ uid' = [uid EXCEPT ![th] = NoUser]
    /\ UNCHANGED <<maps, clock, expires, worker, drawnFor, logins>>

RedeemCheck(th) ==
    /\ pc[th] = "check"
    /\ pc' = [pc EXCEPT ![th] = IF IsTransferTokenValid(arg[th]) THEN "lookup" ELSE "idle"]
    /\ UNCHANGED <<maps, clock, arg, uid, expires, worker, drawnFor, logins>>

\* Mutant: the id 0 is not refused.
GetUserIdFromTransferToken_Any(th) ==
    /\ pc[th] = "lookup"
    /\ uid' = [uid EXCEPT ![th] = TransferTokenToIdMap[arg[th]]]
    /\ pc' = [pc EXCEPT ![th] = "remove"]
    /\ UNCHANGED <<maps, clock, arg, expires, worker, drawnFor, logins>>

GetUserIdFromTransferToken(th) ==
    /\ pc[th] = "lookup"
    /\ uid' = [uid EXCEPT ![th] = TransferTokenToIdMap[arg[th]]]
    /\ pc' = [pc EXCEPT ![th] = IF uid'[th] # NoUser THEN "remove" ELSE "idle"]
    /\ UNCHANGED <<maps, clock, arg, expires, worker, drawnFor, logins>>

\* The endpoint does not look at the result.
RemoveTransferToken(th) ==
    /\ pc[th] = "remove"
    /\ IF TransferTokenToIdMap[arg[th]] # NoUser THEN EraseToken(arg[th]) ELSE UNCHANGED maps
    /\ pc' = [pc EXCEPT ![th] = "login"]
    /\ UNCHANGED <<clock, arg, uid, expires, worker, drawnFor, logins>>

\* LoginFromId opens a session for a user the database knows.
LoginFromId(th) ==
    /\ pc[th] = "login"
    /\ logins' = [logins EXCEPT ![arg[th]] = @ \cup {th}]
    /\ pc' = [pc EXCEPT ![th] = "idle"]
    /\ UNCHANGED <<maps, clock, arg, uid, expires, worker, drawnFor>>

(***************************************************************************)
(* The worker.                                                             *)
(***************************************************************************)
SweepStart ==
    /\ WorkerRuns
    /\ workerPc = "sleep"
    /\ AsyncWorkLastTime + TimeBetweenRuns <= CurrentTimeCached
    /\ AsyncWorkLastTime' = CurrentTimeCached
    /\ workerPc' = "collect"
    /\ UNCHANGED <<maps, CurrentTimeCached, transferCalls, ExpiredTokens, drawnFor, logins>>

SweepCollect ==
    /\ workerPc = "collect"
    /\ ExpiredTokens' = {TransferTokensMap[u].Token : u \in
           {u \in Users : HasToken(u) /\ TransferTokensMap[u].ExpirationTime <= CurrentTimeCached}}
    /\ workerPc' = IF ExpiredTokens' = {} THEN "sleep" ELSE "erase"
    /\ UNCHANGED <<maps, clock, transferCalls, drawnFor, logins>>

\* One write lock for all: every collected token the reverse map still holds goes, with
\* the entry of its user.
SweepErase ==
    LET gone == {t \in ExpiredTokens : TransferTokenToIdMap[t] # NoUser} IN
    /\ workerPc = "erase"
    /\ TransferTokensMap' = [u \in Users |->
           IF \E t \in gone : TransferTokenToIdMap[t] = u THEN NoData ELSE TransferTokensMap[u]]
    /\ TransferTokenToIdMap' = [t \in Tokens |->
           IF t \in gone THEN NoUser ELSE TransferTokenToIdMap[t]]
    /\ ExpiredTokens' = {}
    /\ workerPc' = "sleep"
    /\ UNCHANGED <<clock, transferCalls, drawnFor, logins>>

WorkerStep == SweepStart \/ SweepCollect \/ SweepErase

ThreadStep(th) ==
    \/ CreateStore(th) \/ RedeemCheck(th) \/ GetUserIdFromTransferToken(th)
    \/ RemoveTransferToken(th) \/ LoginFromId(th)
    \/ \E t \in Tokens : Redeem(th, t) \/ \E u \in Users : CreateTransferToken(th, u, t)

TransferNext == PostSecondTick \/ WorkerStep \/ \E th \in Threads : ThreadStep(th)

TransferSpec == TransferInit /\ [][TransferNext]_transferVars

(***************************************************************************)
(* Properties.                                                             *)
(***************************************************************************)
\* Whatever happens between the check, the lookup and the removal, a redeem logs in
\* the user the token was drawn for and nobody else.
RedeemsItsUser == \A th \in Threads : pc[th] \in {"remove", "login"} => uid[th] = drawnFor[arg[th]]

Answered(t) ==
    drawnFor[t] # NoUser /\ \A th \in Threads : ~(pc[th] = "create" /\ arg[th] = t)

\* A token that has been redeemed, superseded, swept or has expired is never valid
\* again, so no redeem that begins afterwards can succeed.
DeadStaysDead ==
    [][\A t \in Tokens :
          Answered(t) /\ ~IsTransferTokenValid(t) => ~IsTransferTokenValid(t)']_transferVars

\* docs/servers_api.md:262 "Redeem a transfer token to get a new session. Token is
\* consumed on use", and :244 "a one time use transfer token".
ConsumedOnUse ==
    \A t \in Tokens, th1, th2 \in Threads : th1 \in logins[t] /\ th2 \in logins[t] => th1 = th2
===========================================================================
