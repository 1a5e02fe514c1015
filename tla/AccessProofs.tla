---------------------------- MODULE AccessProofs ----------------------------
(***************************************************************************)
(* Proofs about what lets somebody in.  TransferTokens, for every set of   *)
(* users, tokens and threads, every lifetime and every clock, with or      *)
(* without the worker; RoomsService, for every set of rooms, tokens and    *)
(* threads, every breaker setting and any number of failures and restarts; *)
(* and ServerMembership, for every set of users, threads and permission    *)
(* masks and any number of FServer objects and failures.                   *)
(***************************************************************************)
EXTENDS TransferTokens, RoomsService, ServerMembership, SequenceTheorems, TLAPS

(***************************************************************************)
(* Transfer tokens: types.                                                 *)
(***************************************************************************)
LEMMA TransferTypesBegin == TransferInit => TransferTypeOK
  BY TransferAssumption DEF TransferInit, TransferTypeOK

LEMMA TransferTypesStay == TransferTypeOK /\ [TransferNext]_transferVars => TransferTypeOK'
  <1> SUFFICES ASSUME TransferTypeOK, [TransferNext]_transferVars PROVE TransferTypeOK'
    OBVIOUS
  <1> USE TransferAssumption DEF TransferTypeOK, maps, clock, transferCalls, worker
  <1>1. CASE PostSecondTick
    BY <1>1 DEF PostSecondTick
  <1>2. CASE WorkerStep
    BY <1>2 DEF SweepStart, SweepCollect, HasToken, FTransferTokenData, SweepErase, WorkerStep
  <1>3. ASSUME NEW th \in Threads, NEW t \in Tokens, NEW u \in Users,
               CreateTransferToken(th, u, t)
        PROVE  TransferTypeOK'
    BY <1>3 DEF CreateTransferToken
  <1>4. ASSUME NEW th \in Threads, CreateStore(th) PROVE TransferTypeOK'
    BY <1>4 DEF CreateStore, FTransferTokenData
  <1>5. ASSUME NEW th \in Threads, NEW t \in Tokens, Redeem(th, t) PROVE TransferTypeOK'
    BY <1>5 DEF Redeem
  <1>6. ASSUME NEW th \in Threads,
               RedeemCheck(th) \/ GetUserIdFromTransferToken(th) \/ LoginFromId(th)
        PROVE  TransferTypeOK'
    BY <1>6 DEF RedeemCheck, GetUserIdFromTransferToken, LoginFromId
  <1>7. ASSUME NEW th \in Threads, RemoveTransferToken(th) PROVE TransferTypeOK'
    BY <1>7 DEF RemoveTransferToken, EraseToken
  <1>8. CASE UNCHANGED transferVars
    BY <1>8 DEF transferVars
  <1> QED
    BY <1>1, <1>2, <1>3, <1>4, <1>5, <1>6, <1>7, <1>8 DEF TransferNext, ThreadStep

\* The manager, its worker and the calls in progress always have their types.
THEOREM TransferTypesCorrect == TransferSpec => []TransferTypeOK
  BY TransferTypesBegin, TransferTypesStay, PTL DEF TransferSpec

(***************************************************************************)
(* The reverse map never names a user the token was not drawn for, even    *)
(* after the entry of that user went to a later token; and a call that has *)
(* looked a user up works on a token somebody drew.  Without the second    *)
(* part a draw could change the owner of a token under a running redeem.   *)
(***************************************************************************)
IdMapFollowsDraws ==
    \A t \in Tokens : TransferTokenToIdMap[t] \in {NoUser, drawnFor[t]}
CallsFollowDraws ==
    \A th \in Threads :
        pc[th] \in {"create", "remove", "login"} =>
            uid[th] # NoUser /\ uid[th] = drawnFor[arg[th]]

TransferInv == TransferTypeOK /\ IdMapFollowsDraws /\ CallsFollowDraws

LEMMA TransferBegins == TransferInit => TransferInv
  BY TransferTypesBegin DEF TransferInit, IdMapFollowsDraws, CallsFollowDraws, TransferInv

LEMMA TransferStays == TransferInv /\ [TransferNext]_transferVars => TransferInv'
  <1> SUFFICES ASSUME TransferInv, [TransferNext]_transferVars PROVE TransferInv'
    OBVIOUS
  <1>0. TransferTypeOK /\ TransferTypeOK'
    BY TransferTypesStay DEF TransferInv
  <1> SUFFICES IdMapFollowsDraws' /\ CallsFollowDraws'
    BY <1>0 DEF TransferInv
  <1> USE TransferAssumption, <1>0 DEF TransferInv, TransferTypeOK, IdMapFollowsDraws, CallsFollowDraws,
                                       maps, clock, transferCalls, worker
  <1>1. CASE PostSecondTick
    BY <1>1 DEF PostSecondTick
  <1>2. CASE WorkerStep
    BY <1>2 DEF WorkerStep, SweepStart, SweepCollect, SweepErase
  <1>3. ASSUME NEW th \in Threads, NEW t \in Tokens, NEW u \in Users,
               CreateTransferToken(th, u, t)
        PROVE  IdMapFollowsDraws' /\ CallsFollowDraws'
    BY <1>3 DEF CreateTransferToken
  <1>4. ASSUME NEW th \in Threads, CreateStore(th)
        PROVE  IdMapFollowsDraws' /\ CallsFollowDraws'
    BY <1>4 DEF CreateStore
  <1>5. ASSUME NEW th \in Threads, NEW t \in Tokens, Redeem(th, t)
        PROVE  IdMapFollowsDraws' /\ CallsFollowDraws'
    BY <1>5 DEF Redeem
  <1>6. ASSUME NEW th \in Threads, RedeemCheck(th) \/ LoginFromId(th)
        PROVE  IdMapFollowsDraws' /\ CallsFollowDraws'
    BY <1>6 DEF RedeemCheck, LoginFromId
  <1>7. ASSUME NEW th \in Threads, GetUserIdFromTransferToken(th)
        PROVE  IdMapFollowsDraws' /\ CallsFollowDraws'
    BY <1>7 DEF GetUserIdFromTransferToken
  <1>8. ASSUME NEW th \in Threads, RemoveTransferToken(th)
        PROVE  IdMapFollowsDraws' /\ CallsFollowDraws'
    BY <1>8 DEF RemoveTransferToken, EraseToken
  <1>9. CASE UNCHANGED transferVars
    BY <1>9 DEF transferVars
  <1> QED
    BY <1>1, <1>2, <1>3, <1>4, <1>5, <1>6, <1>7, <1>8, <1>9 DEF TransferNext, ThreadStep

LEMMA TransferAlways == TransferSpec => []TransferInv
  BY TransferBegins, TransferStays, PTL DEF TransferSpec

\* However the three locked sections of a redeem interleave with other redeems, with
\* creates and with the worker, the session it opens belongs to the user the token was
\* drawn for.
THEOREM RedeemIsForItsUser == TransferSpec => []RedeemsItsUser
  <1>1. TransferInv => RedeemsItsUser
    BY DEF TransferInv, CallsFollowDraws, RedeemsItsUser
  <1> QED BY <1>1, TransferAlways, PTL

(***************************************************************************)
(* A token can only become valid by being stored, and a token is stored    *)
(* once, before its create answers.                                        *)
(***************************************************************************)
LEMMA DeadStep ==
  ASSUME TransferTypeOK, TransferTypeOK', [TransferNext]_transferVars, NEW t \in Tokens, Answered(t), IsTransferTokenValid(t)'
  PROVE  IsTransferTokenValid(t)
  <1> USE TransferAssumption DEF TransferTypeOK, maps, clock, transferCalls, worker, IsTransferTokenValid,
                                 HasToken, FTransferTokenData
  <1>1. CASE PostSecondTick
    BY <1>1 DEF PostSecondTick
  <1>2. CASE WorkerStep
    BY <1>2 DEF SweepStart, SweepCollect, SweepErase, WorkerStep
  <1>3. ASSUME NEW th \in Threads, CreateStore(th) PROVE IsTransferTokenValid(t)
    BY <1>3 DEF CreateStore, Answered
  <1>4. ASSUME NEW th \in Threads, RemoveTransferToken(th) PROVE IsTransferTokenValid(t)
    BY <1>4 DEF RemoveTransferToken, EraseToken
  <1>5. ASSUME NEW th \in Threads, UNCHANGED <<maps, CurrentTimeCached>>
        PROVE  IsTransferTokenValid(t)
    BY <1>5
  <1>6. CASE UNCHANGED transferVars
    BY <1>6 DEF transferVars
  <1> QED
    BY <1>1, <1>2, <1>3, <1>4, <1>5, <1>6
       DEF TransferNext, ThreadStep, RedeemCheck, GetUserIdFromTransferToken, LoginFromId, Redeem,
           CreateTransferToken

\* A token that a create has answered with and that is no longer valid, because it was
\* redeemed, superseded, swept or has expired, is never valid again.
THEOREM DeadTokensStayDead == TransferSpec => DeadStaysDead
  <1>1. TransferTypeOK /\ TransferTypeOK' /\ [TransferNext]_transferVars =>
          [\A t \in Tokens :
              Answered(t) /\ ~IsTransferTokenValid(t) => ~IsTransferTokenValid(t)']_transferVars
    BY DeadStep
  <1> QED BY <1>1, TransferTypesCorrect, PTL DEF TransferSpec, DeadStaysDead

(***************************************************************************)
(* Voice rooms: types.                                                     *)
(***************************************************************************)
LEMMA Threshold == CircuitBreakerThreshold \in Nat
  BY RoomsAssumption

CountType == ConsecutiveVoiceServiceFailures \in 0..CircuitBreakerThreshold
CoolingType == Cooling \in BOOLEAN

LEMMA TypeInit == Init => TypeOK
  <1> SUFFICES ASSUME Init PROVE TypeOK
    OBVIOUS
  <1>1. CountType
    BY Threshold DEF Init, CountType
  <1>2. CoolingType
    BY DEF Init, CoolingType
  <1>3. /\ RoomNameToToken \in [Rooms -> Tokens \cup {NoToken}]
        /\ arg \in [Threads -> Rooms \cup {NoRoom}]
        /\ token \in [Threads -> Tokens \cup {NoToken}]
        /\ serviceRoom \in [Rooms -> Tokens \cup {NoToken}]
        /\ drawnFor \in [Tokens -> Rooms \cup {NoRoom}]
        /\ restarts \in Nat
    BY DEF Init
  <1>4. /\ pc \in [Threads -> PcValues] /\ reply \in [Threads -> Replies]
        /\ \A th \in Threads : pc[th] = "idle"
    BY DEF Init, PcValues, Replies
  <1>5. alone \in [Threads -> BOOLEAN] /\ up \in BOOLEAN
    BY DEF Init
  <1>6. \A th \in Threads : pc[th] # "idle" => arg[th] \in Rooms
    BY <1>4
  <1>7. \A th \in Threads : pc[th] \in {"post", "posted"} => token[th] \in Tokens
    BY <1>4
  <1> QED BY <1>1, <1>2, <1>3, <1>4, <1>5, <1>6, <1>7, Zenon DEF TypeOK, CountType, CoolingType

\* The breaker keeps its type whatever is recorded: a failure is counted only below
\* the threshold.
LEMMA RecordType ==
  ASSUME CountType, CoolingType, NEW r \in Replies, RecordReply(r)
  PROVE  CountType' /\ CoolingType'
  <1>1. CASE r = "unreachable" /\ CircuitBreakerThreshold # 0
    BY <1>1, Threshold DEF RecordReply, RecordVoiceServiceFailureLocked, CountType, Tripped,
       CoolingType
  <1>2. CASE r = "unreachable" /\ CircuitBreakerThreshold = 0
    BY <1>2, Zenon DEF RecordReply, RecordVoiceServiceFailureLocked, breaker, CountType, CoolingType
  <1>3. CASE r # "unreachable"
    <2>1. ConsecutiveVoiceServiceFailures' = 0 /\ Cooling' = FALSE
      BY <1>3, Zenon DEF RecordReply, RecordVoiceServiceSuccessLocked
    <2>2. CountType'
      BY <2>1, Threshold DEF CountType
    <2>3. CoolingType'
      BY <2>1 DEF CoolingType
    <2> QED BY <2>2, <2>3
  <1> QED BY <1>1, <1>2, <1>3

LEMMA TypeStep == TypeOK /\ [Next]_vars => TypeOK'
  <1> SUFFICES ASSUME TypeOK, [Next]_vars PROVE TypeOK'
    OBVIOUS
  <1> USE Threshold DEF breaker, calls, service, PcValues, Replies, Goto, Local
  <1>1. ASSUME NEW th \in Threads, NEW r \in Rooms, JoinVoice(th, r) PROVE TypeOK'
    BY <1>1 DEF JoinVoice, TypeOK
  <1>2. ASSUME NEW th \in Threads,
               CheckRoom(th) \/ CheckRequest(th) \/ CreateRoom(th) \/ PostLost(th)
        PROVE  TypeOK'
    BY <1>2 DEF CheckRoom, CheckRequest, CreateRoom, PostLost, TypeOK
  <1>3. ASSUME NEW th \in Threads, CheckRecord(th) \/ PostRecord(th) PROVE TypeOK'
    BY <1>3, RecordType DEF CheckRecord, PostRecord, TypeOK, CountType, CoolingType
  <1>4. ASSUME NEW th \in Threads, CreateRoomToken(th) \/ GetRoomToken(th) PROVE TypeOK'
    BY <1>4 DEF CreateRoomToken, GetRoomToken, TypeOK
  <1>5. ASSUME NEW th \in Threads, NEW t \in Tokens, DrawToken(th, t) PROVE TypeOK'
    BY <1>5 DEF DrawToken, TypeOK
  <1>6. ASSUME NEW th \in Threads, PostServed(th) PROVE TypeOK'
    BY <1>6 DEF PostServed, PostReply, TypeOK
  <1>7. CASE ServiceStops \/ ServiceStarts
    <2>1. up' \in BOOLEAN
      BY <1>7 DEF ServiceStops, ServiceStarts
    <2>2. restarts' \in Nat
      BY <1>7 DEF ServiceStops, ServiceStarts, TypeOK
    <2>3. serviceRoom' \in [Rooms -> Tokens \cup {NoToken}]
      BY <1>7 DEF ServiceStops, ServiceStarts, TypeOK
    <2> QED BY <1>7, <2>1, <2>2, <2>3, Zenon DEF ServiceStops, ServiceStarts, TypeOK
  <1>8. CASE BreakerCooldownElapses
    BY <1>8 DEF BreakerCooldownElapses, CoolingType, TypeOK
  <1>9. CASE BackendRestarts
    <2>1. CountType'
      BY <1>9 DEF BackendRestarts, CountType
    <2>2. CoolingType'
      BY <1>9 DEF BackendRestarts, CoolingType
    <2> QED BY <1>9, <2>1, <2>2 DEF BackendRestarts, TypeOK, CountType, CoolingType
  <1>10. CASE UNCHANGED vars
    BY <1>10 DEF vars, TypeOK
  <1> QED
    BY <1>1, <1>2, <1>3, <1>4, <1>5, <1>6, <1>7, <1>8, <1>9, <1>10 DEF Next, HandlerStep

\* The backend, its calls and the voice service always have their types; in particular
\* the clamped count of failures never passes the threshold.
THEOREM TypeCorrect == Spec => []TypeOK
  BY TypeInit, TypeStep, PTL DEF Spec

(***************************************************************************)
(* What a call that has its room to itself can rely on, between the locked *)
(* sections and the requests it is made of.                                *)
(***************************************************************************)
\* Two calls for one room both know of the other.
SharedIsKnown ==
    \A t1, t2 \in Threads :
        t1 # t2 /\ pc[t1] # "idle" /\ pc[t2] # "idle" /\ arg[t1] = arg[t2] => ~alone[t1]

\* Before the request that creates the room no reply speaks of its token.
ChecksAreChecks ==
    \A th \in Threads : pc[th] \in {"check", "checked"} => reply[th] \notin {"created", "same"}

\* The cache is empty for whoever is about to draw, and holds the token that is sent.
AloneHolds ==
    \A th \in Threads :
        alone[th] =>
            /\ pc[th] = "draw" => RoomNameToToken[arg[th]] = NoToken
            /\ pc[th] \in {"post", "posted"} \/ Provisioned(th) =>
                   RoomNameToToken[arg[th]] = token[th]

\* A room that was answered for is the service's with that token, or was lost.
AloneServed ==
    \A th \in Threads :
        alone[th] /\ pc[th] \in {"posted", "answer"} /\ reply[th] \in {"created", "same"} =>
            serviceRoom[arg[th]] \in {NoToken, token[th]}

CallsInv == SharedIsKnown /\ ChecksAreChecks /\ AloneHolds /\ AloneServed

IInv == TypeOK /\ CallsInv

LEMMA InvInit == Init => IInv
  BY TypeInit DEF Init, CallsInv, SharedIsKnown, ChecksAreChecks, AloneHolds, AloneServed,
     Provisioned, IInv

LEMMA InvStep == IInv /\ [Next]_vars => IInv'
  <1> SUFFICES ASSUME IInv, [Next]_vars PROVE IInv'
    OBVIOUS
  <1>0. TypeOK /\ TypeOK'
    BY TypeStep DEF IInv
  <1> SUFFICES CallsInv'
    BY <1>0 DEF IInv
  <1> USE RoomsAssumption, <1>0
      DEF IInv, CallsInv, SharedIsKnown, ChecksAreChecks, AloneHolds, AloneServed, Provisioned,
          TypeOK, breaker, calls, service, PcValues, Replies, Goto, Local
  <1>1. ASSUME NEW th \in Threads, NEW r \in Rooms, JoinVoice(th, r) PROVE CallsInv'
    BY <1>1 DEF JoinVoice
  <1>2. ASSUME NEW th \in Threads,
               CheckRoom(th) \/ CheckRequest(th) \/ CheckRecord(th) \/ CreateRoom(th)
        PROVE  CallsInv'
    BY <1>2 DEF CheckRoom, CheckRequest, CheckRecord, CreateRoom
  <1>3. ASSUME NEW th \in Threads, CreateRoomToken(th) PROVE CallsInv'
    BY <1>3 DEF CreateRoomToken
  <1>4. ASSUME NEW th \in Threads, NEW t \in Tokens, DrawToken(th, t) PROVE CallsInv'
    BY <1>4 DEF DrawToken
  <1>5. ASSUME NEW th \in Threads, PostServed(th) PROVE CallsInv'
    BY <1>5 DEF PostServed, PostReply
  <1>6. ASSUME NEW th \in Threads, PostLost(th) \/ PostRecord(th) \/ GetRoomToken(th)
        PROVE  CallsInv'
    BY <1>6 DEF PostLost, PostRecord, GetRoomToken
  <1>7. CASE BreakerCooldownElapses \/ ServiceStops \/ ServiceStarts \/ BackendRestarts
    BY <1>7 DEF BreakerCooldownElapses, ServiceStops, ServiceStarts, BackendRestarts
  <1>8. CASE UNCHANGED vars
    BY <1>8 DEF vars
  <1> QED
    BY <1>1, <1>2, <1>3, <1>4, <1>5, <1>6, <1>7, <1>8 DEF Next, HandlerStep

LEMMA Invariance == Spec => []IInv
  BY InvInit, InvStep, PTL DEF Spec

\* A call that provisions a room nobody else asks for meanwhile answers with the token
\* the voice service admits, across lost replies, an open breaker and restarts.
THEOREM LoneCallAdmits == Spec => []ProvisionedAloneAdmits
  <1>1. IInv => ProvisionedAloneAdmits
    BY DEF IInv, CallsInv, AloneHolds, AloneServed, ProvisionedAloneAdmits, Provisioned
  <1> QED BY <1>1, Invariance, PTL

LEMMA KeptStep ==
  ASSUME IInv, [Next]_vars, NEW r \in Rooms,
         RoomNameToToken[r] # NoToken, RoomNameToToken'[r] # RoomNameToToken[r]
  PROVE  \/ \E th \in Threads : pc[th] = "draw" /\ arg[th] = r /\ ~alone[th]
         \/ restarts' # restarts
  <1>1. ASSUME NEW th \in Threads, NEW t \in Tokens, DrawToken(th, t)
        PROVE  pc[th] = "draw" /\ arg[th] = r /\ ~alone[th]
    BY <1>1 DEF DrawToken, IInv, TypeOK, CallsInv, AloneHolds
  <1>2. CASE BackendRestarts
    BY <1>2 DEF BackendRestarts, IInv, TypeOK
  <1> QED
    BY <1>1, <1>2
       DEF Next, HandlerStep, JoinVoice, CheckRoom, CheckRequest, CheckRecord, CreateRoom,
           CreateRoomToken, PostServed, PostLost, PostRecord, GetRoomToken, Local,
           BreakerCooldownElapses, ServiceStops, ServiceStarts, vars

\* The token of a room, once cached, is replaced only by a call that overlapped another
\* one for the room, or lost when the backend restarts.
THEOREM CachedTokenKept == Spec => TokenKept
  <1>1. IInv /\ [Next]_vars =>
          [\A r \in Rooms :
              RoomNameToToken[r] # NoToken /\ RoomNameToToken'[r] # RoomNameToToken[r] =>
                  \/ \E th \in Threads : pc[th] = "draw" /\ arg[th] = r /\ ~alone[th]
                  \/ restarts' # restarts]_vars
    BY KeptStep
  <1> QED BY <1>1, Invariance, PTL DEF Spec, TokenKept

(***************************************************************************)
(* The places of the calls about the membership: what a thread has still   *)
(* to do.  C creates the server, J joins by an invite, L leaves, K kicks,  *)
(* P sets permissions, I lists servers, V enters and W leaves the voice    *)
(* channel, D disconnects.                                                 *)
(***************************************************************************)

C1 == <<"insertServer", "uploadOwner", "get", "get", "putServer", "invalidate", "createServer">>
C2 == <<"uploadOwner", "get", "get", "putServer", "invalidate", "createServer">>
C3 == <<"get", "get", "putServer", "invalidate", "createServer">>
C4 == <<"get", "putServer", "invalidate", "createServer">>
C5 == <<"putServer", "invalidate", "createServer">>
C6 == <<"invalidate", "createServer">>
C7 == <<"createServer">>

J1 == <<"consume", "get", "notMember", "upload", "addMember", "invalidate", "joinInvite">>
J2 == <<"get", "notMember", "upload", "addMember", "invalidate", "joinInvite">>
J3 == <<"notMember", "upload", "addMember", "invalidate", "joinInvite">>
J4 == <<"upload", "addMember", "invalidate", "joinInvite">>
J5 == <<"addMember", "invalidate", "joinInvite">>
J6 == <<"invalidate", "joinInvite">>
J7 == <<"joinInvite">>

L1 == <<"get", "delete", "removeMember", "invalidate", "leave">>
L2 == <<"delete", "removeMember", "invalidate", "leave">>
L3 == <<"removeMember", "invalidate", "leave">>
L4 == <<"invalidate", "leave">>
L5 == <<"leave">>

K1 == <<"get", "isMember", "get", "delete", "removeMember", "invalidate", "get", "eraseVoice", "kick">>
K2 == <<"isMember", "get", "delete", "removeMember", "invalidate", "get", "eraseVoice", "kick">>
K3 == <<"get", "delete", "removeMember", "invalidate", "get", "eraseVoice", "kick">>
K4 == <<"delete", "removeMember", "invalidate", "get", "eraseVoice", "kick">>
K5 == <<"removeMember", "invalidate", "get", "eraseVoice", "kick">>
K6 == <<"invalidate", "get", "eraseVoice", "kick">>
K7 == <<"get", "eraseVoice", "kick">>
K8 == <<"eraseVoice", "kick">>
K9 == <<"kick">>

P1 == <<"get", "isMember", "get", "isMember", "update", "setPermissions", "permissions">>
P2 == <<"isMember", "get", "isMember", "update", "setPermissions", "permissions">>
P3 == <<"get", "isMember", "update", "setPermissions", "permissions">>
P4 == <<"isMember", "update", "setPermissions", "permissions">>
P5 == <<"update", "setPermissions", "permissions">>
P6 == <<"setPermissions", "permissions">>
P7 == <<"permissions">>

I1 == <<"readCache", "select", "store", "eachServer", "serverIds">>
I2 == <<"select", "store", "eachServer", "serverIds">>
I3 == <<"store", "eachServer", "serverIds">>
I4 == <<"eachServer", "serverIds">>
I5 == <<"get", "serverIds">>
I6 == <<"serverIds">>

V1 == <<"get", "isMember", "get", "pushVoice", "joinVoice">>
V2 == <<"isMember", "get", "pushVoice", "joinVoice">>
V3 == <<"get", "pushVoice", "joinVoice">>
V4 == <<"pushVoice", "joinVoice">>
V5 == <<"joinVoice">>

W1 == <<"get", "eraseVoice", "leaveVoice">>
W2 == <<"eraseVoice", "leaveVoice">>
W3 == <<"leaveVoice">>

D1 == <<"readCache", "select", "store", "eachServer", "readCache", "select", "store", "mine", "get",
    "inVoice", "get", "eraseVoice", "disconnect">>
D2 == <<"select", "store", "eachServer", "readCache", "select", "store", "mine", "get", "inVoice", "get",
    "eraseVoice", "disconnect">>
D3 == <<"store", "eachServer", "readCache", "select", "store", "mine", "get", "inVoice", "get",
    "eraseVoice", "disconnect">>
D4 == <<"eachServer", "readCache", "select", "store", "mine", "get", "inVoice", "get", "eraseVoice",
    "disconnect">>
D5 == <<"get", "get", "readCache", "select", "store", "mine", "get", "inVoice", "get", "eraseVoice",
    "disconnect">>
D6 == <<"get", "readCache", "select", "store", "mine", "get", "inVoice", "get", "eraseVoice", "disconnect">>
D7 == <<"readCache", "select", "store", "mine", "get", "inVoice", "get", "eraseVoice", "disconnect">>
D8 == <<"select", "store", "mine", "get", "inVoice", "get", "eraseVoice", "disconnect">>
D9 == <<"store", "mine", "get", "inVoice", "get", "eraseVoice", "disconnect">>
D10 == <<"mine", "get", "inVoice", "get", "eraseVoice", "disconnect">>
D11 == <<"get", "inVoice", "get", "eraseVoice", "disconnect">>
D12 == <<"inVoice", "get", "eraseVoice", "disconnect">>
D13 == <<"get", "eraseVoice", "disconnect">>
D14 == <<"eraseVoice", "disconnect">>
D15 == <<"disconnect">>

CreatePlaces == {C1, C2, C3, C4, C5, C6, C7}
JoinPlaces == {J1, J2, J3, J4, J5, J6, J7}
LeavePlaces == {L1, L2, L3, L4, L5}
KickPlaces == {K1, K2, K3, K4, K5, K6, K7, K8, K9}
PermissionPlaces == {P1, P2, P3, P4, P5, P6, P7}
IdsPlaces == {I1, I2, I3, I4, I5, I6}
VoicePlaces == {V1, V2, V3, V4, V5}
LeaveVoicePlaces == {W1, W2, W3}
DisconnectPlaces == {D1, D2, D3, D4, D5, D6, D7, D8, D9, D10, D11, D12, D13, D14, D15}
CallPlaces ==
    CreatePlaces \cup JoinPlaces \cup LeavePlaces \cup KickPlaces \cup PermissionPlaces
    \cup IdsPlaces \cup VoicePlaces \cup LeaveVoicePlaces \cup DisconnectPlaces
GetPlaces == {C3, C4, J2, L1, K1, K3, K7, P1, P3, I5, V1, V3, W1, D5, D6, D11, D13}

\* Where a thread is that loads the server before it goes on from p.
ToLoad(p) == <<"load", "insert">> \o p
ToInsert(p) == <<"insert">> \o p

MembershipPlaces ==
    {<<>>} \cup CallPlaces \cup {ToLoad(p) : p \in GetPlaces} \cup {ToInsert(p) : p \in GetPlaces}

\* What a thread does next, and for which call.
Step(p) == IF p = <<>> THEN "idle" ELSE Head(p)
CallOf(p) == IF p = <<>> THEN "none" ELSE p[Len(p)]
Rest(p) == IF p = <<>> THEN <<>> ELSE Tail(p)
At(th) == Step(pc[th])
Doing(th) == CallOf(pc[th])

(***************************************************************************)
(* The invariant of the membership.                                        *)
(***************************************************************************)
\* Steps at which a thread has the object, and those at which it is after it.
ObjectSteps == {"isMember", "notMember", "upload", "addMember", "delete", "removeMember", "update",
                "setPermissions", "pushVoice", "eraseVoice", "inVoice"}
ServerSteps == ObjectSteps \cup {"get", "load", "insert"}

\* Nobody conflicts with a call about a user who is not raced.
Alone ==
    \A a, b \in Threads :
        a # b /\ Busy(a) /\ Busy(b) /\ user[a] = user[b] /\ user[a] \notin raced => ~Conflict(Doing(a), Doing(b))

\* A user whom no call can have led to the server, unless it is the one that creates it.
Unaware(u) ==
    /\ server_members[u] = NoRow
    /\ UserToServerIdsCache[u] # "in"
    /\ \A th \in Threads : Busy(th) /\ user[th] = u /\ Doing(th) # "createServer" =>
           ids[th] = "out" /\ At(th) \notin ServerSteps

Unborn == ~servers \/ \E c \in Threads : At(c) \in {"insertServer", "uploadOwner"}

Creation ==
    /\ \A a, b \in Threads : Doing(a) = "createServer" /\ Doing(b) = "createServer" => a = b
    /\ ~servers \/ Creating => \A th \in Threads : Doing(th) \in {"none", "createServer", "serverIds", "disconnect"}
    /\ Unborn => ServersMap = 0 /\ \A u \in UserIds : Unaware(u)
    /\ \A c \in Threads : Doing(c) = "createServer" => \A u \in UserIds \ {user[c]} : Unaware(u)
    /\ \A c \in Threads : Doing(c) = "createServer" /\ At(c) # "insertServer" => servers

\* Objects that are not loaded yet are empty; without one nobody holds any.
ObjectsFresh == \A o \in Objects : o > objects => Members[o] = NoMembers /\ ConnectedUsers[o] = {}
Unloaded == ServersMap = 0 => (\A o \in Objects : ConnectedUsers[o] = {}) /\ (\A th \in Threads : At(th) \notin ObjectSteps)

\* The value a thread that has written the row is about to write to the object.
Pending(th) == At(th) \in {"addMember", "removeMember", "setPermissions"}
PendingRow(th) ==
    CASE At(th) = "addMember" -> 0
      [] At(th) = "removeMember" -> NoRow
      [] OTHER -> IF HasMember(th) THEN perm[th] ELSE NoRow

Actual(u) == IF server_members[u] = NoRow THEN "out" ELSE "in"

Inserting(th) ==
    At(th) = "insert" =>
        /\ obj[th] # 0
        /\ ServersMap = 0 => \A u \in UserIds \ raced : Members[obj[th]][u] = server_members[u]

ThreadInv(th) ==
    /\ Inserting(th)
    /\ Doing(th) = "disconnect" => user[th] \notin online
    /\ user[th] \notin raced =>
        /\ At(th) \in ObjectSteps => obj[th] = ServersMap
        /\ Pending(th) => server_members[user[th]] = PendingRow(th)
        /\ Doing(th) = "createServer" /\ At(th) \in {"get", "load", "insert", "putServer"} =>
               server_members[user[th]] = AllPermissions
        /\ At(th) \in {"store", "eachServer", "mine"} => ids[th] = Actual(user[th])
        /\ Doing(th) = "disconnect" /\ At(th) \in {"load", "insert"} /\ ServersMap # 0 =>
               user[th] \notin ConnectedUsers[ServersMap]
        /\ user[th] \notin online => Doing(th) \notin {"createServer", "joinInvite", "joinVoice"}

\* Row written, cached list not invalidated yet.
Between(th) ==
    \/ At(th) \in {"addMember", "removeMember", "putServer", "invalidate"}
    \/ Doing(th) = "createServer" /\ At(th) \in {"get", "load", "insert"}

UserInv(u) ==
    /\ ServersMap # 0 =>
           Members[ServersMap][u] = server_members[u] \/ \E th \in Threads : user[th] = u /\ Pending(th)
    /\ CacheFresh(u) \/ \E th \in Threads : user[th] = u /\ Between(th)
    /\ u \notin online /\ server_members[u] # NoRow /\ ServersMap # 0 =>
           \/ u \notin ConnectedUsers[ServersMap]
           \/ \E th \in Threads : user[th] = u /\ Doing(th) = "disconnect" /\ At(th) # "disconnect"

MembershipInv ==
    /\ MembershipTypeOK
    /\ pc \in [Threads -> MembershipPlaces]
    /\ Alone /\ Creation /\ ObjectsFresh /\ Unloaded
    /\ \A th \in Threads : ThreadInv(th)
    /\ \A u \in UserIds \ raced : UserInv(u)

LEMMA CreatePlacesAre ==
  /\ C1 # <<>> /\ Step(C1) = "insertServer" /\ CallOf(C1) = "createServer" /\ Rest(C1) = C2
  /\ C2 # <<>> /\ Step(C2) = "uploadOwner" /\ CallOf(C2) = "createServer" /\ Rest(C2) = C3
  /\ C3 # <<>> /\ Step(C3) = "get" /\ CallOf(C3) = "createServer" /\ Rest(C3) = C4
  /\ C4 # <<>> /\ Step(C4) = "get" /\ CallOf(C4) = "createServer" /\ Rest(C4) = C5
  /\ C5 # <<>> /\ Step(C5) = "putServer" /\ CallOf(C5) = "createServer" /\ Rest(C5) = C6
  /\ C6 # <<>> /\ Step(C6) = "invalidate" /\ CallOf(C6) = "createServer" /\ Rest(C6) = C7
  /\ C7 # <<>> /\ Step(C7) = "createServer" /\ CallOf(C7) = "createServer" /\ Rest(C7) = <<>>
BY DEF Step, CallOf, Rest, C1, C2, C3, C4, C5, C6, C7

LEMMA JoinPlacesAre ==
  /\ J1 # <<>> /\ Step(J1) = "consume" /\ CallOf(J1) = "joinInvite" /\ Rest(J1) = J2
  /\ J2 # <<>> /\ Step(J2) = "get" /\ CallOf(J2) = "joinInvite" /\ Rest(J2) = J3
  /\ J3 # <<>> /\ Step(J3) = "notMember" /\ CallOf(J3) = "joinInvite" /\ Rest(J3) = J4
  /\ J4 # <<>> /\ Step(J4) = "upload" /\ CallOf(J4) = "joinInvite" /\ Rest(J4) = J5
  /\ J5 # <<>> /\ Step(J5) = "addMember" /\ CallOf(J5) = "joinInvite" /\ Rest(J5) = J6
  /\ J6 # <<>> /\ Step(J6) = "invalidate" /\ CallOf(J6) = "joinInvite" /\ Rest(J6) = J7
  /\ J7 # <<>> /\ Step(J7) = "joinInvite" /\ CallOf(J7) = "joinInvite" /\ Rest(J7) = <<>>
BY DEF Step, CallOf, Rest, J1, J2, J3, J4, J5, J6, J7

LEMMA LeavePlacesAre ==
  /\ L1 # <<>> /\ Step(L1) = "get" /\ CallOf(L1) = "leave" /\ Rest(L1) = L2
  /\ L2 # <<>> /\ Step(L2) = "delete" /\ CallOf(L2) = "leave" /\ Rest(L2) = L3
  /\ L3 # <<>> /\ Step(L3) = "removeMember" /\ CallOf(L3) = "leave" /\ Rest(L3) = L4
  /\ L4 # <<>> /\ Step(L4) = "invalidate" /\ CallOf(L4) = "leave" /\ Rest(L4) = L5
  /\ L5 # <<>> /\ Step(L5) = "leave" /\ CallOf(L5) = "leave" /\ Rest(L5) = <<>>
BY DEF Step, CallOf, Rest, L1, L2, L3, L4, L5

LEMMA KickPlacesAre ==
  /\ K1 # <<>> /\ Step(K1) = "get" /\ CallOf(K1) = "kick" /\ Rest(K1) = K2
  /\ K2 # <<>> /\ Step(K2) = "isMember" /\ CallOf(K2) = "kick" /\ Rest(K2) = K3
  /\ K3 # <<>> /\ Step(K3) = "get" /\ CallOf(K3) = "kick" /\ Rest(K3) = K4
  /\ K4 # <<>> /\ Step(K4) = "delete" /\ CallOf(K4) = "kick" /\ Rest(K4) = K5
  /\ K5 # <<>> /\ Step(K5) = "removeMember" /\ CallOf(K5) = "kick" /\ Rest(K5) = K6
  /\ K6 # <<>> /\ Step(K6) = "invalidate" /\ CallOf(K6) = "kick" /\ Rest(K6) = K7
  /\ K7 # <<>> /\ Step(K7) = "get" /\ CallOf(K7) = "kick" /\ Rest(K7) = K8
  /\ K8 # <<>> /\ Step(K8) = "eraseVoice" /\ CallOf(K8) = "kick" /\ Rest(K8) = K9
  /\ K9 # <<>> /\ Step(K9) = "kick" /\ CallOf(K9) = "kick" /\ Rest(K9) = <<>>
BY DEF Step, CallOf, Rest, K1, K2, K3, K4, K5, K6, K7, K8, K9

LEMMA PermissionPlacesAre ==
  /\ P1 # <<>> /\ Step(P1) = "get" /\ CallOf(P1) = "permissions" /\ Rest(P1) = P2
  /\ P2 # <<>> /\ Step(P2) = "isMember" /\ CallOf(P2) = "permissions" /\ Rest(P2) = P3
  /\ P3 # <<>> /\ Step(P3) = "get" /\ CallOf(P3) = "permissions" /\ Rest(P3) = P4
  /\ P4 # <<>> /\ Step(P4) = "isMember" /\ CallOf(P4) = "permissions" /\ Rest(P4) = P5
  /\ P5 # <<>> /\ Step(P5) = "update" /\ CallOf(P5) = "permissions" /\ Rest(P5) = P6
  /\ P6 # <<>> /\ Step(P6) = "setPermissions" /\ CallOf(P6) = "permissions" /\ Rest(P6) = P7
  /\ P7 # <<>> /\ Step(P7) = "permissions" /\ CallOf(P7) = "permissions" /\ Rest(P7) = <<>>
BY DEF Step, CallOf, Rest, P1, P2, P3, P4, P5, P6, P7

LEMMA IdsPlacesAre ==
  /\ I1 # <<>> /\ Step(I1) = "readCache" /\ CallOf(I1) = "serverIds" /\ Rest(I1) = I2
  /\ I2 # <<>> /\ Step(I2) = "select" /\ CallOf(I2) = "serverIds" /\ Rest(I2) = I3
  /\ I3 # <<>> /\ Step(I3) = "store" /\ CallOf(I3) = "serverIds" /\ Rest(I3) = I4
  /\ I4 # <<>> /\ Step(I4) = "eachServer" /\ CallOf(I4) = "serverIds" /\ Rest(I4) = I6
  /\ I5 # <<>> /\ Step(I5) = "get" /\ CallOf(I5) = "serverIds" /\ Rest(I5) = I6
  /\ I6 # <<>> /\ Step(I6) = "serverIds" /\ CallOf(I6) = "serverIds" /\ Rest(I6) = <<>>
BY DEF Step, CallOf, Rest, I1, I2, I3, I4, I5, I6

LEMMA VoicePlacesAre ==
  /\ V1 # <<>> /\ Step(V1) = "get" /\ CallOf(V1) = "joinVoice" /\ Rest(V1) = V2
  /\ V2 # <<>> /\ Step(V2) = "isMember" /\ CallOf(V2) = "joinVoice" /\ Rest(V2) = V3
  /\ V3 # <<>> /\ Step(V3) = "get" /\ CallOf(V3) = "joinVoice" /\ Rest(V3) = V4
  /\ V4 # <<>> /\ Step(V4) = "pushVoice" /\ CallOf(V4) = "joinVoice" /\ Rest(V4) = V5
  /\ V5 # <<>> /\ Step(V5) = "joinVoice" /\ CallOf(V5) = "joinVoice" /\ Rest(V5) = <<>>
BY DEF Step, CallOf, Rest, V1, V2, V3, V4, V5

LEMMA LeaveVoicePlacesAre ==
  /\ W1 # <<>> /\ Step(W1) = "get" /\ CallOf(W1) = "leaveVoice" /\ Rest(W1) = W2
  /\ W2 # <<>> /\ Step(W2) = "eraseVoice" /\ CallOf(W2) = "leaveVoice" /\ Rest(W2) = W3
  /\ W3 # <<>> /\ Step(W3) = "leaveVoice" /\ CallOf(W3) = "leaveVoice" /\ Rest(W3) = <<>>
BY DEF Step, CallOf, Rest, W1, W2, W3

LEMMA DisconnectPlacesAre ==
  /\ D1 # <<>> /\ Step(D1) = "readCache" /\ CallOf(D1) = "disconnect" /\ Rest(D1) = D2
  /\ D2 # <<>> /\ Step(D2) = "select" /\ CallOf(D2) = "disconnect" /\ Rest(D2) = D3
  /\ D3 # <<>> /\ Step(D3) = "store" /\ CallOf(D3) = "disconnect" /\ Rest(D3) = D4
  /\ D4 # <<>> /\ Step(D4) = "eachServer" /\ CallOf(D4) = "disconnect" /\ Rest(D4) = D7
  /\ D5 # <<>> /\ Step(D5) = "get" /\ CallOf(D5) = "disconnect" /\ Rest(D5) = D6
  /\ D6 # <<>> /\ Step(D6) = "get" /\ CallOf(D6) = "disconnect" /\ Rest(D6) = D7
  /\ D7 # <<>> /\ Step(D7) = "readCache" /\ CallOf(D7) = "disconnect" /\ Rest(D7) = D8
  /\ D8 # <<>> /\ Step(D8) = "select" /\ CallOf(D8) = "disconnect" /\ Rest(D8) = D9
  /\ D9 # <<>> /\ Step(D9) = "store" /\ CallOf(D9) = "disconnect" /\ Rest(D9) = D10
  /\ D10 # <<>> /\ Step(D10) = "mine" /\ CallOf(D10) = "disconnect" /\ Rest(D10) = D11
  /\ D11 # <<>> /\ Step(D11) = "get" /\ CallOf(D11) = "disconnect" /\ Rest(D11) = D12
  /\ D12 # <<>> /\ Step(D12) = "inVoice" /\ CallOf(D12) = "disconnect" /\ Rest(D12) = D13
  /\ D13 # <<>> /\ Step(D13) = "get" /\ CallOf(D13) = "disconnect" /\ Rest(D13) = D14
  /\ D14 # <<>> /\ Step(D14) = "eraseVoice" /\ CallOf(D14) = "disconnect" /\ Rest(D14) = D15
  /\ D15 # <<>> /\ Step(D15) = "disconnect" /\ CallOf(D15) = "disconnect" /\ Rest(D15) = <<>>
BY DEF Step, CallOf, Rest, D1, D2, D3, D4, D5, D6, D7, D8, D9, D10, D11, D12, D13, D14, D15

LEMMA CallPlacesTyped == CallPlaces \subseteq Seq(StepNames)
<1>1. CreatePlaces \subseteq Seq(StepNames)
  BY DEF C1, StepNames, Ops, C2, C3, C4, C5, C6, C7, CreatePlaces
<1>2. JoinPlaces \subseteq Seq(StepNames)
  BY DEF J1, StepNames, Ops, J2, J3, J4, J5, J6, J7, JoinPlaces
<1>3. LeavePlaces \subseteq Seq(StepNames)
  BY DEF L1, StepNames, Ops, L2, L3, L4, L5, LeavePlaces
<1>4. KickPlaces \subseteq Seq(StepNames)
  <2>1. K1 \in Seq(StepNames)
    BY DEF K1, StepNames, Ops
  <2>2. K2 \in Seq(StepNames)
    BY DEF K2, StepNames, Ops
  <2>3. K3 \in Seq(StepNames)
    BY DEF K3, StepNames, Ops
  <2>4. K4 \in Seq(StepNames)
    BY DEF K4, StepNames, Ops
  <2>5. K5 \in Seq(StepNames)
    BY DEF K5, StepNames, Ops
  <2>6. K6 \in Seq(StepNames)
    BY DEF K6, StepNames, Ops
  <2>7. K7 \in Seq(StepNames)
    BY DEF K7, StepNames, Ops
  <2>8. K8 \in Seq(StepNames)
    BY DEF K8, StepNames, Ops
  <2>9. K9 \in Seq(StepNames)
    BY DEF K9, StepNames, Ops
  <2> QED BY <2>1, <2>2, <2>3, <2>4, <2>5, <2>6, <2>7, <2>8, <2>9 DEF KickPlaces
<1>5. PermissionPlaces \subseteq Seq(StepNames)
  BY DEF P1, StepNames, Ops, P2, P3, P4, P5, P6, P7, PermissionPlaces
<1>6. IdsPlaces \subseteq Seq(StepNames)
  BY DEF I1, StepNames, Ops, I2, I3, I4, I5, I6, IdsPlaces
<1>7. VoicePlaces \subseteq Seq(StepNames)
  BY DEF V1, StepNames, Ops, V2, V3, V4, V5, VoicePlaces
<1>8. LeaveVoicePlaces \subseteq Seq(StepNames)
  BY DEF W1, StepNames, Ops, W2, W3, LeaveVoicePlaces
<1>9. DisconnectPlaces \subseteq Seq(StepNames)
  <2>1. D1 \in Seq(StepNames)
    BY DEF D1, StepNames, Ops
  <2>2. D2 \in Seq(StepNames)
    BY DEF D2, StepNames, Ops
  <2>3. D3 \in Seq(StepNames)
    BY DEF D3, StepNames, Ops
  <2>4. D4 \in Seq(StepNames)
    BY DEF D4, StepNames, Ops
  <2>5. D5 \in Seq(StepNames)
    BY DEF D5, StepNames, Ops
  <2>6. D6 \in Seq(StepNames)
    BY DEF D6, StepNames, Ops
  <2>7. D7 \in Seq(StepNames)
    BY DEF D7, StepNames, Ops
  <2>8. D8 \in Seq(StepNames)
    BY DEF D8, StepNames, Ops
  <2>9. D9 \in Seq(StepNames)
    BY DEF D9, StepNames, Ops
  <2>10. D10 \in Seq(StepNames)
    BY DEF D10, StepNames, Ops
  <2>11. D11 \in Seq(StepNames)
    BY DEF D11, StepNames, Ops
  <2>12. D12 \in Seq(StepNames)
    BY DEF D12, StepNames, Ops
  <2>13. D13 \in Seq(StepNames)
    BY DEF D13, StepNames, Ops
  <2>14. D14 \in Seq(StepNames)
    BY DEF D14, StepNames, Ops
  <2>15. D15 \in Seq(StepNames)
    BY DEF D15, StepNames, Ops
  <2> QED BY <2>1, <2>2, <2>3, <2>4, <2>5, <2>6, <2>7, <2>8, <2>9, <2>10, <2>11, <2>12, <2>13, <2>14, <2>15 DEF DisconnectPlaces
<1> QED BY <1>1, <1>2, <1>3, <1>4, <1>5, <1>6, <1>7, <1>8, <1>9 DEF CallPlaces

\* Which calls make a step.
LEMMA WhatFor ==
  ASSUME NEW p \in CallPlaces
  PROVE  /\ Step(p) = "insertServer" => CallOf(p) = "createServer"
         /\ Step(p) = "uploadOwner" => CallOf(p) = "createServer"
         /\ Step(p) = "get" => CallOf(p) \in {"createServer", "joinInvite", "leave", "kick", "permissions", "serverIds", "joinVoice", "leaveVoice", "disconnect"}
         /\ Step(p) = "putServer" => CallOf(p) = "createServer"
         /\ Step(p) = "invalidate" => CallOf(p) \in {"createServer", "joinInvite", "leave", "kick"}
         /\ Step(p) = "consume" => CallOf(p) = "joinInvite"
         /\ Step(p) = "notMember" => CallOf(p) = "joinInvite"
         /\ Step(p) = "upload" => CallOf(p) = "joinInvite"
         /\ Step(p) = "addMember" => CallOf(p) = "joinInvite"
         /\ Step(p) = "delete" => CallOf(p) \in {"leave", "kick"}
         /\ Step(p) = "removeMember" => CallOf(p) \in {"leave", "kick"}
         /\ Step(p) = "isMember" => CallOf(p) \in {"kick", "permissions", "joinVoice"}
         /\ Step(p) = "eraseVoice" => CallOf(p) \in {"kick", "leaveVoice", "disconnect"}
         /\ Step(p) = "update" => CallOf(p) = "permissions"
         /\ Step(p) = "setPermissions" => CallOf(p) = "permissions"
         /\ Step(p) = "readCache" => CallOf(p) \in {"serverIds", "disconnect"}
         /\ Step(p) = "select" => CallOf(p) \in {"serverIds", "disconnect"}
         /\ Step(p) = "store" => CallOf(p) \in {"serverIds", "disconnect"}
         /\ Step(p) = "eachServer" => CallOf(p) \in {"serverIds", "disconnect"}
         /\ Step(p) = "pushVoice" => CallOf(p) = "joinVoice"
         /\ Step(p) = "mine" => CallOf(p) = "disconnect"
         /\ Step(p) = "inVoice" => CallOf(p) = "disconnect"
         /\ Step(p) \in Ops => Step(p) = CallOf(p) /\ Rest(p) = <<>>
         /\ Step(p) \notin Ops => Rest(p) # <<>>
         /\ p # <<>> /\ CallOf(p) \in Ops /\ Step(p) \notin {"idle", "load", "insert"}
<1>1. CASE p \in CreatePlaces
  BY <1>1, CreatePlacesAre DEF CreatePlaces, Ops
<1>2. CASE p \in JoinPlaces
  BY <1>2, JoinPlacesAre DEF JoinPlaces, Ops
<1>3. CASE p \in LeavePlaces
  BY <1>3, LeavePlacesAre DEF LeavePlaces, Ops
<1>4. CASE p \in KickPlaces
  BY <1>4, KickPlacesAre DEF KickPlaces, Ops
<1>5. CASE p \in PermissionPlaces
  BY <1>5, PermissionPlacesAre DEF PermissionPlaces, Ops
<1>6. CASE p \in IdsPlaces
  BY <1>6, IdsPlacesAre DEF IdsPlaces, Ops
<1>7. CASE p \in VoicePlaces
  BY <1>7, VoicePlacesAre DEF VoicePlaces, Ops
<1>8. CASE p \in LeaveVoicePlaces
  BY <1>8, LeaveVoicePlacesAre DEF LeaveVoicePlaces, Ops
<1>9. CASE p \in DisconnectPlaces
  BY <1>9, DisconnectPlacesAre DEF DisconnectPlaces, Ops
<1> QED BY <1>1, <1>2, <1>3, <1>4, <1>5, <1>6, <1>7, <1>8, <1>9 DEF CallPlaces

\* What comes after a step of a call.
LEMMA WhatNext ==
  ASSUME NEW p \in CallPlaces
  PROVE  /\ Step(p) = "insertServer" => Step(Rest(p)) = "uploadOwner"
         /\ Step(p) = "uploadOwner" => Step(Rest(p)) = "get"
         /\ Step(p) = "get" /\ CallOf(p) = "createServer" => Step(Rest(p)) \in {"get", "putServer"}
         /\ Step(p) = "get" /\ CallOf(p) = "joinInvite" => Step(Rest(p)) = "notMember"
         /\ Step(p) = "get" /\ CallOf(p) = "leave" => Step(Rest(p)) = "delete"
         /\ Step(p) = "get" /\ CallOf(p) = "kick" => Step(Rest(p)) \in {"isMember", "delete", "eraseVoice"}
         /\ Step(p) = "get" /\ CallOf(p) = "permissions" => Step(Rest(p)) = "isMember"
         /\ Step(p) = "get" /\ CallOf(p) = "serverIds" => Step(Rest(p)) = "serverIds"
         /\ Step(p) = "get" /\ CallOf(p) = "joinVoice" => Step(Rest(p)) \in {"isMember", "pushVoice"}
         /\ Step(p) = "get" /\ CallOf(p) = "leaveVoice" => Step(Rest(p)) = "eraseVoice"
         /\ Step(p) = "get" /\ CallOf(p) = "disconnect" => Step(Rest(p)) \in {"get", "readCache", "inVoice", "eraseVoice"}
         /\ Step(p) = "putServer" => Step(Rest(p)) = "invalidate"
         /\ Step(p) = "invalidate" /\ CallOf(p) = "createServer" => Step(Rest(p)) = "createServer"
         /\ Step(p) = "invalidate" /\ CallOf(p) = "joinInvite" => Step(Rest(p)) = "joinInvite"
         /\ Step(p) = "invalidate" /\ CallOf(p) = "leave" => Step(Rest(p)) = "leave"
         /\ Step(p) = "invalidate" /\ CallOf(p) = "kick" => Step(Rest(p)) = "get"
         /\ Step(p) = "consume" => Step(Rest(p)) = "get"
         /\ Step(p) = "notMember" => Step(Rest(p)) = "upload"
         /\ Step(p) = "upload" => Step(Rest(p)) = "addMember"
         /\ Step(p) = "addMember" => Step(Rest(p)) = "invalidate"
         /\ Step(p) = "delete" => Step(Rest(p)) = "removeMember"
         /\ Step(p) = "removeMember" => Step(Rest(p)) = "invalidate"
         /\ Step(p) = "isMember" /\ CallOf(p) = "kick" => Step(Rest(p)) = "get"
         /\ Step(p) = "isMember" /\ CallOf(p) = "permissions" => Step(Rest(p)) \in {"get", "update"}
         /\ Step(p) = "isMember" /\ CallOf(p) = "joinVoice" => Step(Rest(p)) = "get"
         /\ Step(p) = "eraseVoice" /\ CallOf(p) = "kick" => Step(Rest(p)) = "kick"
         /\ Step(p) = "eraseVoice" /\ CallOf(p) = "leaveVoice" => Step(Rest(p)) = "leaveVoice"
         /\ Step(p) = "eraseVoice" /\ CallOf(p) = "disconnect" => Step(Rest(p)) = "disconnect"
         /\ Step(p) = "update" => Step(Rest(p)) = "setPermissions"
         /\ Step(p) = "setPermissions" => Step(Rest(p)) = "permissions"
         /\ Step(p) = "readCache" => Step(Rest(p)) = "select"
         /\ Step(p) = "select" => Step(Rest(p)) = "store"
         /\ Step(p) = "store" /\ CallOf(p) = "serverIds" => Step(Rest(p)) = "eachServer"
         /\ Step(p) = "store" /\ CallOf(p) = "disconnect" => Step(Rest(p)) \in {"eachServer", "mine"}
         /\ Step(p) = "eachServer" /\ CallOf(p) = "serverIds" => Step(Rest(p)) = "serverIds"
         /\ Step(p) = "eachServer" /\ CallOf(p) = "disconnect" => Step(Rest(p)) = "readCache"
         /\ Step(p) = "pushVoice" => Step(Rest(p)) = "joinVoice"
         /\ Step(p) = "mine" => Step(Rest(p)) = "get"
         /\ Step(p) = "inVoice" => Step(Rest(p)) = "get"
  BY CreatePlacesAre, JoinPlacesAre, LeavePlacesAre, KickPlacesAre, PermissionPlacesAre,
     IdsPlacesAre, VoicePlacesAre, LeaveVoicePlacesAre, DisconnectPlacesAre DEF CreatePlaces,
     JoinPlaces, LeavePlaces, KickPlaces, PermissionPlaces, IdsPlaces, VoicePlaces,
     LeaveVoicePlaces, DisconnectPlaces, CallPlaces

LEMMA RestIs ==
  ASSUME NEW p \in CallPlaces
  PROVE  /\ Rest(p) \in CallPlaces \cup {<<>>}
         /\ Rest(p) # <<>> => CallOf(Rest(p)) = CallOf(p)
  BY CreatePlacesAre, JoinPlacesAre, LeavePlacesAre, KickPlacesAre, PermissionPlacesAre,
     IdsPlacesAre, VoicePlacesAre, LeaveVoicePlacesAre, DisconnectPlacesAre DEF CreatePlaces,
     CallPlaces, JoinPlaces, LeavePlaces, KickPlaces, PermissionPlaces, IdsPlaces, VoicePlaces,
     LeaveVoicePlaces, DisconnectPlaces

LEMMA GetPlacesAre ==
  ASSUME NEW p \in GetPlaces
  PROVE  p \in CallPlaces /\ Step(p) = "get"
BY CreatePlacesAre, JoinPlacesAre, LeavePlacesAre, KickPlacesAre, PermissionPlacesAre, IdsPlacesAre, VoicePlacesAre, LeaveVoicePlacesAre, DisconnectPlacesAre
   DEF GetPlaces, CallPlaces, CreatePlaces, JoinPlaces, LeavePlaces, KickPlaces, PermissionPlaces, IdsPlaces, VoicePlaces, LeaveVoicePlaces, DisconnectPlaces

LEMMA GetsAreThese ==
  ASSUME NEW p \in CallPlaces, Step(p) = "get"
  PROVE  p \in GetPlaces
<1>1. CASE p \in CreatePlaces
  BY <1>1, CreatePlacesAre DEF CreatePlaces, GetPlaces
<1>2. CASE p \in JoinPlaces
  BY <1>2, JoinPlacesAre DEF JoinPlaces, GetPlaces
<1>3. CASE p \in LeavePlaces
  BY <1>3, LeavePlacesAre DEF LeavePlaces, GetPlaces
<1>4. CASE p \in KickPlaces
  BY <1>4, KickPlacesAre DEF KickPlaces, GetPlaces
<1>5. CASE p \in PermissionPlaces
  BY <1>5, PermissionPlacesAre DEF PermissionPlaces, GetPlaces
<1>6. CASE p \in IdsPlaces
  BY <1>6, IdsPlacesAre DEF IdsPlaces, GetPlaces
<1>7. CASE p \in VoicePlaces
  BY <1>7, VoicePlacesAre DEF VoicePlaces, GetPlaces
<1>8. CASE p \in LeaveVoicePlaces
  BY <1>8, LeaveVoicePlacesAre DEF LeaveVoicePlaces, GetPlaces
<1>9. CASE p \in DisconnectPlaces
  BY <1>9, DisconnectPlacesAre DEF DisconnectPlaces, GetPlaces
<1> QED BY <1>1, <1>2, <1>3, <1>4, <1>5, <1>6, <1>7, <1>8, <1>9 DEF CallPlaces


(***************************************************************************)
(* Sequences.                                                              *)
(***************************************************************************)
LEMMA Skipped ==
  ASSUME NEW S, NEW p \in Seq(S), p # <<>>
  PROVE  /\ SubSeq(p, 2, Len(p)) = Rest(p)
         /\ Rest(p) # <<>> => SubSeq(p, 3, Len(p)) = Rest(Rest(p))
  BY SubSeqProperties, SeqEqual DEF Rest

LEMMA Concatenated ==
  ASSUME NEW S, NEW s \in Seq(S), NEW t \in Seq(S), NEW r \in Seq(S), Len(r) = Len(s) + Len(t),
         \A i \in 1..Len(s) : r[i] = s[i], \A i \in 1..Len(t) : r[Len(s) + i] = t[i]
  PROVE  s \o t = r
<1>1. /\ s \o t \in Seq(S) /\ Len(s \o t) = Len(s) + Len(t)
      /\ \A i \in 1..Len(s) + Len(t) : (s \o t)[i] = IF i <= Len(s) THEN s[i] ELSE t[i - Len(s)]
  BY ConcatProperties
<1>2. \A i \in 1..Len(r) : (s \o t)[i] = r[i]
  <2> SUFFICES ASSUME NEW i \in 1..Len(r)
               PROVE  (s \o t)[i] = r[i]
    OBVIOUS
  <2>1. CASE i <= Len(s)
    BY <1>1, <2>1
  <2>2. CASE i > Len(s)
    <3>1. PICK j \in 1..Len(t) : i = Len(s) + j
      <4>1. i - Len(s) \in 1..Len(t) /\ i = Len(s) + (i - Len(s))
        BY <2>2
      <4> QED BY <4>1
    <3>2. i - Len(s) = j
      BY <3>1
    <3>3. (s \o t)[i] = t[j]
      BY <1>1, <2>2, <3>2
    <3> QED BY <3>1, <3>3
  <2> QED BY <2>1, <2>2
<1> QED BY <1>1, <1>2, SeqEqual

LEMMA AppendIs ==
  ASSUME NEW S, NEW s \in Seq(S), NEW r \in Seq(S), NEW e \in S, Len(r) = Len(s) + 1, r[Len(r)] = e,
         \A i \in 1..Len(s) : r[i] = s[i]
  PROVE  Append(s, e) = r
  BY SeqEqual

LEMMA TailIs ==
  ASSUME NEW S, NEW q \in Seq(S), q # <<>>, NEW r, r = Tail(q)
  PROVE  r \in Seq(S) /\ Len(r) = Len(q) - 1 /\ Len(q) \in Nat \ {0}
OBVIOUS

LEMMA TailShifts ==
  ASSUME NEW S, NEW q \in Seq(S), q # <<>>, NEW r, r = Tail(q)
  PROVE  \A i \in 1..Len(q) - 1 : r[i] = q[i + 1]
OBVIOUS

LEMMA SkippedThree ==
  ASSUME NEW S, NEW p \in Seq(S), p # <<>>, Rest(p) # <<>>, Rest(Rest(p)) # <<>>
  PROVE  SubSeq(p, 4, Len(p)) = Rest(Rest(Rest(p)))
<1>1. PICK q, r, t : q = Tail(p) /\ r = Tail(q) /\ t = Tail(r)
  OBVIOUS
<1>2. /\ Rest(Rest(Rest(p))) = t
      /\ q \in Seq(S) /\ Len(q) = Len(p) - 1 /\ Len(p) \in Nat \ {0} /\ q # <<>>
      /\ r \in Seq(S) /\ Len(r) = Len(q) - 1 /\ Len(q) \in Nat \ {0} /\ r # <<>>
      /\ t \in Seq(S) /\ Len(t) = Len(r) - 1 /\ Len(r) \in Nat \ {0}
  BY <1>1, TailIs DEF Rest
<1>3. /\ \A i \in 1..Len(p) - 1 : q[i] = p[i + 1]
      /\ \A i \in 1..Len(q) - 1 : r[i] = q[i + 1]
      /\ \A i \in 1..Len(r) - 1 : t[i] = r[i + 1]
  <2>1. \A i \in 1..Len(p) - 1 : q[i] = p[i + 1]
    BY <1>1, TailShifts
  <2>2. \A i \in 1..Len(q) - 1 : r[i] = q[i + 1]
    BY <1>1, <1>2, TailShifts
  <2>3. \A i \in 1..Len(r) - 1 : t[i] = r[i + 1]
    BY <1>1, <1>2, TailShifts
  <2> QED BY <2>1, <2>2, <2>3
<1>4. \A i \in 1..Len(p) - 3 : t[i] = p[i + 3]
  BY <1>2, <1>3
<1>5. \A i \in 1..Len(p) : p[i] \in S
  OBVIOUS
<1>6. /\ SubSeq(p, 4, Len(p)) \in Seq(S)
      /\ Len(SubSeq(p, 4, Len(p))) = IF 4 <= Len(p) THEN Len(p) - 4 + 1 ELSE 0
      /\ \A i \in 1..(Len(p) - 4 + 1) : SubSeq(p, 4, Len(p))[i] = p[4 + i - 1]
  BY <1>2, <1>5, SubSeqProperties
<1>7. Len(SubSeq(p, 4, Len(p))) = Len(t)
  BY <1>2, <1>6
<1>8. \A i \in 1..Len(t) : SubSeq(p, 4, Len(p))[i] = t[i]
  BY <1>2, <1>4, <1>6
<1> QED BY <1>2, <1>6, <1>7, <1>8, SeqEqual

(***************************************************************************)
(* The places of a call that loads the server.                             *)
(***************************************************************************)
LEMMA PutFirst ==
  ASSUME NEW S, NEW s \in S, NEW p \in Seq(S), p # <<>>
  PROVE  /\ <<s>> \o p \in Seq(S) /\ <<s>> \o p # <<>>
         /\ Step(<<s>> \o p) = s /\ CallOf(<<s>> \o p) = CallOf(p) /\ Rest(<<s>> \o p) = p
  BY ConcatProperties, SeqEqual DEF Step, CallOf, Rest

LEMMA LoadsAre ==
  ASSUME NEW p \in GetPlaces
  PROVE  /\ p \in Seq(StepNames) /\ p # <<>>
         /\ ToInsert(p) \in Seq(StepNames) /\ ToInsert(p) # <<>>
         /\ Step(ToInsert(p)) = "insert" /\ CallOf(ToInsert(p)) = CallOf(p) /\ Rest(ToInsert(p)) = p
         /\ ToLoad(p) \in Seq(StepNames) /\ ToLoad(p) # <<>>
         /\ Step(ToLoad(p)) = "load" /\ CallOf(ToLoad(p)) = CallOf(p) /\ Rest(ToLoad(p)) = ToInsert(p)
<1>1. p \in Seq(StepNames) /\ p # <<>>
  BY GetPlacesAre, CallPlacesTyped, WhatFor
<1>2. "insert" \in StepNames /\ "load" \in StepNames
  BY DEF StepNames
<1>3. /\ ToInsert(p) \in Seq(StepNames) /\ ToInsert(p) # <<>>
      /\ Step(ToInsert(p)) = "insert" /\ CallOf(ToInsert(p)) = CallOf(p) /\ Rest(ToInsert(p)) = p
  BY <1>1, <1>2, PutFirst DEF ToInsert
<1>4. PICK q : q = ToInsert(p)
  OBVIOUS
<1>5. <<"load">> \o q = ToLoad(p)
  <2>1. PICK h, l, a : h = <<"load", "insert">> /\ l = <<"load">> /\ a = <<"insert">>
    OBVIOUS
  <2>2. /\ h \in Seq(StepNames) /\ Len(h) = 2 /\ h[1] = "load" /\ h[2] = "insert"
        /\ l \in Seq(StepNames) /\ Len(l) = 1 /\ l[1] = "load"
        /\ a \in Seq(StepNames) /\ Len(a) = 1 /\ a[1] = "insert"
    BY <1>2, <2>1
  <2>3. (l \o a) \o p = l \o (a \o p)
    BY <1>1, <2>2, ConcatAssociative
  <2>4. l \o a = h
    <3>1. /\ Len(h) = Len(l) + Len(a)
          /\ \A i \in 1..Len(l) : h[i] = l[i]
          /\ \A i \in 1..Len(a) : h[Len(l) + i] = a[i]
      BY <2>2
    <3> QED BY <2>2, <3>1, Concatenated, Zenon
  <2> QED BY <1>4, <2>1, <2>3, <2>4 DEF ToLoad, ToInsert
<1>6. /\ <<"load">> \o q \in Seq(StepNames) /\ <<"load">> \o q # <<>>
      /\ Step(<<"load">> \o q) = "load" /\ CallOf(<<"load">> \o q) = CallOf(q) /\ Rest(<<"load">> \o q) = q
  BY <1>2, <1>3, <1>4, PutFirst
<1> QED BY <1>1, <1>3, <1>4, <1>5, <1>6

LEMMA GoesOn ==
  ASSUME NEW p \in MembershipPlaces, p # <<>>
  PROVE  /\ p \in Seq(StepNames) /\ Rest(p) \in MembershipPlaces
         /\ Step(p) # "idle" /\ CallOf(p) # "none" /\ CallOf(p) \in Ops
         /\ Step(p) \in Ops => Step(p) = CallOf(p) /\ Rest(p) = <<>>
         /\ Step(p) \notin Ops => Rest(p) # <<>> /\ CallOf(Rest(p)) = CallOf(p)
         /\ Step(p) \notin {"load", "insert"} => p \in CallPlaces
         /\ Step(p) = "load" => \E g \in GetPlaces : p = ToLoad(g)
         /\ Step(p) = "insert" => \E g \in GetPlaces : p = ToInsert(g)
  BY CallPlacesTyped, RestIs, WhatFor, GetPlacesAre, LoadsAre DEF Ops, MembershipPlaces

(***************************************************************************)
(* Threads move.                                                           *)
(***************************************************************************)
\* Only th moves.
OnlyMoves(th) ==
    /\ pc' \in [Threads -> MembershipPlaces]
    /\ \A t \in Threads \ {th} : At(t)' = At(t) /\ Doing(t)' = Doing(t)

LEMMA Where ==
  ASSUME NEW p \in MembershipPlaces
  PROVE  /\ p # <<>> <=> Step(p) # "idle"
         /\ p # <<>> <=> CallOf(p) # "none"
         /\ CallOf(p) \in Ops \cup {"none"}
         /\ p # <<>> => p[Len(p)] = CallOf(p) /\ Head(p) = Step(p) /\ Tail(p) = Rest(p)
  BY GoesOn DEF Step, CallOf, Rest

LEMMA WhereThread ==
  ASSUME pc \in [Threads -> MembershipPlaces], NEW t \in Threads
  PROVE  /\ Busy(t) <=> At(t) # "idle"
         /\ Busy(t) <=> Doing(t) # "none"
         /\ Busy(t) => Op(t) = Doing(t)
         /\ Doing(t) \in Ops \cup {"none"}
         /\ \A s : AtStep(t, s) => Busy(t) /\ At(t) = s
BY Where DEF Busy, Op, At, Doing, AtStep

\* Where a thread stands, for whom it stands there.
LEMMA Stands ==
  ASSUME pc \in [Threads -> MembershipPlaces], NEW t \in Threads, Busy(t), At(t) \notin {"load", "insert"}
  PROVE  \E p \in CallPlaces : pc[t] = p /\ At(t) = Step(p) /\ Doing(t) = CallOf(p)
  BY GoesOn DEF Busy, At, Doing

LEMMA StepCalls ==
  ASSUME NEW p \in MembershipPlaces
  PROVE  /\ Step(p) \in {"notMember", "upload", "addMember", "consume"} => CallOf(p) = "joinInvite"
         /\ Step(p) \in {"delete", "removeMember"} => CallOf(p) \in {"leave", "kick"}
         /\ Step(p) \in {"update", "setPermissions"} => CallOf(p) = "permissions"
         /\ Step(p) \in {"insertServer", "uploadOwner", "putServer"} => CallOf(p) = "createServer"
         /\ Step(p) \in {"readCache", "select", "store", "eachServer"} => CallOf(p) \in {"serverIds", "disconnect"}
         /\ Step(p) \in {"mine", "inVoice"} => CallOf(p) = "disconnect"
         /\ Step(p) = "pushVoice" => CallOf(p) = "joinVoice"
         /\ Step(p) = "isMember" => CallOf(p) \in {"kick", "permissions", "joinVoice"}
         /\ Step(p) = "eraseVoice" => CallOf(p) \in {"kick", "leaveVoice", "disconnect"}
         /\ Step(p) = "invalidate" => CallOf(p) \in {"createServer", "joinInvite", "leave", "kick"}
  BY GoesOn, WhatFor DEF Step

LEMMA ObjectCalls ==
  ASSUME pc \in [Threads -> MembershipPlaces], NEW t \in Threads
  PROVE  /\ At(t) \in {"notMember", "upload", "addMember", "consume"} => Doing(t) = "joinInvite"
         /\ At(t) \in {"delete", "removeMember"} => Doing(t) \in {"leave", "kick"}
         /\ At(t) \in {"update", "setPermissions"} => Doing(t) = "permissions"
         /\ At(t) \in {"insertServer", "uploadOwner", "putServer"} => Doing(t) = "createServer"
         /\ At(t) \in {"readCache", "select", "store", "eachServer"} => Doing(t) \in {"serverIds", "disconnect"}
         /\ At(t) \in {"mine", "inVoice"} => Doing(t) = "disconnect"
         /\ At(t) = "pushVoice" => Doing(t) = "joinVoice"
         /\ At(t) = "isMember" => Doing(t) \in {"kick", "permissions", "joinVoice"}
         /\ At(t) = "eraseVoice" => Doing(t) \in {"kick", "leaveVoice", "disconnect"}
         /\ At(t) = "invalidate" => Doing(t) \in {"createServer", "joinInvite", "leave", "kick"}
BY StepCalls DEF At, Doing

LEMMA MovedTo ==
  ASSUME pc \in [Threads -> MembershipPlaces], NEW th \in Threads, NEW p \in MembershipPlaces,
         pc' = [pc EXCEPT ![th] = p]
  PROVE  OnlyMoves(th) /\ At(th)' = Step(p) /\ Doing(th)' = CallOf(p)
BY DEF OnlyMoves, At, Doing

LEMMA Advanced ==
  ASSUME pc \in [Threads -> MembershipPlaces], NEW th \in Threads, Busy(th), At(th) \notin Ops, Advance(th)
  PROVE  /\ OnlyMoves(th) /\ Doing(th)' = Doing(th)
         /\ At(th)' = Step(Rest(pc[th])) /\ At(th)' # "idle"
<1>1. pc[th] \in MembershipPlaces /\ pc[th] # <<>> /\ Step(pc[th]) \notin Ops
  BY DEF Busy, At
<1>2. PICK p : p = Rest(pc[th])
  OBVIOUS
<1>3. p \in MembershipPlaces /\ p # <<>> /\ CallOf(p) = Doing(th) /\ Tail(pc[th]) = p
  BY <1>1, <1>2, GoesOn, Where DEF Doing
<1>4. pc' = [pc EXCEPT ![th] = p]
  BY <1>3 DEF Advance
<1>5. OnlyMoves(th) /\ At(th)' = Step(p) /\ Doing(th)' = CallOf(p)
  BY <1>3, <1>4, MovedTo
<1> QED BY <1>2, <1>3, <1>5, Where

\* One step further on the way of a call.
LEMMA Took ==
  ASSUME pc \in [Threads -> MembershipPlaces], NEW th \in Threads, NEW s, AtStep(th, s), s \notin Ops \cup {"load", "insert"},
         Advance(th)
  PROVE  /\ OnlyMoves(th) /\ Doing(th)' = Doing(th) /\ At(th) = s /\ At(th)' # "idle"
         /\ \E p \in CallPlaces : Step(p) = s /\ Doing(th) = CallOf(p) /\ At(th)' = Step(Rest(p))
  BY WhereThread, Stands, Advanced

LEMMA Finished ==
  ASSUME pc \in [Threads -> MembershipPlaces], NEW th \in Threads, Finish(th)
  PROVE  OnlyMoves(th) /\ At(th)' = "idle" /\ Doing(th)' = "none"
  BY MovedTo DEF MembershipPlaces, Step, CallOf, Finish

LEMMA BusyAfter ==
  ASSUME NEW th \in Threads, OnlyMoves(th), NEW t \in Threads
  PROVE  /\ Busy(t)' <=> At(t)' # "idle"
         /\ Busy(t)' => Op(t)' = Doing(t)'
         /\ Busy(t)' <=> Doing(t)' # "none"
         /\ Doing(t)' \in Ops \cup {"none"}
         /\ At(t)' \in {"insertServer", "uploadOwner", "putServer"} => Doing(t)' = "createServer"
BY Where, StepCalls DEF OnlyMoves, Busy, At, Doing, Op

(***************************************************************************)
(* What a step leaves as it was.                                           *)
(***************************************************************************)
LEMMA InvIs ==
  ASSUME MembershipInv
  PROVE  /\ MembershipTypeOK /\ pc \in [Threads -> MembershipPlaces]
         /\ Alone /\ Creation /\ ObjectsFresh /\ Unloaded
         /\ \A th \in Threads : ThreadInv(th)
         /\ \A u \in UserIds \ raced : UserInv(u)
BY DEF MembershipInv

LEMMA NoConflict ==
  \A c \in Ops \cup {"none"} : ~Conflict(c, "none") /\ ~Conflict("none", c)
BY DEF Conflict, Memberships, Ops

\* Nobody else is about the same user for a call that conflicts.
LEMMA Sole ==
  ASSUME MembershipInv, NEW a \in Threads, NEW b \in Threads, a # b, Busy(a), Busy(b), user[a] = user[b], user[a] \notin raced
  PROVE  ~Conflict(Doing(a), Doing(b)) /\ ~Conflict(Doing(b), Doing(a))
BY DEF MembershipInv, Alone

LEMMA AloneStays ==
  ASSUME MembershipInv, NEW th \in Threads, OnlyMoves(th), user' = user, raced \subseteq raced',
         Doing(th)' \in {Doing(th), "none"}
  PROVE  Alone'
<1>1. Alone /\ pc \in [Threads -> MembershipPlaces]
  BY InvIs
<1> SUFFICES ASSUME NEW a \in Threads, NEW b \in Threads, a # b, Busy(a)', Busy(b)', user[a] = user[b], user[a] \notin raced'
             PROVE  ~Conflict(Doing(a)', Doing(b)')
  BY Zenon DEF Alone, Conflict, Memberships
<1>2. Doing(a)' # "none" /\ Doing(b)' # "none"
  BY BusyAfter
<1>3. Doing(a)' = Doing(a) /\ Doing(b)' = Doing(b)
  BY <1>2 DEF OnlyMoves
<1>4. Busy(a) /\ Busy(b)
  BY <1>1, <1>2, <1>3, WhereThread
<1>5. ~Conflict(Doing(a), Doing(b))
  BY <1>1, <1>4 DEF Alone
<1> QED BY <1>3, <1>5

\* A call of a user in the server: nobody is creating the server.
LEMMA NoCreation ==
  ASSUME MembershipInv, NEW th \in Threads,
         Doing(th) \in {"joinInvite", "leave", "kick", "permissions", "joinVoice", "leaveVoice"}
  PROVE  servers /\ ~Creating /\ ~Unborn /\ \A c \in Threads : Doing(c) # "createServer"
  BY InvIs, WhereThread, ObjectCalls DEF Creation, Creating, Unborn

LEMMA CreationOver ==
  ASSUME MembershipInv, NEW th \in Threads, OnlyMoves(th), servers' = servers, Doing(th)' \in {Doing(th), "none"},
         Doing(th) \in {"joinInvite", "leave", "kick", "permissions", "joinVoice", "leaveVoice"}
  PROVE  Creation'
  BY NoCreation, BusyAfter DEF OnlyMoves, Creating, Unborn, Creation

LEMMA UnawareStays ==
  ASSUME MembershipInv, NEW th \in Threads, OnlyMoves(th), user' = user, server_members' = server_members,
         Doing(th)' \in {Doing(th), "none"}, \A t \in Threads \ {th} : ids'[t] = ids[t],
         NEW u \in UserIds, Unaware(u), ~servers \/ Creating, UserToServerIdsCache'[u] # "in",
         user[th] = u /\ Doing(th) \in {"serverIds", "disconnect"} /\ Doing(th)' # "none" =>
             ids'[th] = "out" /\ At(th)' \notin ServerSteps
  PROVE  Unaware(u)'
  BY InvIs, BusyAfter, WhereThread DEF Unaware, OnlyMoves, Creation, ServerSteps, ObjectSteps

LEMMA CreationStays ==
  ASSUME MembershipInv, NEW th \in Threads, OnlyMoves(th), user' = user, server_members' = server_members,
         Doing(th)' \in {Doing(th), "none"}, \A t \in Threads \ {th} : ids'[t] = ids[t],
         servers => servers', At(th)' # "insertServer", At(th)' = "uploadOwner" => At(th) = "insertServer",
         Doing(th)' = "createServer" => servers', Unborn => ServersMap' = 0,
         \A u \in UserIds : Unaware(u) => UserToServerIdsCache'[u] # "in",
         Unaware(user[th]) /\ Doing(th) \in {"serverIds", "disconnect"} /\ Doing(th)' # "none" =>
             ids'[th] = "out" /\ At(th)' \notin ServerSteps
  PROVE  Creation'
  BY InvIs, BusyAfter, WhereThread, ObjectCalls, UnawareStays DEF OnlyMoves, Creating, Unborn,
     Creation

\* Another thread.
LEMMA OtherThread ==
  ASSUME MembershipInv, NEW th \in Threads, OnlyMoves(th), NEW t \in Threads \ {th},
         user' = user, perm' = perm, obj'[t] = obj[t], ids'[t] = ids[t], online' = online, raced \subseteq raced',
         Inserting(t)',
         user[t] \notin raced' =>
             /\ At(t) \in ObjectSteps => ServersMap' = ServersMap
             /\ Pending(t) => /\ server_members'[user[t]] = server_members[user[t]]
                              /\ Members'[obj[t]][user[t]] = Members[obj[t]][user[t]]
             /\ Doing(t) = "createServer" => server_members'[user[t]] = server_members[user[t]]
             /\ At(t) \in {"store", "eachServer", "mine"} => Actual(user[t])' = Actual(user[t])
             /\ Doing(t) = "disconnect" /\ At(t) \in {"load", "insert"} /\ ServersMap' # 0 =>
                    user[t] \notin ConnectedUsers'[ServersMap']
  PROVE  ThreadInv(t)'
  BY InvIs DEF OnlyMoves, ThreadInv, Pending, HasMember, PendingRow, ObjectSteps

\* A user, whom another thread's step concerns, or none.
LEMMA UserStays ==
  ASSUME MembershipInv, NEW th \in Threads, OnlyMoves(th), user' = user, online' = online, raced \subseteq raced',
         NEW u \in UserIds \ raced',
         ServersMap' = ServersMap, server_members'[u] = server_members[u],
         ServersMap # 0 => Members'[ServersMap][u] = Members[ServersMap][u],
         user[th] = u => ~Pending(th) \/ Pending(th)',
         CacheFresh(u)' \/ (UserToServerIdsCache'[u] = UserToServerIdsCache[u] /\ (user[th] = u /\ Between(th) => Between(th)')),
         ServersMap # 0 => u \notin ConnectedUsers'[ServersMap] \/ u \in ConnectedUsers[ServersMap],
         user[th] = u /\ Doing(th) = "disconnect" /\ At(th) # "disconnect" /\ ServersMap # 0 /\ server_members[u] # NoRow =>
             (Doing(th)' = "disconnect" /\ At(th)' # "disconnect") \/ u \notin ConnectedUsers'[ServersMap]
  PROVE  UserInv(u)'
  BY InvIs DEF OnlyMoves, Pending, UserInv, CacheFresh, Between

LEMMA ObjectsStay ==
  ASSUME MembershipInv, NEW th \in Threads, OnlyMoves(th), ServersMap' = ServersMap, objects' = objects,
         Members' = Members, ConnectedUsers' = ConnectedUsers, ServersMap = 0 => At(th)' \notin ObjectSteps
  PROVE  ObjectsFresh' /\ Unloaded'
  BY InvIs DEF ObjectsFresh, Objects, NoMembers, Unloaded, OnlyMoves, ObjectSteps

LEMMA PlacesAreSteps == MembershipPlaces \subseteq Seq(StepNames)
<1>1. <<>> \in Seq(StepNames)
  OBVIOUS
<1> QED BY <1>1, GoesOn

LEMMA TypesAre ==
  ASSUME pc' \in [Threads -> MembershipPlaces], servers' \in BOOLEAN, owner' \in UserIds \cup {NoRow},
         server_members' \in [UserIds -> Perms \cup {NoRow}], current_uses' \in 0..MaxUses,
         ServersMap' \in 0..objects', objects' \in 0..MaxObjects,
         Members' \in [Objects -> [UserIds -> Perms \cup {NoRow}]], ConnectedUsers' \in [Objects -> SUBSET UserIds],
         UserToServerIdsCache' \in [UserIds -> {"none", "in", "out"}],
         user' \in [Threads -> UserIds], perm' \in [Threads -> Perms], obj' \in [Threads -> 0..objects'],
         ids' \in [Threads -> {"in", "out"}], online' \subseteq UserIds, raced' \subseteq UserIds
  PROVE  MembershipTypeOK'
  BY PlacesAreSteps DEF MembershipTypeOK, Objects, StepNames, Ops

(***************************************************************************)
(* Steps that write neither the tables of members nor an object.           *)
(***************************************************************************)
Quiet(th) ==
    /\ OnlyMoves(th)
    /\ Doing(th)' = Doing(th) \/ (At(th)' = "idle" /\ Doing(th)' = "none")
    /\ server_members' = server_members
    /\ ServersMap' = ServersMap /\ objects' = objects /\ Members' = Members /\ ConnectedUsers' = ConnectedUsers
    /\ user' = user /\ perm' = perm /\ online' = online
    /\ raced \subseteq raced' /\ raced' \subseteq UserIds
    /\ obj' \in [Threads -> 0..objects] /\ ids' \in [Threads -> {"in", "out"}]
    /\ \A t \in Threads \ {th} : obj'[t] = obj[t] /\ ids'[t] = ids[t]

\* Where such a step may lead.
LeadsOn(th) ==
    /\ ~Pending(th) /\ ~Pending(th)'
    /\ At(th)' \notin {"insert", "insertServer"}
    /\ At(th)' = "uploadOwner" => At(th) = "insertServer"
    /\ At(th)' = "load" => ServersMap = 0
    /\ ServersMap = 0 => At(th)' \notin ObjectSteps
    /\ Unaware(user[th]) /\ Doing(th) \in {"serverIds", "disconnect"} /\ Doing(th)' # "none" =>
           ids'[th] = "out" /\ At(th)' \notin ServerSteps

\* What the thread knows after it, for a user who is not raced.
Knows(th) ==
    /\ At(th)' \in ObjectSteps => obj'[th] = ServersMap
    /\ Doing(th)' = "createServer" /\ At(th)' \in {"get", "load", "putServer"} => At(th) \in {"get", "load", "insert"}
    /\ At(th)' \in {"store", "eachServer", "mine"} => ids'[th] = Actual(user[th])
    /\ CacheFresh(user[th])' \/ (UserToServerIdsCache' = UserToServerIdsCache /\ (Between(th) => Between(th)'))
    /\ Doing(th) = "disconnect" /\ At(th) # "disconnect" /\ ServersMap # 0 /\ server_members[user[th]] # NoRow =>
           (Doing(th)' = "disconnect" /\ At(th)' # "disconnect") \/ user[th] \notin ConnectedUsers[ServersMap]

LEMMA QuietKeeps ==
  ASSUME MembershipInv, NEW th \in Threads, Quiet(th), LeadsOn(th), user[th] \notin raced' => Knows(th),
         servers' \in BOOLEAN, owner' \in UserIds \cup {NoRow}, current_uses' \in 0..MaxUses,
         servers => servers', Doing(th)' = "createServer" => servers',
         UserToServerIdsCache' \in [UserIds -> {"none", "in", "out"}],
         \A u \in UserIds \ {user[th]} : UserToServerIdsCache'[u] = UserToServerIdsCache[u],
         Unaware(user[th]) => UserToServerIdsCache'[user[th]] # "in"
  PROVE  MembershipInv'
<1>1. MembershipTypeOK /\ pc \in [Threads -> MembershipPlaces] /\ Creation
  BY InvIs
<1>2. OnlyMoves(th) /\ user' = user /\ perm' = perm /\ online' = online /\ raced \subseteq raced' /\ raced' \subseteq UserIds
  BY DEF Quiet
<1>3. /\ server_members' = server_members /\ ServersMap' = ServersMap /\ objects' = objects
      /\ Members' = Members /\ ConnectedUsers' = ConnectedUsers
  BY DEF Quiet
<1>4. \A t \in Threads \ {th} : obj'[t] = obj[t] /\ ids'[t] = ids[t]
  BY DEF Quiet
<1>5. Doing(th)' \in {Doing(th), "none"}
  BY DEF Quiet
<1>6. MembershipTypeOK'
  BY <1>1, <1>2, <1>3, TypesAre DEF Quiet, MembershipTypeOK, OnlyMoves
<1>7. Alone'
  BY <1>2, <1>5, AloneStays
<1>8. Creation'
  BY <1>1, <1>2, <1>3, <1>4, <1>5, CreationStays DEF Unaware, Creation, LeadsOn
<1>9. ObjectsFresh' /\ Unloaded'
  BY <1>2, <1>3, ObjectsStay DEF LeadsOn
<1>10. ASSUME NEW t \in Threads \ {th}
       PROVE  ThreadInv(t)'
  BY <1>2, <1>3, <1>4, InvIs, OtherThread DEF OnlyMoves, ThreadInv, Inserting, Actual
<1>11. ThreadInv(th)'
  BY <1>1, <1>2, <1>3, <1>5, InvIs DEF MembershipTypeOK, Inserting, LeadsOn, ThreadInv, Actual,
     Knows
<1>12. ASSUME NEW u \in UserIds \ raced'
       PROVE  UserInv(u)'
  BY <1>2, <1>3, UserStays DEF Knows, CacheFresh, LeadsOn
<1> QED
  BY <1>2, <1>6, <1>7, <1>8, <1>9, <1>10, <1>11, <1>12 DEF OnlyMoves, MembershipInv

LEMMA QuietIs ==
  ASSUME MembershipInv, NEW th \in Threads, OnlyMoves(th),
         Doing(th)' = Doing(th) \/ (At(th)' = "idle" /\ Doing(th)' = "none"),
         server_members' = server_members, UNCHANGED loaded, user' = user, perm' = perm, online' = online,
         raced' \in {raced, raced \cup {user[th]}},
         obj' \in {obj, [obj EXCEPT ![th] = ServersMap]},
         ids' = ids \/ \E i \in {"in", "out"} : ids' = [ids EXCEPT ![th] = i]
  PROVE  Quiet(th)
<1>1. MembershipTypeOK
  BY InvIs
<1>2. ServersMap' = ServersMap /\ objects' = objects /\ Members' = Members /\ ConnectedUsers' = ConnectedUsers
  BY DEF loaded
<1>3. raced \subseteq raced' /\ raced' \subseteq UserIds
  BY <1>1 DEF MembershipTypeOK
<1>4. obj' \in [Threads -> 0..objects] /\ \A t \in Threads \ {th} : obj'[t] = obj[t]
  <2>1. obj \in [Threads -> 0..objects] /\ ServersMap \in 0..objects
    BY <1>1 DEF MembershipTypeOK
  <2> QED BY <2>1
<1>5. ids' \in [Threads -> {"in", "out"}] /\ \A t \in Threads \ {th} : ids'[t] = ids[t]
  BY <1>1 DEF MembershipTypeOK
<1> QED BY <1>2, <1>3, <1>4, <1>5 DEF Quiet

\* Most of them leave the cache and the server's row alone.
LEMMA SameServer ==
  ASSUME MembershipInv, UNCHANGED <<servers, owner, UserToServerIdsCache>>
  PROVE  /\ servers' \in BOOLEAN /\ owner' \in UserIds \cup {NoRow} /\ (servers => servers')
         /\ UserToServerIdsCache' = UserToServerIdsCache
         /\ UserToServerIdsCache' \in [UserIds -> {"none", "in", "out"}]
         /\ \A u \in UserIds : Unaware(u) => UserToServerIdsCache'[u] # "in"
BY InvIs DEF MembershipTypeOK, Unaware

LEMMA UsesAre == ASSUME MembershipInv PROVE current_uses \in 0..MaxUses
BY InvIs DEF MembershipTypeOK

LEMMA UserIs == ASSUME MembershipInv, NEW t \in Threads PROVE user[t] \in UserIds
BY InvIs DEF MembershipTypeOK

LEMMA SameUses ==
  ASSUME MembershipInv, UNCHANGED current_uses
  PROVE  current_uses' \in 0..MaxUses
BY UsesAre

LEMMA Aware ==
  ASSUME MembershipInv, NEW th \in Threads, Busy(th), At(th) \in ServerSteps, Doing(th) \in {"serverIds", "disconnect"}
  PROVE  ~Unaware(user[th])
BY DEF Unaware

LEMMA ServerIsThere ==
  ASSUME MembershipInv, NEW th \in Threads, Doing(th) = "createServer", At(th) # "insertServer"
  PROVE  servers
BY InvIs DEF Creation

\* The call ends.
LEMMA EndKeeps ==
  ASSUME MembershipInv, NEW th \in Threads, Finish(th), UNCHANGED <<servers, owner, server_members, loaded, UserToServerIdsCache>>,
         UNCHANGED <<user, perm, ids, online, obj, raced>>, current_uses' \in 0..MaxUses,
         ~Pending(th), ~Between(th),
         user[th] \notin raced /\ Doing(th) = "disconnect" /\ At(th) # "disconnect" /\ ServersMap # 0 /\ server_members[user[th]] # NoRow =>
             user[th] \notin ConnectedUsers[ServersMap]
  PROVE  MembershipInv'
  BY InvIs, Finished, QuietIs, SameServer, UserIs, QuietKeeps DEF LeadsOn, Pending, ObjectSteps,
     Knows

(***************************************************************************)
(* GetServerById.                                                          *)
(***************************************************************************)
LEMMA Asks ==
  ASSUME pc \in [Threads -> MembershipPlaces], NEW th \in Threads, AtStep(th, "get"), Insert(th, <<"load", "insert">>)
  PROVE  OnlyMoves(th) /\ At(th)' = "load" /\ Doing(th)' = Doing(th)
<1>1. Busy(th) /\ At(th) = "get"
  BY WhereThread
<1>2. PICK p \in CallPlaces : pc[th] = p /\ At(th) = Step(p) /\ Doing(th) = CallOf(p)
  BY <1>1, Stands
<1>3. p \in GetPlaces
  BY <1>1, <1>2, GetsAreThese
<1>4. PICK q : q = ToLoad(p)
  OBVIOUS
<1>5. q \in MembershipPlaces /\ Step(q) = "load" /\ CallOf(q) = CallOf(p)
  BY <1>3, <1>4, LoadsAre DEF MembershipPlaces
<1>6. <<"load", "insert">> \o pc[th] = q
  BY <1>2, <1>4 DEF ToLoad
<1>7. pc' = [pc EXCEPT ![th] = q]
  BY <1>6 DEF Insert
<1> QED BY <1>2, <1>5, <1>7, MovedTo

LEMMA GetKeeps ==
  ASSUME MembershipInv, NEW th \in Threads, GetServerById(th)
  PROVE  MembershipInv'
<1>1. pc \in [Threads -> MembershipPlaces] /\ AtStep(th, "get") /\ Busy(th) /\ At(th) = "get"
  BY InvIs, WhereThread DEF GetServerById
<1>2. UNCHANGED <<servers, owner, server_members, current_uses, loaded, UserToServerIdsCache, user, perm, ids, online, raced>>
  BY DEF GetServerById, db, Locals
<1>3. ~Pending(th) /\ At(th) \in ServerSteps
  BY <1>1 DEF Pending, ServerSteps
<1>4. CASE ServersMap # 0
  <2>1. obj' = [obj EXCEPT ![th] = ServersMap] /\ Advance(th)
    BY <1>4 DEF GetServerById
  <2>2. /\ OnlyMoves(th) /\ Doing(th)' = Doing(th)
        /\ \E p \in CallPlaces : Step(p) = "get" /\ Doing(th) = CallOf(p) /\ At(th)' = Step(Rest(p))
    BY <1>1, <2>1, Took DEF Ops
  <2>3. /\ At(th)' \in {"get", "putServer", "notMember", "delete", "isMember", "eraseVoice", "serverIds", "pushVoice",
                        "readCache", "inVoice"}
        /\ Doing(th) = "createServer" => At(th)' \in {"get", "putServer"}
    BY <2>2, WhatFor, WhatNext
  <2>4. Quiet(th)
    BY <1>2, <2>1, <2>2, QuietIs
  <2>5. LeadsOn(th)
    BY <1>1, <1>3, <1>4, <2>3, Aware DEF LeadsOn, Pending
  <2>6. Knows(th)
    BY <1>1, <1>2, <2>1, <2>2, <2>3, InvIs DEF MembershipTypeOK, Between, Knows
  <2>7. Doing(th)' = "createServer" => servers'
    BY <1>1, <1>2, <2>2, ServerIsThere
  <2> QED BY <1>2, <2>4, <2>5, <2>6, <2>7, UserIs, SameServer, SameUses, QuietKeeps
<1>5. CASE ServersMap = 0
  BY <1>1, <1>2, <1>3, <1>5, Asks, QuietIs, Aware, ServerIsThere, UserIs, SameServer, SameUses,
     QuietKeeps DEF GetServerById, LeadsOn, Pending, ObjectSteps, Knows, Between
<1> QED BY <1>4, <1>5

\* Where a thread is that loads the server, and where it goes on without it.
LEMMA Loading ==
  ASSUME pc \in [Threads -> MembershipPlaces], NEW th \in Threads, Busy(th), At(th) = "load"
  PROVE  \E g \in GetPlaces : /\ pc[th] = ToLoad(g) /\ Doing(th) = CallOf(g)
                              /\ SubSeq(pc[th], 4, Len(pc[th])) = Rest(g)
<1>1. pc[th] \in MembershipPlaces /\ pc[th] # <<>> /\ Step(pc[th]) = "load"
  BY DEF Busy, At
<1>2. PICK g \in GetPlaces : pc[th] = ToLoad(g)
  BY <1>1, GoesOn
<1>3. PICK q : q = ToLoad(g)
  OBVIOUS
<1>4. /\ q \in Seq(StepNames) /\ q # <<>> /\ Rest(q) = ToInsert(g) /\ Rest(q) # <<>>
      /\ Rest(Rest(q)) = g /\ g # <<>> /\ CallOf(q) = CallOf(g)
  BY <1>3, LoadsAre
<1>5. SubSeq(q, 4, Len(q)) = Rest(Rest(Rest(q)))
  BY <1>4, SkippedThree
<1> QED BY <1>2, <1>3, <1>4, <1>5 DEF Doing

LEMMA SkipsThree ==
  ASSUME NEW th \in Threads, Skip(th, 3)
  PROVE  pc' = [pc EXCEPT ![th] = SubSeq(pc[th], 4, Len(pc[th]))]
  BY DEF Skip

LEMMA SkipsTwo ==
  ASSUME NEW th \in Threads, Skip(th, 2)
  PROVE  pc' = [pc EXCEPT ![th] = SubSeq(pc[th], 3, Len(pc[th]))]
  BY DEF Skip

\* With nobody's servers left to look at, a disconnect is at D11 or D13.
LEMMA NoneLeft ==
  ASSUME NEW g \in GetPlaces, CallOf(g) = "disconnect"
  PROVE  /\ g \in {D5, D6, D11, D13}
         /\ g \in {D5, D6} <=> \E i \in DOMAIN ToLoad(g) : ToLoad(g)[i] = "mine"
<1>1. g \in {D5, D6, D11, D13}
  BY CreatePlacesAre, JoinPlacesAre, LeavePlacesAre, KickPlacesAre, PermissionPlacesAre,
     IdsPlacesAre, VoicePlacesAre, LeaveVoicePlacesAre DEF GetPlaces
<1>2. PICK h, q : h = <<"load", "insert">> /\ q = h \o g
  OBVIOUS
<1>3. /\ g \in Seq(StepNames) /\ Len(g) \in Nat \ {0}
      /\ h \in Seq(StepNames) /\ Len(h) = 2 /\ h[1] = "load" /\ h[2] = "insert"
  BY <1>2, LoadsAre DEF StepNames
<1>4. /\ q \in Seq(StepNames) /\ Len(q) = Len(g) + 2
      /\ \A i \in 1..Len(h) + Len(g) : q[i] = IF i <= Len(h) THEN h[i] ELSE g[i - Len(h)]
  BY <1>2, <1>3, ConcatProperties
<1>5. (\E i \in DOMAIN q : q[i] = "mine") <=> \E i \in 1..Len(g) : g[i] = "mine"
  <2>1. DOMAIN q = 1..Len(q)
    BY <1>4
  <2>2. ASSUME NEW i \in 1..Len(q), q[i] = "mine"
        PROVE  \E j \in 1..Len(g) : g[j] = "mine"
    BY <1>3, <1>4, <2>2
  <2>3. ASSUME NEW j \in 1..Len(g), g[j] = "mine"
        PROVE  \E i \in 1..Len(q) : q[i] = "mine"
    <3>1. j + 2 \in 1..Len(q) /\ q[j + 2] = g[j]
      BY <1>3, <1>4
    <3> QED BY <2>3, <3>1
  <2> QED BY <2>1, <2>2, <2>3
<1>6. /\ D5[6] = "mine" /\ Len(D5) = 11 /\ D6[5] = "mine" /\ Len(D6) = 10
      /\ Len(D11) = 5 /\ Len(D13) = 3
  BY DEF D5, D6, D11, D13
<1>7. \A i \in 1..5 : D11[i] # "mine"
  BY DEF D11
<1>8. \A i \in 1..3 : D13[i] # "mine"
  BY DEF D13
<1>9. g \in {D5, D6} => \E i \in 1..Len(g) : g[i] = "mine"
  BY <1>6
<1>10. g \in {D11, D13} => ~\E i \in 1..Len(g) : g[i] = "mine"
  BY <1>6, <1>7, <1>8
<1>11. q = ToLoad(g)
  BY <1>2 DEF ToLoad
<1> QED BY <1>1, <1>5, <1>9, <1>10, <1>11

LEMMA LoadFailsKeeps ==
  ASSUME MembershipInv, NEW th \in Threads, DownloadServerFails(th)
  PROVE  MembershipInv'
<1>1. pc \in [Threads -> MembershipPlaces] /\ Busy(th) /\ At(th) = "load"
  BY InvIs, WhereThread DEF DownloadServerFails
<1>2. UNCHANGED <<servers, owner, server_members, current_uses, loaded, UserToServerIdsCache, user, perm, ids, online, obj, raced>>
  BY DEF DownloadServerFails, db, Locals
<1>3. PICK g \in GetPlaces : /\ pc[th] = ToLoad(g) /\ Doing(th) = CallOf(g)
                             /\ SubSeq(pc[th], 4, Len(pc[th])) = Rest(g)
  BY <1>1, Loading
<1>4. g \in CallPlaces /\ Step(g) = "get"
  BY GetPlacesAre
<1>5. Op(th) = Doing(th)
  BY <1>1, WhereThread
<1>6. CASE GoesOnWithout(th)
  <2>1. Skip(th, 3)
    BY <1>6 DEF DownloadServerFails
  <2>2. PICK r : r = Rest(g)
    OBVIOUS
  <2>3. pc' = [pc EXCEPT ![th] = r]
    BY <1>3, <2>1, <2>2, SkipsThree
  <2>4. r \in MembershipPlaces /\ r # <<>> /\ CallOf(r) = Doing(th)
    BY <1>3, <1>4, <2>2, WhatFor, GoesOn DEF MembershipPlaces, Ops
  <2>5. OnlyMoves(th) /\ Doing(th)' = Doing(th) /\ At(th)' = Step(r)
    BY <1>1, <2>3, <2>4, MovedTo
  <2>6. Doing(th) = "createServer" \/ g \in {D5, D6}
    BY <1>3, <1>5, <1>6, NoneLeft DEF GoesOnWithout
  <2>7. /\ Doing(th) = "createServer" => At(th)' \in {"get", "putServer"}
        /\ Doing(th) # "createServer" => Doing(th) = "disconnect" /\ At(th)' \in {"get", "readCache"}
    BY <1>3, <1>4, <2>2, <2>5, <2>6, WhatNext, DisconnectPlacesAre
  <2>8. Quiet(th)
    BY <1>2, <2>5, QuietIs
  <2>9. LeadsOn(th)
    BY <1>1, <2>7, Aware DEF LeadsOn, Pending, ObjectSteps, ServerSteps
  <2>10. Knows(th)
    BY <1>1, <1>2, <2>5, <2>7 DEF Knows, Between, ObjectSteps
  <2>11. Doing(th)' = "createServer" => servers'
    BY <1>1, <1>2, <2>5, ServerIsThere
  <2> QED BY <1>2, <2>8, <2>9, <2>10, <2>11, UserIs, SameServer, SameUses, QuietKeeps
<1>7. CASE ~GoesOnWithout(th)
  BY <1>1, <1>2, <1>5, <1>7, InvIs, SameUses, EndKeeps DEF DownloadServerFails, GoesOnWithout,
     Pending, Between, ThreadInv
<1> QED BY <1>6, <1>7

(***************************************************************************)
(* The server's row, and the invite.                                       *)
(***************************************************************************)
LEMMA NewServerKeeps ==
  ASSUME MembershipInv, NEW th \in Threads, UploadNewServerToDB(th)
  PROVE  MembershipInv'
<1>1. /\ pc \in [Threads -> MembershipPlaces] /\ AtStep(th, "insertServer") /\ Busy(th) /\ At(th) = "insertServer"
      /\ Doing(th) = "createServer"
  BY InvIs, WhereThread, ObjectCalls DEF UploadNewServerToDB
<1>2. UNCHANGED <<server_members, current_uses, loaded, UserToServerIdsCache, user, perm, ids, online, obj, raced>>
  BY DEF UploadNewServerToDB, Locals
<1>3. ~Pending(th) /\ ~Between(th)
  BY <1>1 DEF Pending, Between
<1>4. CASE servers' = TRUE /\ owner' = user[th] /\ Advance(th)
  <2>1. OnlyMoves(th) /\ Doing(th)' = Doing(th) /\ At(th)' = "uploadOwner"
    BY <1>1, <1>4, Took, WhatNext DEF Ops
  <2>2. Quiet(th)
    BY <1>2, <2>1, QuietIs
  <2>3. LeadsOn(th)
    BY <1>1, <1>3, <2>1 DEF LeadsOn, Pending, ObjectSteps
  <2>4. Knows(th)
    BY <1>1, <1>2, <1>3, <2>1 DEF Knows, ObjectSteps
  <2>5. /\ UserToServerIdsCache' \in [UserIds -> {"none", "in", "out"}]
        /\ \A u \in UserIds : Unaware(u) => UserToServerIdsCache'[u] # "in"
    BY <1>2, InvIs DEF MembershipTypeOK, Unaware
  <2>6. servers' \in BOOLEAN /\ owner' \in UserIds \cup {NoRow} /\ servers'
    BY <1>4, UserIs
  <2> QED BY <1>2, <2>2, <2>3, <2>4, <2>5, <2>6, UserIs, SameUses, QuietKeeps
<1>5. CASE UNCHANGED <<servers, owner>> /\ Finish(th)
  BY <1>1, <1>2, <1>3, <1>5, SameUses, EndKeeps
<1> QED BY <1>4, <1>5 DEF UploadNewServerToDB

LEMMA ConsumeKeeps ==
  ASSUME MembershipInv, NEW th \in Threads, ConsumeInviteFromDB(th)
  PROVE  MembershipInv'
<1>1. /\ pc \in [Threads -> MembershipPlaces] /\ AtStep(th, "consume") /\ Busy(th) /\ At(th) = "consume"
      /\ Doing(th) = "joinInvite"
  BY InvIs, WhereThread, ObjectCalls DEF ConsumeInviteFromDB
<1>2. UNCHANGED <<servers, owner, server_members, loaded, UserToServerIdsCache, user, perm, ids, online, obj, raced>>
  BY DEF ConsumeInviteFromDB, Locals
<1>3. ~Pending(th) /\ ~Between(th)
  BY <1>1 DEF Pending, Between
<1>4. CASE current_uses < MaxUses /\ current_uses' = current_uses + 1 /\ Advance(th)
  BY <1>1, <1>2, <1>3, <1>4, Took, WhatNext, QuietIs, UsesAre, MembershipAssumption, UserIs,
     SameServer, QuietKeeps DEF Ops, LeadsOn, Pending, ObjectSteps, Knows
<1>5. CASE UNCHANGED current_uses /\ Finish(th)
  BY <1>1, <1>2, <1>3, <1>5, SameUses, EndKeeps
<1> QED BY <1>4, <1>5 DEF ConsumeInviteFromDB

LEMMA CheckKeeps ==
  ASSUME MembershipInv, NEW th \in Threads, CheckMember(th)
  PROVE  MembershipInv'
<1>1. /\ pc \in [Threads -> MembershipPlaces] /\ Busy(th) /\ At(th) \in {"isMember", "notMember"}
      /\ AtStep(th, At(th)) /\ Doing(th) \in {"joinInvite", "kick", "permissions", "joinVoice"}
  BY InvIs, WhereThread, ObjectCalls DEF CheckMember
<1>2. UNCHANGED <<servers, owner, server_members, current_uses, loaded, UserToServerIdsCache, user, perm, ids, online, obj, raced>>
  BY DEF CheckMember, db, Locals
<1>3. ~Pending(th) /\ ~Between(th) /\ At(th) \in ObjectSteps
  BY <1>1 DEF Pending, Between, ObjectSteps
<1>4. CASE Advance(th)
  <2>1. OnlyMoves(th) /\ Doing(th)' = Doing(th) /\ At(th)' \in {"get", "update", "upload"}
    BY <1>1, <1>4, Took, WhatFor, WhatNext DEF Ops
  <2>2. Quiet(th)
    BY <1>2, <2>1, QuietIs
  <2>3. ServersMap # 0
    BY <1>3, InvIs DEF Unloaded
  <2>4. LeadsOn(th)
    BY <1>1, <1>3, <2>1, <2>3 DEF LeadsOn, Pending
  <2>5. user[th] \notin raced' => obj[th] = ServersMap
    BY <1>2, <1>3, InvIs DEF ThreadInv
  <2>6. user[th] \notin raced' => Knows(th)
    BY <1>1, <1>2, <1>3, <2>1, <2>5 DEF Knows
  <2> QED BY <1>1, <1>2, <2>1, <2>2, <2>4, <2>6, UserIs, SameServer, SameUses, QuietKeeps
<1>5. CASE Finish(th)
  BY <1>1, <1>2, <1>3, <1>5, SameUses, EndKeeps
<1> QED BY <1>4, <1>5 DEF CheckMember, ContinueIf

LEMMA OwnerNotWritten ==
  ASSUME MembershipInv, NEW th \in Threads, UploadOwnerToDB(th), raced' = raced \cup {user[th]}, UNCHANGED server_members
  PROVE  MembershipInv'
  BY InvIs, WhereThread, ObjectCalls, Took, WhatNext, QuietIs, ServerIsThere, UserIs, SameServer,
     SameUses, QuietKeeps DEF UploadOwnerToDB, Locals, Ops, LeadsOn, Pending, ObjectSteps

(***************************************************************************)
(* The cached servers of a user.                                           *)
(***************************************************************************)
LEMMA ReadsAreThese ==
  ASSUME NEW p \in CallPlaces
  PROVE  /\ Step(p) = "readCache" => p \in {I1, D1, D7}
         /\ Step(p) = "select" => p \in {I2, D2, D8}
         /\ Step(p) = "eachServer" => p \in {I4, D4}
<1>1. CASE p \in CreatePlaces
  BY <1>1, CreatePlacesAre DEF CreatePlaces
<1>2. CASE p \in JoinPlaces
  BY <1>2, JoinPlacesAre DEF JoinPlaces
<1>3. CASE p \in LeavePlaces
  BY <1>3, LeavePlacesAre DEF LeavePlaces
<1>4. CASE p \in KickPlaces
  BY <1>4, KickPlacesAre DEF KickPlaces
<1>5. CASE p \in PermissionPlaces
  BY <1>5, PermissionPlacesAre DEF PermissionPlaces
<1>6. CASE p \in IdsPlaces
  BY <1>6, IdsPlacesAre DEF IdsPlaces
<1>7. CASE p \in VoicePlaces
  BY <1>7, VoicePlacesAre DEF VoicePlaces
<1>8. CASE p \in LeaveVoicePlaces
  BY <1>8, LeaveVoicePlacesAre DEF LeaveVoicePlaces
<1>9. CASE p \in DisconnectPlaces
  BY <1>9, DisconnectPlacesAre DEF DisconnectPlaces
<1> QED BY <1>1, <1>2, <1>3, <1>4, <1>5, <1>6, <1>7, <1>8, <1>9 DEF CallPlaces

LEMMA ServersRead ==
  ASSUME pc \in [Threads -> MembershipPlaces], NEW th \in Threads, Busy(th),
         \/ At(th) = "readCache" /\ Skip(th, 3)
         \/ At(th) = "select" /\ Skip(th, 2)
  PROVE  OnlyMoves(th) /\ Doing(th)' = Doing(th) /\ At(th)' \in {"eachServer", "mine"}
<1>1. PICK p \in CallPlaces : pc[th] = p /\ At(th) = Step(p) /\ Doing(th) = CallOf(p)
  BY Stands
<1>2. p \in Seq(StepNames) /\ p # <<>>
  BY CallPlacesTyped, WhatFor
<1>3. ASSUME NEW r \in CallPlaces, pc' = [pc EXCEPT ![th] = r], CallOf(r) = CallOf(p), Step(r) \in {"eachServer", "mine"}
      PROVE  OnlyMoves(th) /\ Doing(th)' = Doing(th) /\ At(th)' \in {"eachServer", "mine"}
  BY <1>1, <1>3, MovedTo DEF MembershipPlaces
<1>4. CASE At(th) = "readCache" /\ Skip(th, 3)
  <2>1. p \in {I1, D1, D7}
    BY <1>1, <1>4, ReadsAreThese
  <2>2. PICK r : r = Rest(Rest(Rest(p)))
    OBVIOUS
  <2>3. r \in CallPlaces /\ CallOf(r) = CallOf(p) /\ Step(r) \in {"eachServer", "mine"}
    BY <2>1, <2>2, IdsPlacesAre, DisconnectPlacesAre DEF CallPlaces, IdsPlaces, DisconnectPlaces
  <2>4. SubSeq(p, 4, Len(p)) = r
    BY <1>2, <2>1, <2>2, IdsPlacesAre, DisconnectPlacesAre, SkippedThree
  <2>5. pc' = [pc EXCEPT ![th] = r]
    BY <1>1, <1>4, <2>4, SkipsThree
  <2> QED BY <1>3, <2>3, <2>5
<1>5. CASE At(th) = "select" /\ Skip(th, 2)
  <2>1. p \in {I2, D2, D8}
    BY <1>1, <1>5, ReadsAreThese
  <2>2. PICK r : r = Rest(Rest(p))
    OBVIOUS
  <2>3. r \in CallPlaces /\ CallOf(r) = CallOf(p) /\ Step(r) \in {"eachServer", "mine"}
    BY <2>1, <2>2, IdsPlacesAre, DisconnectPlacesAre DEF CallPlaces, IdsPlaces, DisconnectPlaces
  <2>4. SubSeq(p, 3, Len(p)) = r
    BY <1>2, <2>1, <2>2, IdsPlacesAre, DisconnectPlacesAre, Skipped
  <2>5. pc' = [pc EXCEPT ![th] = r]
    BY <1>1, <1>5, <2>4, SkipsTwo
  <2> QED BY <1>3, <2>3, <2>5
<1> QED BY <1>4, <1>5

\* Nobody is about to change the servers of a user while they are read.
LEMMA CacheIsFresh ==
  ASSUME MembershipInv, NEW th \in Threads, Busy(th), Doing(th) \in {"serverIds", "disconnect"}, user[th] \notin raced
  PROVE  CacheFresh(user[th])
  BY InvIs, UserIs, ObjectCalls, WhereThread, Sole DEF UserInv, Between, Conflict, Memberships

LEMMA ReadCacheKeeps ==
  ASSUME MembershipInv, NEW th \in Threads, ReadUserServersCache(th)
  PROVE  MembershipInv'
<1> DEFINE cached == UserToServerIdsCache[user[th]]
<1>1. /\ pc \in [Threads -> MembershipPlaces] /\ AtStep(th, "readCache") /\ Busy(th) /\ At(th) = "readCache"
      /\ Doing(th) \in {"serverIds", "disconnect"}
  BY InvIs, WhereThread, ObjectCalls DEF ReadUserServersCache
<1>2. UNCHANGED <<servers, owner, server_members, current_uses, loaded, UserToServerIdsCache, user, perm, online, obj, raced>>
  BY DEF ReadUserServersCache, db
<1>3. ~Pending(th) /\ ~Between(th)
  BY <1>1 DEF Pending, Between
<1>4. Unaware(user[th]) => ids[th] = "out" /\ cached # "in"
  BY <1>1 DEF Unaware
<1>5. ids \in [Threads -> {"in", "out"}] /\ cached \in {"none", "in", "out"}
  BY InvIs, UserIs DEF MembershipTypeOK
<1>6. CASE cached = "none"
  BY <1>1, <1>2, <1>3, <1>4, <1>6, Took, WhatNext, QuietIs, UserIs, SameServer, SameUses, QuietKeeps
     DEF ReadUserServersCache, Ops, LeadsOn, Pending, ObjectSteps, ServerSteps, Knows
<1>7. CASE cached # "none"
  <2>1. Skip(th, 3) /\ ids' = [ids EXCEPT ![th] = cached]
    BY <1>7 DEF ReadUserServersCache
  <2>2. OnlyMoves(th) /\ Doing(th)' = Doing(th) /\ At(th)' \in {"eachServer", "mine"}
    BY <1>1, <2>1, ServersRead
  <2>3. ids'[th] = cached /\ cached \in {"in", "out"}
    BY <1>5, <1>7, <2>1
  <2>4. Quiet(th)
    BY <1>2, <2>1, <2>2, <2>3, QuietIs
  <2>5. LeadsOn(th)
    BY <1>1, <1>3, <1>4, <2>2, <2>3 DEF LeadsOn, Pending, ObjectSteps, ServerSteps
  <2>6. ASSUME user[th] \notin raced'
        PROVE  Knows(th)
    BY <1>1, <1>2, <1>3, <1>7, <2>2, <2>3, <2>6, CacheIsFresh DEF CacheFresh, Actual, Knows,
       ObjectSteps
  <2> QED BY <1>1, <1>2, <2>2, <2>4, <2>5, <2>6, UserIs, SameServer, SameUses, QuietKeeps
<1> QED BY <1>6, <1>7

LEMMA SelectKeeps ==
  ASSUME MembershipInv, NEW th \in Threads, SelectUserServers(th)
  PROVE  MembershipInv'
<1>1. /\ pc \in [Threads -> MembershipPlaces] /\ AtStep(th, "select") /\ Busy(th) /\ At(th) = "select"
      /\ Doing(th) \in {"serverIds", "disconnect"}
  BY InvIs, WhereThread, ObjectCalls DEF SelectUserServers
<1>2. UNCHANGED <<servers, owner, server_members, current_uses, loaded, UserToServerIdsCache, user, perm, online, obj>>
  BY DEF SelectUserServers, db
<1>3. ~Pending(th) /\ ~Between(th)
  BY <1>1 DEF Pending, Between
<1>4. ids \in [Threads -> {"in", "out"}]
  BY InvIs DEF MembershipTypeOK
<1>5. Unaware(user[th]) => Actual(user[th]) = "out"
  BY DEF Unaware, Actual
<1>6. CASE ids' = [ids EXCEPT ![th] = Actual(user[th])] /\ Advance(th) /\ raced' = raced
  <2>1. OnlyMoves(th) /\ Doing(th)' = Doing(th) /\ At(th)' = "store"
    BY <1>1, <1>6, Took, WhatNext DEF Ops
  <2>2. ids'[th] = Actual(user[th]) /\ Actual(user[th]) \in {"in", "out"}
    BY <1>4, <1>6 DEF Actual
  <2>3. Quiet(th)
    BY <1>2, <1>6, <2>1, <2>2, QuietIs
  <2>4. LeadsOn(th)
    BY <1>1, <1>3, <1>5, <2>1, <2>2 DEF LeadsOn, Pending, ObjectSteps, ServerSteps
  <2>5. Knows(th)
    BY <1>1, <1>2, <1>3, <2>1, <2>2 DEF Knows, ObjectSteps
  <2> QED BY <1>1, <1>2, <2>1, <2>3, <2>4, <2>5, UserIs, SameServer, SameUses, QuietKeeps
<1>7. CASE ids' = [ids EXCEPT ![th] = "out"] /\ Skip(th, 2) /\ raced' = raced \cup {user[th]}
  BY <1>1, <1>2, <1>3, <1>4, <1>7, ServersRead, QuietIs, UserIs, SameServer, SameUses, QuietKeeps
     DEF LeadsOn, Pending, ObjectSteps, ServerSteps
<1> QED BY <1>6, <1>7 DEF SelectUserServers, Actual

LEMMA StoreKeeps ==
  ASSUME MembershipInv, NEW th \in Threads, StoreUserServers(th)
  PROVE  MembershipInv'
<1>1. /\ pc \in [Threads -> MembershipPlaces] /\ AtStep(th, "store") /\ Busy(th) /\ At(th) = "store"
      /\ Doing(th) \in {"serverIds", "disconnect"}
  BY InvIs, WhereThread, ObjectCalls DEF StoreUserServers
<1>2. UNCHANGED <<servers, owner, server_members, current_uses, loaded, user, perm, ids, online, obj, raced>>
  BY DEF StoreUserServers, db, Locals
<1>3. ~Pending(th) /\ ~Between(th)
  BY <1>1 DEF Pending, Between
<1>4. OnlyMoves(th) /\ Doing(th)' = Doing(th) /\ At(th)' \in {"eachServer", "mine"}
  BY <1>1, Took, WhatFor, WhatNext DEF StoreUserServers, Ops
<1>5. /\ UserToServerIdsCache' \in [UserIds -> {"none", "in", "out"}] /\ UserToServerIdsCache'[user[th]] = ids[th]
      /\ \A u \in UserIds \ {user[th]} : UserToServerIdsCache'[u] = UserToServerIdsCache[u]
  BY InvIs DEF StoreUserServers, MembershipTypeOK
<1>6. Unaware(user[th]) => ids[th] = "out"
  BY <1>1 DEF Unaware
<1>7. Quiet(th)
  BY <1>2, <1>4, QuietIs
<1>8. LeadsOn(th)
  BY <1>1, <1>2, <1>3, <1>4, <1>6 DEF LeadsOn, Pending, ObjectSteps, ServerSteps
<1>9. ASSUME user[th] \notin raced'
      PROVE  Knows(th)
  BY <1>1, <1>2, <1>4, <1>5, <1>9, InvIs DEF ThreadInv, CacheFresh, Actual, Knows, ObjectSteps
<1>10. servers' \in BOOLEAN /\ owner' \in UserIds \cup {NoRow} /\ (servers => servers')
  BY <1>2, InvIs DEF MembershipTypeOK
<1> QED BY <1>1, <1>4, <1>5, <1>6, <1>7, <1>8, <1>9, <1>10, <1>2, SameUses, QuietKeeps

LEMMA InvalidateKeeps ==
  ASSUME MembershipInv, NEW th \in Threads, InvalidateUserServers(th)
  PROVE  MembershipInv'
<1>1. /\ pc \in [Threads -> MembershipPlaces] /\ AtStep(th, "invalidate") /\ Busy(th) /\ At(th) = "invalidate"
      /\ Doing(th) \in {"createServer", "joinInvite", "leave", "kick"}
  BY InvIs, WhereThread, ObjectCalls DEF InvalidateUserServers
<1>2. UNCHANGED <<servers, owner, server_members, current_uses, loaded, user, perm, ids, online, obj, raced>>
  BY DEF InvalidateUserServers, db, Locals
<1>3. OnlyMoves(th) /\ Doing(th)' = Doing(th) /\ At(th)' \in {"get", "createServer", "joinInvite", "leave"}
  BY <1>1, Took, WhatFor, WhatNext DEF InvalidateUserServers, Ops
<1>4. Doing(th) = "createServer" => At(th)' = "createServer"
  BY <1>1, Took, WhatNext DEF InvalidateUserServers, Ops
<1>5. /\ UserToServerIdsCache' \in [UserIds -> {"none", "in", "out"}] /\ UserToServerIdsCache'[user[th]] = "none"
      /\ \A u \in UserIds \ {user[th]} : UserToServerIdsCache'[u] = UserToServerIdsCache[u]
  BY InvIs DEF InvalidateUserServers, MembershipTypeOK
<1>6. Quiet(th)
  BY <1>2, <1>3, QuietIs
<1>7. LeadsOn(th)
  BY <1>1, <1>3 DEF LeadsOn, Pending, ObjectSteps
<1>8. Knows(th)
  BY <1>1, <1>2, <1>3, <1>4, <1>5 DEF CacheFresh, Knows, ObjectSteps
<1>9. servers' \in BOOLEAN /\ owner' \in UserIds \cup {NoRow} /\ (servers => servers')
  BY <1>2, InvIs DEF MembershipTypeOK
<1>10. Doing(th)' = "createServer" => servers'
  BY <1>1, <1>2, <1>3, ServerIsThere
<1> QED BY <1>2, <1>5, <1>6, <1>7, <1>8, <1>9, <1>10, SameUses, QuietKeeps

\* The servers of the answer are looked up.
LEMMA LooksUp ==
  ASSUME pc \in [Threads -> MembershipPlaces], NEW th \in Threads, Busy(th), At(th) = "eachServer",
         pc' = [pc EXCEPT ![th] = Lookups(Op(th)) \o Tail(@)]
  PROVE  OnlyMoves(th) /\ Doing(th)' = Doing(th) /\ At(th)' = "get"
<1>1. PICK p \in CallPlaces : pc[th] = p /\ At(th) = Step(p) /\ Doing(th) = CallOf(p)
  BY Stands
<1>2. p \in {I4, D4}
  BY <1>1, ReadsAreThese
<1>3. Op(th) = CallOf(p)
  BY <1>1, WhereThread
<1>4. Tail(p) = Rest(p)
  BY <1>2, IdsPlacesAre, DisconnectPlacesAre DEF Rest
<1>5. CASE p = I4
  <2>1. Op(th) = "serverIds" /\ Tail(p) = I6
    BY <1>3, <1>4, <1>5, IdsPlacesAre
  <2>2. <<"get">> \o I6 = I5
    <3>1. PICK h, d, e : h = <<"get">> /\ d = I6 /\ e = I5
      OBVIOUS
    <3>2. h \in Seq(StepNames) /\ Len(h) = 1 /\ h[1] = "get"
      BY <3>1 DEF StepNames
    <3>3. d \in Seq(StepNames) /\ e \in Seq(StepNames)
      BY <3>1, CallPlacesTyped DEF CallPlaces, IdsPlaces
    <3>4. Len(d) = 1 /\ d[1] = "serverIds" /\ Len(e) = 2 /\ e[1] = "get" /\ e[2] = "serverIds"
      BY <3>1 DEF I5, I6
    <3>5. /\ Len(e) = Len(h) + Len(d) /\ \A i \in 1..Len(h) : e[i] = h[i]
          /\ \A i \in 1..Len(d) : e[Len(h) + i] = d[i]
      BY <3>2, <3>4
    <3>6. h \o d = e
      BY <3>2, <3>3, <3>5, Concatenated, Zenon
    <3> QED BY <3>1, <3>6
  <2>3. pc' = [pc EXCEPT ![th] = I5]
    BY <1>1, <2>1, <2>2 DEF Lookups
  <2>4. I5 \in MembershipPlaces
    BY DEF MembershipPlaces, CallPlaces, IdsPlaces
  <2>5. OnlyMoves(th) /\ At(th)' = Step(I5) /\ Doing(th)' = CallOf(I5)
    BY <2>3, <2>4, MovedTo
  <2>6. Step(I5) = "get" /\ CallOf(I5) = CallOf(I4)
    BY IdsPlacesAre
  <2> QED BY <1>1, <1>5, <2>5, <2>6
<1>6. CASE p = D4
  <2>1. Op(th) = "disconnect" /\ Tail(p) = D7
    BY <1>3, <1>4, <1>6, DisconnectPlacesAre
  <2>2. <<"get", "get">> \o D7 = D5
    <3>1. PICK h, d, e : h = <<"get", "get">> /\ d = D7 /\ e = D5
      OBVIOUS
    <3>2. h \in Seq(StepNames) /\ d \in Seq(StepNames) /\ e \in Seq(StepNames)
      <4>1. h \in Seq(StepNames)
        BY <3>1 DEF StepNames
      <4>2. D7 \in CallPlaces /\ D5 \in CallPlaces
        BY DEF CallPlaces, DisconnectPlaces
      <4> QED BY <3>1, <4>1, <4>2, CallPlacesTyped, Zenon
    <3>3. Len(h) = 2 /\ Len(d) = 9 /\ Len(e) = 11
      BY <3>1 DEF D5, D7
    <3>4. \A i \in 1..2 : e[i] = h[i]
      BY <3>1 DEF D5
    <3>5. \A i \in 1..9 : e[2 + i] = d[i]
      BY <3>1 DEF D5, D7
    <3>6. /\ Len(e) = Len(h) + Len(d) /\ \A i \in 1..Len(h) : e[i] = h[i]
          /\ \A i \in 1..Len(d) : e[Len(h) + i] = d[i]
      BY <3>3, <3>4, <3>5
    <3>7. h \o d = e
      BY <3>2, <3>6, Concatenated, Zenon
    <3> QED BY <3>1, <3>7
  <2>3. pc' = [pc EXCEPT ![th] = D5]
    BY <1>1, <2>1, <2>2 DEF Lookups
  <2>4. D5 \in MembershipPlaces
    BY DEF MembershipPlaces, CallPlaces, DisconnectPlaces
  <2>5. OnlyMoves(th) /\ At(th)' = Step(D5) /\ Doing(th)' = CallOf(D5)
    BY <2>3, <2>4, MovedTo
  <2>6. Step(D5) = "get" /\ CallOf(D5) = CallOf(D4)
    BY DisconnectPlacesAre
  <2> QED BY <1>1, <1>6, <2>5, <2>6
<1> QED BY <1>2, <1>5, <1>6

LEMMA EachServerKeeps ==
  ASSUME MembershipInv, NEW th \in Threads, EachServer(th)
  PROVE  MembershipInv'
<1>1. /\ pc \in [Threads -> MembershipPlaces] /\ AtStep(th, "eachServer") /\ Busy(th) /\ At(th) = "eachServer"
      /\ Doing(th) \in {"serverIds", "disconnect"}
  BY InvIs, WhereThread, ObjectCalls DEF EachServer
<1>2. UNCHANGED <<servers, owner, server_members, current_uses, loaded, UserToServerIdsCache, user, perm, ids, online, obj, raced>>
  BY DEF EachServer, db, Locals
<1>3. ~Pending(th) /\ ~Between(th)
  BY <1>1 DEF Pending, Between
<1>4. Unaware(user[th]) => ids[th] = "out"
  BY <1>1 DEF Unaware
<1>5. OnlyMoves(th) /\ Doing(th)' = Doing(th) /\ At(th)' \in {"get", "serverIds", "readCache"} /\ (At(th)' = "get" => ids[th] = "in")
  BY <1>1, LooksUp, Took, WhatFor, WhatNext DEF EachServer, Ops
<1>6. Quiet(th)
  BY <1>2, <1>5, QuietIs
<1>7. LeadsOn(th)
  BY <1>1, <1>2, <1>3, <1>4, <1>5 DEF LeadsOn, Pending, ObjectSteps, ServerSteps
<1>8. Knows(th)
  BY <1>1, <1>2, <1>3, <1>5 DEF Knows, ObjectSteps
<1> QED BY <1>1, <1>2, <1>5, <1>6, <1>7, <1>8, UserIs, SameServer, SameUses, QuietKeeps

LEMMA CleanupKeeps ==
  ASSUME MembershipInv, NEW th \in Threads, CleanupUserVoiceChannels(th)
  PROVE  MembershipInv'
<1>1. /\ pc \in [Threads -> MembershipPlaces] /\ Busy(th) /\ At(th) \in {"mine", "inVoice"}
      /\ AtStep(th, At(th)) /\ Doing(th) = "disconnect"
  BY InvIs, WhereThread, ObjectCalls DEF CleanupUserVoiceChannels
<1>2. UNCHANGED <<servers, owner, server_members, current_uses, loaded, UserToServerIdsCache, user, perm, ids, online, obj, raced>>
  BY DEF CleanupUserVoiceChannels, db, Locals
<1>3. ~Pending(th) /\ ~Between(th)
  BY <1>1 DEF Pending, Between
<1>4. Unaware(user[th]) => ids[th] = "out" /\ At(th) = "mine"
  BY <1>1 DEF Unaware, ServerSteps, ObjectSteps
<1>5. \/ Finish(th) /\ (At(th) = "mine" => ids[th] # "in") /\ (At(th) = "inVoice" => user[th] \notin ConnectedUsers[obj[th]])
      \/ Advance(th) /\ (At(th) = "mine" => ids[th] = "in")
  BY <1>1, WhereThread DEF CleanupUserVoiceChannels, ContinueIf
<1>6. CASE Finish(th) /\ (At(th) = "mine" => ids[th] # "in") /\ (At(th) = "inVoice" => user[th] \notin ConnectedUsers[obj[th]])
  BY <1>1, <1>2, <1>3, <1>6, InvIs, SameUses, EndKeeps DEF ThreadInv, Actual, ObjectSteps
<1>7. CASE Advance(th) /\ (At(th) = "mine" => ids[th] = "in")
  BY <1>1, <1>2, <1>3, <1>4, <1>7, Took, WhatNext, QuietIs, UserIs, SameServer, SameUses, QuietKeeps
     DEF Ops, LeadsOn, Pending, ObjectSteps, Knows
<1> QED BY <1>5, <1>6, <1>7

LEMMA ReplyKeeps ==
  ASSUME MembershipInv, NEW th \in Threads, Reply(th)
  PROVE  MembershipInv'
  BY InvIs, Where, GoesOn, SameUses, EndKeeps DEF Reply, db, Busy, At, Doing, Pending, Between, Ops

(***************************************************************************)
(* The server is loaded.                                                   *)
(***************************************************************************)
LEMMA LoadedNext ==
  ASSUME pc \in [Threads -> MembershipPlaces], NEW th \in Threads, Busy(th), At(th) \in {"load", "insert"}, Advance(th)
  PROVE  /\ OnlyMoves(th) /\ Doing(th)' = Doing(th)
         /\ At(th) = "load" => At(th)' = "insert"
         /\ At(th) = "insert" => At(th)' = "get"
  BY Advanced, GoesOn, LoadsAre, GetPlacesAre DEF Ops, Busy, At

\* A thread that has an object, or is to load one, is in no call that cannot know of the server.
LEMMA Born ==
  ASSUME MembershipInv, NEW th \in Threads, Busy(th), At(th) \in {"get", "load", "insert"}
  PROVE  ~Unborn
  BY InvIs, UserIs, ServerIsThere, ObjectCalls DEF Creation, Unaware, ServerSteps, Unborn

LEMMA LoadKeeps ==
  ASSUME MembershipInv, NEW th \in Threads, DownloadServerFromDB(th)
  PROVE  MembershipInv'
<1>1. MembershipTypeOK /\ pc \in [Threads -> MembershipPlaces] /\ Busy(th) /\ At(th) = "load" /\ servers
  BY InvIs, WhereThread DEF DownloadServerFromDB
<1>2. /\ servers' = servers /\ owner' = owner /\ server_members' = server_members /\ current_uses' = current_uses
      /\ ServersMap' = ServersMap /\ ConnectedUsers' = ConnectedUsers /\ UserToServerIdsCache' = UserToServerIdsCache
      /\ user' = user /\ perm' = perm /\ ids' = ids /\ online' = online
  BY DEF DownloadServerFromDB, db, Locals
<1>3. OnlyMoves(th) /\ Doing(th)' = Doing(th) /\ At(th)' = "insert"
  BY <1>1, LoadedNext DEF DownloadServerFromDB
<1>4. PICK o \in Objects : o = objects' /\ objects' = objects + 1 /\ obj' = [obj EXCEPT ![th] = o]
  <2>1. objects < MaxObjects /\ objects' = objects + 1 /\ obj' = [obj EXCEPT ![th] = objects']
    BY DEF DownloadServerFromDB
  <2>2. objects \in Nat /\ MaxObjects \in Nat
    BY <1>1, MembershipAssumption DEF MembershipTypeOK
  <2>3. objects + 1 \in Objects
    BY <2>1, <2>2 DEF Objects
  <2>4. objects' \in Objects
    BY <2>1, <2>3
  <2> QED BY <2>1, <2>4, Zenon
<1>5. \/ Members' = [Members EXCEPT ![o] = server_members] /\ raced' = raced
      \/ raced' = UserIds /\ Members' = Members
  BY <1>4 DEF DownloadServerFromDB
<1>6. objects \in Nat /\ o > objects /\ o # 0
  BY <1>1, <1>4, MembershipAssumption DEF MembershipTypeOK
<1>7. \A q \in Objects \ {o} : Members'[q] = Members[q]
  BY <1>1, <1>5 DEF MembershipTypeOK
<1>8. raced \subseteq raced' /\ raced' \subseteq UserIds
  BY <1>1, <1>5 DEF MembershipTypeOK
<1>9. /\ obj' \in [Threads -> 0..objects'] /\ obj'[th] = o /\ \A t \in Threads \ {th} : obj'[t] = obj[t]
      /\ \A t \in Threads : obj[t] \in 0..objects
  BY <1>1, <1>4, <1>6 DEF MembershipTypeOK
<1>10. ServersMap \in 0..objects /\ (ServersMap # 0 => ServersMap \in Objects \ {o})
  BY <1>1, <1>6, MembershipAssumption DEF MembershipTypeOK, Objects
<1>11. MembershipTypeOK'
  <2>1. /\ servers' \in BOOLEAN /\ owner' \in UserIds \cup {NoRow} /\ server_members' \in [UserIds -> Perms \cup {NoRow}]
        /\ current_uses' \in 0..MaxUses /\ ConnectedUsers' \in [Objects -> SUBSET UserIds]
        /\ UserToServerIdsCache' \in [UserIds -> {"none", "in", "out"}]
        /\ user' \in [Threads -> UserIds] /\ perm' \in [Threads -> Perms] /\ ids' \in [Threads -> {"in", "out"}]
        /\ online' \subseteq UserIds
    BY <1>1, <1>2 DEF MembershipTypeOK
  <2>2. Members' \in [Objects -> [UserIds -> Perms \cup {NoRow}]]
    BY <1>1, <1>5 DEF MembershipTypeOK
  <2>3. ServersMap' \in 0..objects' /\ objects' \in 0..MaxObjects
    BY <1>2, <1>4, <1>6, <1>10, MembershipAssumption DEF Objects
  <2>4. pc' \in [Threads -> MembershipPlaces]
    BY <1>3 DEF OnlyMoves
  <2> QED BY <1>8, <1>9, <2>1, <2>2, <2>3, <2>4, TypesAre
<1>12. Alone'
  BY <1>2, <1>3, <1>8, AloneStays
<1>13. Creation'
  BY <1>1, <1>2, <1>3, Born, Aware, CreationStays DEF Unaware, ServerSteps
<1>14. ObjectsFresh' /\ Unloaded'
  BY <1>2, <1>3, <1>4, <1>6, <1>7, InvIs DEF ObjectsFresh, Objects, NoMembers, OnlyMoves,
     ObjectSteps, Unloaded
<1>15. ASSUME NEW t \in Threads \ {th}
       PROVE  ThreadInv(t)'
  BY <1>2, <1>3, <1>4, <1>6, <1>7, <1>8, <1>9, <1>10, InvIs, MembershipAssumption, OtherThread DEF
     OnlyMoves, Objects, ThreadInv, Inserting, Actual, Pending, ObjectSteps, Unloaded
<1>16. ThreadInv(th)'
  BY <1>1, <1>2, <1>3, <1>5, <1>6, <1>8, <1>9, InvIs DEF MembershipTypeOK, Inserting, Pending,
     ThreadInv, ObjectSteps
<1>17. ASSUME NEW u \in UserIds \ raced'
       PROVE  UserInv(u)'
  BY <1>1, <1>2, <1>3, <1>7, <1>8, <1>10, UserStays DEF Pending, Between
<1> QED
  BY <1>3, <1>11, <1>12, <1>13, <1>14, <1>15, <1>16, <1>17 DEF OnlyMoves, MembershipInv

LEMMA InsertKeeps ==
  ASSUME MembershipInv, NEW th \in Threads, InsertServer(th)
  PROVE  MembershipInv'
<1>1. MembershipTypeOK /\ pc \in [Threads -> MembershipPlaces] /\ Busy(th) /\ At(th) = "insert"
  BY InvIs, WhereThread DEF InsertServer
<1>2. /\ servers' = servers /\ owner' = owner /\ server_members' = server_members /\ current_uses' = current_uses
      /\ objects' = objects /\ Members' = Members /\ ConnectedUsers' = ConnectedUsers
      /\ UserToServerIdsCache' = UserToServerIdsCache
      /\ user' = user /\ perm' = perm /\ ids' = ids /\ online' = online /\ obj' = obj
  BY DEF InsertServer, db, Locals
<1>3. OnlyMoves(th) /\ Doing(th)' = Doing(th) /\ At(th)' = "get"
  BY <1>1, LoadedNext DEF InsertServer
<1>4. ServersMap' = obj[th] /\ raced' = IF ServersMap = 0 THEN raced ELSE UserIds
  BY DEF InsertServer
<1>5. Inserting(th) /\ obj[th] \in 0..objects
  BY <1>1, InvIs DEF ThreadInv, MembershipTypeOK
<1>6. obj[th] # 0 /\ (ServersMap = 0 => \A u \in UserIds \ raced : Members[obj[th]][u] = server_members[u])
  BY <1>1, <1>5 DEF Inserting
<1>7. raced \subseteq raced' /\ raced' \subseteq UserIds
  BY <1>1, <1>4 DEF MembershipTypeOK
<1>8. \A u \in UserIds \ raced' : ServersMap = 0
  BY <1>4
<1>9. obj[th] \in Objects
  BY <1>1, <1>5, <1>6, MembershipAssumption DEF MembershipTypeOK, Objects
<1>10. ServersMap = 0 => ConnectedUsers[obj[th]] = {}
  BY <1>9, InvIs DEF Unloaded
<1>11. MembershipTypeOK'
  BY <1>1, <1>2, <1>3, <1>4, <1>5, <1>7, TypesAre DEF MembershipTypeOK, OnlyMoves
<1>12. Alone'
  BY <1>2, <1>3, <1>7, AloneStays
<1>13. Creation'
  BY <1>1, <1>2, <1>3, Born, Aware, ServerIsThere, CreationStays DEF Unaware, ServerSteps
<1>14. ObjectsFresh' /\ Unloaded'
  BY <1>2, <1>4, <1>6, InvIs DEF ObjectsFresh, Objects, NoMembers, Unloaded
<1>15. \A t \in Threads : Inserting(t)'
  BY <1>2, <1>3, <1>4, <1>6, InvIs DEF Inserting, OnlyMoves, ThreadInv
<1>16. ASSUME NEW t \in Threads \ {th}
       PROVE  ThreadInv(t)'
  BY <1>2, <1>3, <1>4, <1>7, <1>8, <1>10, <1>15, UserIs, InvIs, OtherThread DEF Actual, Unloaded,
     Pending, ObjectSteps
<1>17. ThreadInv(th)'
  BY <1>1, <1>2, <1>3, <1>7, <1>15, InvIs DEF Pending, ThreadInv, ObjectSteps
<1>18. ASSUME NEW u \in UserIds \ raced'
       PROVE  UserInv(u)'
  BY <1>1, <1>2, <1>3, <1>4, <1>6, <1>7, <1>8, <1>10, InvIs DEF CacheFresh, Between, OnlyMoves,
     UserInv
<1> QED
  BY <1>3, <1>11, <1>12, <1>13, <1>14, <1>16, <1>17, <1>18 DEF OnlyMoves, MembershipInv

(***************************************************************************)
(* The owner's row, and the object of the new server.                      *)
(***************************************************************************)
\* While th creates the server, only it is busy with the owner; the other users have not heard of it.
LEMMA Creator ==
  ASSUME MembershipInv, NEW th \in Threads, Doing(th) = "createServer"
  PROVE  /\ \A t \in Threads : Doing(t) = "createServer" => t = th
         /\ \A t \in Threads : Doing(t) \in {"none", "createServer", "serverIds", "disconnect"}
         /\ \A u \in UserIds \ {user[th]} : Unaware(u)
         /\ \A t \in Threads \ {th} : user[t] = user[th] /\ user[t] \notin raced => Doing(t) = "none"
         /\ \A t \in Threads \ {th} : user[t] \notin raced => At(t) \notin ServerSteps
  BY InvIs, WhereThread, Sole, UserIs DEF Creating, Creation, Conflict, Memberships, ServerSteps,
     ObjectSteps, Unaware

LEMMA OwnerWritten ==
  ASSUME MembershipInv, NEW th \in Threads, UploadOwnerToDB(th), raced' = raced,
         server_members' = [server_members EXCEPT ![user[th]] = AllPermissions]
  PROVE  MembershipInv'
<1>1. /\ MembershipTypeOK /\ pc \in [Threads -> MembershipPlaces] /\ AtStep(th, "uploadOwner") /\ Busy(th)
      /\ At(th) = "uploadOwner" /\ Doing(th) = "createServer"
  BY InvIs, WhereThread, ObjectCalls DEF UploadOwnerToDB
<1>2. /\ servers' = servers /\ owner' = owner /\ current_uses' = current_uses /\ ServersMap' = ServersMap
      /\ objects' = objects /\ Members' = Members /\ ConnectedUsers' = ConnectedUsers
      /\ UserToServerIdsCache' = UserToServerIdsCache
      /\ user' = user /\ perm' = perm /\ ids' = ids /\ online' = online /\ obj' = obj
  BY DEF UploadOwnerToDB, Locals, loaded
<1>3. OnlyMoves(th) /\ Doing(th)' = Doing(th) /\ At(th)' = "get"
  BY <1>1, Took, WhatNext DEF UploadOwnerToDB, Ops
<1>4. /\ server_members' \in [UserIds -> Perms \cup {NoRow}] /\ server_members'[user[th]] = AllPermissions
      /\ \A u \in UserIds \ {user[th]} : server_members'[u] = server_members[u]
  BY <1>1, MembershipAssumption DEF MembershipTypeOK
<1>5. Unborn
  BY <1>1 DEF Unborn
<1>6. ServersMap = 0 /\ Creation
  BY <1>5, InvIs DEF Creation
<1>7. /\ \A t \in Threads : Doing(t) = "createServer" => t = th
      /\ \A t \in Threads : Doing(t) \in {"none", "createServer", "serverIds", "disconnect"}
      /\ \A u \in UserIds \ {user[th]} : Unaware(u)
      /\ \A t \in Threads \ {th} : user[t] = user[th] /\ user[t] \notin raced => Doing(t) = "none"
      /\ \A t \in Threads \ {th} : user[t] \notin raced => At(t) \notin ServerSteps
  BY <1>1, Creator
<1>8. servers
  BY <1>1, ServerIsThere
<1>9. \A t \in Threads : Busy(t)' <=> Busy(t)
  BY <1>1, <1>3, BusyAfter, WhereThread DEF OnlyMoves
<1>10. MembershipTypeOK'
  BY <1>1, <1>2, <1>3, <1>4, TypesAre DEF MembershipTypeOK, OnlyMoves
<1>11. Alone'
  BY <1>2, <1>3, AloneStays
<1>12. Creation'
  BY <1>2, <1>3, <1>4, <1>7, <1>8, <1>9, BusyAfter DEF OnlyMoves, Unborn, Unaware, ServerSteps,
     ObjectSteps, Creation
<1>13. ObjectsFresh' /\ Unloaded'
  BY <1>2, <1>3, ObjectsStay DEF ObjectSteps
<1>14. \A t \in Threads : ThreadInv(t)
  BY InvIs
<1>15. ASSUME NEW t \in Threads \ {th}
       PROVE  ThreadInv(t)'
  <2>1. At(t)' = At(t) /\ Doing(t)' = Doing(t)
    BY <1>3 DEF OnlyMoves
  <2>2. Inserting(t)'
    <3> SUFFICES ASSUME At(t)' = "insert"
                 PROVE  obj'[t] # 0 /\ \A u \in UserIds \ raced : Members'[obj[t]][u] = server_members'[u]
      BY <1>2 DEF Inserting
    <3>1. Inserting(t) /\ Doing(t) # "createServer"
      BY <1>7, <1>14 DEF ThreadInv
    <3>2. At(t) = "insert"
      BY <2>1
    <3>3. Busy(t)
      BY <1>1, <3>2, WhereThread
    <3>4. ~Unaware(user[t])
      BY <3>1, <3>2, <3>3 DEF Unaware, ServerSteps
    <3>5. FALSE
      BY <1>5, <3>4, UserIs, InvIs DEF Creation
    <3> QED BY <3>5
  <2>3. ASSUME user[t] \notin raced'
        PROVE  /\ At(t) \notin ObjectSteps /\ ~Pending(t) /\ Doing(t) # "createServer"
               /\ At(t) \in {"store", "eachServer", "mine"} => Actual(user[t])' = Actual(user[t])
    BY <1>1, <1>2, <1>4, <1>7, <2>3, ObjectCalls, UserIs DEF Actual, Pending, ServerSteps,
       ObjectSteps
  <2> QED BY <1>2, <1>3, <1>6, <2>2, <2>3, OtherThread
<1>16. ThreadInv(th)'
  BY <1>1, <1>2, <1>3, <1>4, <1>14 DEF Inserting, Pending, ThreadInv, ObjectSteps
<1>17. ASSUME NEW u \in UserIds \ raced'
       PROVE  UserInv(u)'
  BY <1>1, <1>2, <1>3, <1>4, <1>6, InvIs DEF Between, CacheFresh, OnlyMoves, UserInv
<1> QED
  BY <1>3, <1>10, <1>11, <1>12, <1>13, <1>15, <1>16, <1>17 DEF OnlyMoves, MembershipInv

LEMMA OwnerKeeps ==
  ASSUME MembershipInv, NEW th \in Threads, UploadOwnerToDB(th)
  PROVE  MembershipInv'
BY OwnerWritten, OwnerNotWritten DEF UploadOwnerToDB

LEMMA PutKeeps ==
  ASSUME MembershipInv, NEW th \in Threads, PutNewServer(th)
  PROVE  MembershipInv'
<1>1. /\ MembershipTypeOK /\ pc \in [Threads -> MembershipPlaces] /\ AtStep(th, "putServer") /\ Busy(th)
      /\ At(th) = "putServer" /\ Doing(th) = "createServer"
  BY InvIs, WhereThread, ObjectCalls DEF PutNewServer
<1>2. /\ servers' = servers /\ owner' = owner /\ current_uses' = current_uses /\ server_members' = server_members
      /\ ConnectedUsers' = ConnectedUsers /\ UserToServerIdsCache' = UserToServerIdsCache
      /\ user' = user /\ perm' = perm /\ ids' = ids /\ online' = online /\ raced' = raced
  BY DEF PutNewServer, Locals, db
<1>3. OnlyMoves(th) /\ Doing(th)' = Doing(th) /\ At(th)' = "invalidate"
  BY <1>1, Took, WhatNext DEF PutNewServer, Ops
<1>4. /\ objects \in Nat /\ objects < MaxObjects /\ MaxObjects \in Nat /\ objects' = objects + 1
      /\ objects' \in Objects /\ objects' \in 0..MaxObjects /\ user[th] \in UserIds
  BY <1>1, MembershipAssumption DEF PutNewServer, MembershipTypeOK, Objects
<1>5. PICK o \in Objects : /\ o = objects' /\ ServersMap' = o /\ obj' = [obj EXCEPT ![th] = o]
                           /\ Members' = [Members EXCEPT ![o] = [Members[o] EXCEPT ![user[th]] = AllPermissions]]
  BY <1>4 DEF PutNewServer
<1>6. Members[o] = NoMembers /\ ConnectedUsers[o] = {} /\ o # 0 /\ o > objects
  BY <1>4, <1>5, InvIs DEF ObjectsFresh
<1>7. /\ Members' \in [Objects -> [UserIds -> Perms \cup {NoRow}]]
      /\ Members'[o][user[th]] = AllPermissions
      /\ \A u \in UserIds \ {user[th]} : Members'[o][u] = NoRow
  BY <1>1, <1>4, <1>5, <1>6, MembershipAssumption DEF MembershipTypeOK, NoMembers
<1>8. /\ \A t \in Threads : Doing(t) = "createServer" => t = th
      /\ \A t \in Threads : Doing(t) \in {"none", "createServer", "serverIds", "disconnect"}
      /\ \A u \in UserIds \ {user[th]} : Unaware(u)
      /\ \A t \in Threads \ {th} : user[t] = user[th] /\ user[t] \notin raced => Doing(t) = "none"
      /\ \A t \in Threads \ {th} : user[t] \notin raced => At(t) \notin ServerSteps
  BY <1>1, Creator
<1>9. \A t \in Threads : ThreadInv(t)
  BY InvIs
<1>10. user[th] \notin raced => server_members[user[th]] = AllPermissions
  BY <1>1, <1>9 DEF ThreadInv
<1>11. \A u \in UserIds \ raced : Members'[o][u] = server_members[u]
  BY <1>7, <1>8, <1>10 DEF Unaware
<1>12. /\ obj' \in [Threads -> 0..objects'] /\ obj'[th] = o /\ \A t \in Threads \ {th} : obj'[t] = obj[t]
       /\ ServersMap' \in 0..objects'
  BY <1>1, <1>4, <1>5, <1>6 DEF MembershipTypeOK
<1>13. MembershipTypeOK'
  BY <1>1, <1>2, <1>3, <1>4, <1>7, <1>12, TypesAre DEF MembershipTypeOK, OnlyMoves
<1>14. Alone'
  BY <1>2, <1>3, AloneStays
<1>15. Creation'
  BY <1>1, <1>2, <1>3, <1>8, ServerIsThere, ObjectCalls, CreationStays DEF Unborn, Unaware
<1>16. ObjectsFresh' /\ Unloaded'
  BY <1>1, <1>2, <1>4, <1>5, <1>6, InvIs DEF Objects, MembershipTypeOK, ObjectsFresh, NoMembers,
     Unloaded
<1>17. ASSUME NEW t \in Threads \ {th}
       PROVE  ThreadInv(t)'
  BY <1>2, <1>3, <1>5, <1>6, <1>8, <1>9, <1>12, OtherThread DEF OnlyMoves, ThreadInv, Inserting,
     Actual, Pending, ServerSteps, ObjectSteps
<1>18. ThreadInv(th)'
  BY <1>1, <1>2, <1>3, <1>9 DEF Inserting, Pending, ThreadInv, ObjectSteps
<1>19. ASSUME NEW u \in UserIds \ raced'
       PROVE  UserInv(u)'
  BY <1>2, <1>3, <1>5, <1>6, <1>11, InvIs DEF CacheFresh, Between, OnlyMoves, UserInv
<1> QED
  BY <1>3, <1>13, <1>14, <1>15, <1>16, <1>17, <1>18, <1>19 DEF OnlyMoves, MembershipInv

(***************************************************************************)
(* The rows of members, and what the object has of them.                   *)
(***************************************************************************)
\* Nobody else writes the user's row, or ends or begins his membership.
LEMMA OnlyWriter ==
  ASSUME MembershipInv, NEW th \in Threads, Doing(th) \in {"joinInvite", "leave", "kick", "permissions"},
         NEW t \in Threads \ {th}, user[t] = user[th], user[t] \notin raced
  PROVE  /\ Doing(t) \notin {"createServer", "joinInvite", "leave", "kick", "permissions"}
         /\ Doing(th) # "permissions" => Doing(t) \notin {"serverIds", "disconnect"}
         /\ ~Pending(t)
  BY InvIs, WhereThread, Sole, ObjectCalls DEF Conflict, Memberships, Pending

\* The object has what the table has when th is about to write the row.
LEMMA ObjectAgrees ==
  ASSUME MembershipInv, NEW th \in Threads, Doing(th) \in {"joinInvite", "leave", "kick", "permissions"}, ~Pending(th),
         user[th] \notin raced, ServersMap # 0
  PROVE  Members[ServersMap][user[th]] = server_members[user[th]]
  BY InvIs, UserIs, OnlyWriter DEF UserInv

RowFor(th) ==
    CASE At(th) = "upload" -> 0
      [] At(th) = "delete" -> NoRow
      [] OTHER -> IF server_members[user[th]] = NoRow THEN NoRow ELSE perm[th]

LEMMA RowKeeps ==
  ASSUME MembershipInv, NEW th \in Threads, AtStep(th, At(th)), At(th) \in {"upload", "delete", "update"}, Advance(th),
         server_members' = [server_members EXCEPT ![user[th]] = RowFor(th)],
         servers' = servers, owner' = owner, current_uses' = current_uses, UNCHANGED loaded,
         UserToServerIdsCache' = UserToServerIdsCache,
         user' = user, perm' = perm, ids' = ids, online' = online, obj' = obj, raced' = raced
  PROVE  MembershipInv'
<1>1. /\ MembershipTypeOK /\ pc \in [Threads -> MembershipPlaces] /\ Busy(th)
      /\ Doing(th) \in {"joinInvite", "leave", "kick", "permissions"}
      /\ At(th) = "upload" => Doing(th) = "joinInvite"
      /\ At(th) = "update" <=> Doing(th) = "permissions"
  BY InvIs, WhereThread, ObjectCalls
<1>2. ServersMap' = ServersMap /\ objects' = objects /\ Members' = Members /\ ConnectedUsers' = ConnectedUsers
  BY DEF loaded
<1>3. /\ OnlyMoves(th) /\ Doing(th)' = Doing(th)
      /\ At(th) = "upload" => At(th)' = "addMember"
      /\ At(th) = "delete" => At(th)' = "removeMember"
      /\ At(th) = "update" => At(th)' = "setPermissions"
  BY <1>1, Took, WhatNext DEF Ops
<1>4. /\ server_members' \in [UserIds -> Perms \cup {NoRow}] /\ server_members'[user[th]] = RowFor(th)
      /\ \A u \in UserIds \ {user[th]} : server_members'[u] = server_members[u]
  BY <1>1, MembershipAssumption DEF RowFor, MembershipTypeOK
<1>5. Doing(th) = "permissions" => (RowFor(th) = NoRow <=> server_members[user[th]] = NoRow)
  BY <1>1, MembershipAssumption DEF MembershipTypeOK, RowFor
<1>6. At(th) \in ObjectSteps /\ ServersMap # 0 /\ ~Pending(th) /\ ~Between(th)
  BY <1>1, InvIs DEF ObjectSteps, Pending, Between, Unloaded
<1>7. \A t \in Threads : ThreadInv(t)
  BY InvIs
<1>8. user[th] \notin raced => obj[th] = ServersMap
  BY <1>6, <1>7 DEF ThreadInv
<1>9. MembershipTypeOK'
  BY <1>1, <1>2, <1>3, <1>4, TypesAre DEF MembershipTypeOK, OnlyMoves
<1>10. Alone' /\ Creation'
  BY <1>1, <1>3, AloneStays, CreationOver
<1>11. ObjectsFresh' /\ Unloaded'
  BY <1>2, <1>3, <1>6, ObjectsStay
<1>12. ASSUME NEW t \in Threads \ {th}
       PROVE  ThreadInv(t)'
  BY <1>1, <1>2, <1>3, <1>4, <1>5, <1>6, <1>7, UserIs, OnlyWriter, ObjectCalls, OtherThread DEF
     OnlyMoves, Inserting, ThreadInv, Actual
<1>13. ThreadInv(th)'
  BY <1>1, <1>2, <1>3, <1>4, <1>6, <1>7, <1>8, ObjectAgrees DEF Inserting, ObjectSteps, HasMember,
     PendingRow, RowFor, ThreadInv
<1>14. ASSUME NEW u \in UserIds \ raced', u # user[th]
       PROVE  UserInv(u)'
  BY <1>2, <1>3, <1>4, <1>14, UserStays DEF CacheFresh
<1>15. ASSUME user[th] \notin raced'
       PROVE  UserInv(user[th])'
  BY <1>1, <1>2, <1>3, <1>4, <1>5, <1>6, <1>7, <1>15, InvIs, UserIs DEF Pending, Between,
     CacheFresh, OnlyMoves, UserInv, ThreadInv, RowFor
<1> QED
  BY <1>3, <1>9, <1>10, <1>11, <1>12, <1>13, <1>14, <1>15, UserIs DEF OnlyMoves, UserInv,
     CacheFresh, MembershipInv

LEMMA StatementKeeps ==
  ASSUME MembershipInv, NEW th \in Threads,
         UploadMemberToDB(th) \/ RemoveMemberFromDB(th) \/ UpdateMemberPermissionsInDB(th)
  PROVE  MembershipInv'
  BY InvIs, WhereThread, ObjectCalls, RowKeeps, SameUses, EndKeeps DEF UploadMemberToDB,
     RemoveMemberFromDB, UpdateMemberPermissionsInDB, RowFor, Statement, Locals, Pending, Between

LEMMA SetKeeps ==
  ASSUME MembershipInv, NEW th \in Threads, Pending(th), AtStep(th, At(th)), SetMember(th, PendingRow(th))
  PROVE  MembershipInv'
<1>1. /\ MembershipTypeOK /\ pc \in [Threads -> MembershipPlaces] /\ Busy(th)
      /\ At(th) \in {"addMember", "removeMember", "setPermissions"}
      /\ Doing(th) \in {"joinInvite", "leave", "kick", "permissions"}
      /\ At(th) = "setPermissions" => Doing(th) = "permissions"
  BY InvIs, WhereThread, ObjectCalls DEF Pending
<1>2. /\ servers' = servers /\ owner' = owner /\ server_members' = server_members /\ current_uses' = current_uses
      /\ ServersMap' = ServersMap /\ objects' = objects /\ ConnectedUsers' = ConnectedUsers
      /\ UserToServerIdsCache' = UserToServerIdsCache
      /\ user' = user /\ perm' = perm /\ ids' = ids /\ online' = online /\ obj' = obj /\ raced' = raced
  BY DEF SetMember, Locals, db
<1>3. /\ OnlyMoves(th) /\ Doing(th)' = Doing(th)
      /\ At(th) \in {"addMember", "removeMember"} => At(th)' = "invalidate"
      /\ At(th) = "setPermissions" => At(th)' = "permissions"
  BY <1>1, Took, WhatNext DEF Ops, SetMember
<1>4. PICK o : o = obj[th]
  OBVIOUS
<1>5. PICK m : m = [Members[o] EXCEPT ![user[th]] = PendingRow(th)]
  OBVIOUS
<1>6. Members' = [Members EXCEPT ![o] = m]
  BY <1>4, <1>5 DEF SetMember
<1>7. Members \in [Objects -> [UserIds -> Perms \cup {NoRow}]] /\ user[th] \in UserIds /\ o \in 0..objects /\ objects \in 0..MaxObjects
  BY <1>1, <1>4 DEF MembershipTypeOK
<1>8. PendingRow(th) \in Perms \cup {NoRow}
  BY <1>1, MembershipAssumption DEF PendingRow, MembershipTypeOK
<1>9. o \in Objects => /\ m \in [UserIds -> Perms \cup {NoRow}] /\ m[user[th]] = PendingRow(th)
                       /\ \A u \in UserIds \ {user[th]} : m[u] = Members[o][u]
  BY <1>5, <1>7, <1>8
<1>10. /\ Members' \in [Objects -> [UserIds -> Perms \cup {NoRow}]]
       /\ \A q \in Objects, u \in UserIds \ {user[th]} : Members'[q][u] = Members[q][u]
       /\ o \in Objects => Members'[o][user[th]] = PendingRow(th)
       /\ \A q \in Objects \ {o} : Members'[q] = Members[q]
  BY <1>6, <1>7, <1>9
<1>11. ServersMap # 0 /\ ServersMap \in Objects
  BY <1>1, <1>7, InvIs, MembershipAssumption DEF ObjectSteps, Unloaded, MembershipTypeOK, Objects
<1>12. \A t \in Threads : ThreadInv(t)
  BY InvIs
<1>13. user[th] \notin raced => o = ServersMap /\ server_members[user[th]] = PendingRow(th)
  BY <1>1, <1>4, <1>12 DEF ObjectSteps, ThreadInv
<1>14. ~Pending(th)' /\ (Between(th) => Between(th)')
  BY <1>1, <1>3 DEF Pending, Between
<1>15. MembershipTypeOK'
  BY <1>1, <1>2, <1>3, <1>10, TypesAre DEF MembershipTypeOK, OnlyMoves
<1>16. Alone' /\ Creation'
  BY <1>1, <1>2, <1>3, AloneStays, CreationOver
<1>17. ObjectsFresh' /\ Unloaded'
  BY <1>2, <1>7, <1>10, <1>11, MembershipAssumption, InvIs DEF Objects, ObjectsFresh, Unloaded,
     NoMembers
<1>18. ASSUME NEW t \in Threads \ {th}
       PROVE  ThreadInv(t)'
  BY <1>1, <1>2, <1>3, <1>10, <1>11, <1>12, OnlyWriter, UserIs, OtherThread DEF OnlyMoves,
     Inserting, ThreadInv, Pending, ObjectSteps, Actual
<1>19. ThreadInv(th)'
  BY <1>1, <1>2, <1>3, <1>12, <1>14 DEF Inserting, ObjectSteps, ThreadInv
<1>20. ASSUME NEW u \in UserIds \ raced'
       PROVE  UserInv(u)'
  BY <1>1, <1>2, <1>3, <1>10, <1>11, <1>13, <1>14, InvIs, UserStays DEF CacheFresh, Between,
     OnlyMoves, UserInv
<1> QED
  BY <1>3, <1>15, <1>16, <1>17, <1>18, <1>19, <1>20 DEF OnlyMoves, MembershipInv

LEMMA MemberSetKeeps ==
  ASSUME MembershipInv, NEW th \in Threads, AddMember(th) \/ RemoveMember(th) \/ UpdateMemberPermissions(th)
  PROVE  MembershipInv'
  BY InvIs, WhereThread, SetKeeps DEF AddMember, Pending, PendingRow, RemoveMember,
     UpdateMemberPermissions

(***************************************************************************)
(* The voice channel.                                                      *)
(***************************************************************************)
LEMMA VoiceKeeps ==
  ASSUME MembershipInv, NEW th \in Threads, At(th) \in {"pushVoice", "eraseVoice"}, AtStep(th, At(th)),
         NEW connected, SetVoice(th, connected),
         connected = IF At(th) = "pushVoice" THEN ConnectedUsers[obj[th]] \cup {user[th]} ELSE ConnectedUsers[obj[th]] \ {user[th]}
  PROVE  MembershipInv'
<1>1. /\ MembershipTypeOK /\ pc \in [Threads -> MembershipPlaces] /\ Busy(th)
      /\ Doing(th) \in {"joinVoice", "kick", "leaveVoice", "disconnect"}
      /\ At(th) = "pushVoice" => Doing(th) = "joinVoice"
  BY InvIs, WhereThread, ObjectCalls
<1>2. /\ servers' = servers /\ owner' = owner /\ server_members' = server_members /\ current_uses' = current_uses
      /\ ServersMap' = ServersMap /\ objects' = objects /\ Members' = Members
      /\ UserToServerIdsCache' = UserToServerIdsCache
      /\ user' = user /\ perm' = perm /\ ids' = ids /\ online' = online /\ obj' = obj /\ raced' = raced
  BY DEF SetVoice, Locals, db
<1>3. OnlyMoves(th) /\ Doing(th)' = Doing(th) /\ At(th)' \in {"joinVoice", "kick", "leaveVoice", "disconnect"}
  BY <1>1, Took, WhatFor, WhatNext DEF Ops, SetVoice
<1>4. PICK o : o = obj[th]
  OBVIOUS
<1>5. ConnectedUsers' = [ConnectedUsers EXCEPT ![o] = connected]
  BY <1>4 DEF SetVoice
<1>6. ConnectedUsers \in [Objects -> SUBSET UserIds] /\ user[th] \in UserIds /\ o \in 0..objects /\ objects \in 0..MaxObjects
  BY <1>1, <1>4 DEF MembershipTypeOK
<1>7. /\ ConnectedUsers' \in [Objects -> SUBSET UserIds]
      /\ \A q \in Objects, u \in UserIds \ {user[th]} : u \in ConnectedUsers'[q] <=> u \in ConnectedUsers[q]
      /\ At(th) = "eraseVoice" => \A q \in Objects : ConnectedUsers'[q] \subseteq ConnectedUsers[q]
      /\ o \in Objects /\ At(th) = "eraseVoice" => user[th] \notin ConnectedUsers'[o]
      /\ \A q \in Objects \ {o} : ConnectedUsers'[q] = ConnectedUsers[q]
  BY <1>4, <1>5, <1>6
<1>8. At(th) \in ObjectSteps /\ ~Pending(th) /\ ~Pending(th)' /\ ~Between(th)
  BY <1>1, <1>3 DEF ObjectSteps, Pending, Between
<1>9. ServersMap # 0 /\ ServersMap \in Objects
  BY <1>1, <1>6, <1>8, InvIs, MembershipAssumption DEF Unloaded, MembershipTypeOK, Objects
<1>10. \A t \in Threads : ThreadInv(t)
  BY InvIs
<1>11. user[th] \notin raced => o = ServersMap
  BY <1>4, <1>8, <1>10 DEF ThreadInv
<1>12. MembershipTypeOK'
  BY <1>1, <1>2, <1>3, <1>7, TypesAre DEF MembershipTypeOK, OnlyMoves
<1>13. Alone'
  BY <1>2, <1>3, AloneStays
<1>14. Creation'
  BY <1>1, <1>2, <1>3, <1>8, Aware, InvIs, CreationStays, CreationOver DEF ServerSteps, Creation,
     Unaware
<1>15. ObjectsFresh' /\ Unloaded'
  BY <1>2, <1>6, <1>7, <1>9, MembershipAssumption, InvIs DEF Objects, ObjectsFresh, Unloaded,
     NoMembers
<1>16. ASSUME NEW t \in Threads \ {th}
       PROVE  ThreadInv(t)'
  BY <1>1, <1>2, <1>3, <1>7, <1>9, <1>10, UserIs, WhereThread, Sole, OtherThread DEF OnlyMoves,
     Inserting, ThreadInv, Actual, Conflict
<1>17. ThreadInv(th)'
  BY <1>2, <1>3, <1>8, <1>10 DEF Inserting, ObjectSteps, ThreadInv
<1>18. ASSUME NEW u \in UserIds \ raced'
       PROVE  UserInv(u)'
  BY <1>1, <1>2, <1>3, <1>7, <1>8, <1>9, <1>10, <1>11, InvIs, UserStays DEF CacheFresh, Pending,
     OnlyMoves, Between, UserInv, ThreadInv
<1> QED
  BY <1>3, <1>12, <1>13, <1>14, <1>15, <1>16, <1>17, <1>18 DEF OnlyMoves, MembershipInv

LEMMA VoiceStepsKeep ==
  ASSUME MembershipInv, NEW th \in Threads, JoinVoiceChannel(th) \/ LeaveVoiceChannel(th)
  PROVE  MembershipInv'
  BY InvIs, WhereThread, VoiceKeeps DEF JoinVoiceChannel, LeaveVoiceChannel

(***************************************************************************)
(* Calls begin.                                                            *)
(***************************************************************************)
FirstPlace(call) ==
    CASE call = "createServer" -> C1
      [] call = "joinInvite" -> J1
      [] call = "leave" -> L1
      [] call = "kick" -> K1
      [] call = "permissions" -> P1
      [] call = "serverIds" -> I1
      [] call = "joinVoice" -> V1
      [] call = "leaveVoice" -> W1
      [] call = "disconnect" -> D1

LEMMA KickBegins == <<"get", "isMember">> \o <<"get", "delete", "removeMember", "invalidate">> =
    <<"get", "isMember", "get", "delete", "removeMember", "invalidate">>
<1>1. PICK s, t, r : s = <<"get", "isMember">> /\ t = <<"get", "delete", "removeMember", "invalidate">> /\ r = <<"get", "isMember", "get", "delete", "removeMember", "invalidate">>
  OBVIOUS
<1>2. s \in Seq(StepNames)
  BY <1>1 DEF StepNames
<1>3. t \in Seq(StepNames)
  BY <1>1 DEF StepNames
<1>4. r \in Seq(StepNames)
  BY <1>1 DEF StepNames
<1>5. Len(s) = 2 /\ Len(t) = 4 /\ Len(r) = 6
  BY <1>1
<1>6. \A i \in 1..2 : r[i] = s[i]
  BY <1>1
<1>7. \A i \in 1..4 : r[2 + i] = t[i]
  BY <1>1
<1>8. /\ Len(r) = Len(s) + Len(t) /\ \A i \in 1..Len(s) : r[i] = s[i]
      /\ \A i \in 1..Len(t) : r[Len(s) + i] = t[i]
  BY <1>5, <1>6, <1>7
<1>9. s \o t = r
  BY <1>2, <1>3, <1>4, <1>8, Concatenated, Zenon
<1> QED BY <1>1, <1>9

LEMMA KickEnds == <<"get", "isMember", "get", "delete", "removeMember", "invalidate">> \o <<"get", "eraseVoice">> =
    <<"get", "isMember", "get", "delete", "removeMember", "invalidate", "get", "eraseVoice">>
<1>1. PICK s, t, r : s = <<"get", "isMember", "get", "delete", "removeMember", "invalidate">> /\ t = <<"get", "eraseVoice">> /\ r = <<"get", "isMember", "get", "delete", "removeMember", "invalidate", "get", "eraseVoice">>
  OBVIOUS
<1>2. s \in Seq(StepNames)
  BY <1>1 DEF StepNames
<1>3. t \in Seq(StepNames)
  BY <1>1 DEF StepNames
<1>4. r \in Seq(StepNames)
  BY <1>1 DEF StepNames
<1>5. Len(s) = 6 /\ Len(t) = 2 /\ Len(r) = 8
  BY <1>1
<1>6. \A i \in 1..6 : r[i] = s[i]
  BY <1>1
<1>7. \A i \in 1..2 : r[6 + i] = t[i]
  BY <1>1
<1>8. /\ Len(r) = Len(s) + Len(t) /\ \A i \in 1..Len(s) : r[i] = s[i]
      /\ \A i \in 1..Len(t) : r[Len(s) + i] = t[i]
  BY <1>5, <1>6, <1>7
<1>9. s \o t = r
  BY <1>2, <1>3, <1>4, <1>8, Concatenated, Zenon
<1> QED BY <1>1, <1>9

LEMMA IdsBegin == <<"readCache", "select", "store">> \o <<"eachServer">> =
    <<"readCache", "select", "store", "eachServer">>
<1>1. PICK s, t, r : s = <<"readCache", "select", "store">> /\ t = <<"eachServer">> /\ r = <<"readCache", "select", "store", "eachServer">>
  OBVIOUS
<1>2. s \in Seq(StepNames)
  BY <1>1 DEF StepNames
<1>3. t \in Seq(StepNames)
  BY <1>1 DEF StepNames
<1>4. r \in Seq(StepNames)
  BY <1>1 DEF StepNames
<1>5. Len(s) = 3 /\ Len(t) = 1 /\ Len(r) = 4
  BY <1>1
<1>6. \A i \in 1..3 : r[i] = s[i]
  BY <1>1
<1>7. \A i \in 1..1 : r[3 + i] = t[i]
  BY <1>1
<1>8. /\ Len(r) = Len(s) + Len(t) /\ \A i \in 1..Len(s) : r[i] = s[i]
      /\ \A i \in 1..Len(t) : r[Len(s) + i] = t[i]
  BY <1>5, <1>6, <1>7
<1>9. s \o t = r
  BY <1>2, <1>3, <1>4, <1>8, Concatenated, Zenon
<1> QED BY <1>1, <1>9

LEMMA DisconnectBegins == <<"readCache", "select", "store", "eachServer">> \o <<"readCache", "select", "store">> =
    <<"readCache", "select", "store", "eachServer", "readCache", "select", "store">>
<1>1. PICK s, t, r : s = <<"readCache", "select", "store", "eachServer">> /\ t = <<"readCache", "select", "store">> /\ r = <<"readCache", "select", "store", "eachServer", "readCache", "select", "store">>
  OBVIOUS
<1>2. s \in Seq(StepNames)
  BY <1>1 DEF StepNames
<1>3. t \in Seq(StepNames)
  BY <1>1 DEF StepNames
<1>4. r \in Seq(StepNames)
  BY <1>1 DEF StepNames
<1>5. Len(s) = 4 /\ Len(t) = 3 /\ Len(r) = 7
  BY <1>1
<1>6. \A i \in 1..4 : r[i] = s[i]
  BY <1>1
<1>7. \A i \in 1..3 : r[4 + i] = t[i]
  BY <1>1
<1>8. /\ Len(r) = Len(s) + Len(t) /\ \A i \in 1..Len(s) : r[i] = s[i]
      /\ \A i \in 1..Len(t) : r[Len(s) + i] = t[i]
  BY <1>5, <1>6, <1>7
<1>9. s \o t = r
  BY <1>2, <1>3, <1>4, <1>8, Concatenated, Zenon
<1> QED BY <1>1, <1>9

LEMMA DisconnectEnds == <<"readCache", "select", "store", "eachServer", "readCache", "select", "store">> \o <<"mine", "get", "inVoice", "get", "eraseVoice">> =
    <<"readCache", "select", "store", "eachServer", "readCache", "select", "store", "mine", "get", "inVoice", "get", "eraseVoice">>
<1>1. PICK s, t, r : s = <<"readCache", "select", "store", "eachServer", "readCache", "select", "store">> /\ t = <<"mine", "get", "inVoice", "get", "eraseVoice">> /\ r = <<"readCache", "select", "store", "eachServer", "readCache", "select", "store", "mine", "get", "inVoice", "get", "eraseVoice">>
  OBVIOUS
<1>2. s \in Seq(StepNames)
  BY <1>1 DEF StepNames
<1>3. t \in Seq(StepNames)
  BY <1>1 DEF StepNames
<1>4. r \in Seq(StepNames)
  BY <1>1 DEF StepNames
<1>5. Len(s) = 7 /\ Len(t) = 5 /\ Len(r) = 12
  BY <1>1
<1>6. \A i \in 1..7 : r[i] = s[i]
  BY <1>1
<1>7. \A i \in 1..5 : r[7 + i] = t[i]
  BY <1>1
<1>8. /\ Len(r) = Len(s) + Len(t) /\ \A i \in 1..Len(s) : r[i] = s[i]
      /\ \A i \in 1..Len(t) : r[Len(s) + i] = t[i]
  BY <1>5, <1>6, <1>7
<1>9. s \o t = r
  BY <1>2, <1>3, <1>4, <1>8, Concatenated, Zenon
<1> QED BY <1>1, <1>9

LEMMA CallsBegin ==
  ASSUME NEW call \in Ops
  PROVE  Append(Steps(call), call) = FirstPlace(call)
<1>1. CASE call = "createServer"
  <2>1. PICK s, r : s = Steps(call) /\ r = C1
    OBVIOUS
  <2>2. s = <<"insertServer", "uploadOwner", "get", "get", "putServer", "invalidate">>
    BY <1>1, <2>1, Zenon DEF Steps, AddServer
  <2>3. s \in Seq(StepNames)
    BY <2>2 DEF StepNames
  <2>4. r \in Seq(StepNames)
    BY <2>1 DEF C1, StepNames, Ops
  <2>5. Len(s) = 6 /\ Len(r) = 7 /\ r[7] = call /\ call \in StepNames
    BY <1>1, <2>1, <2>2 DEF C1, StepNames
  <2>6. \A i \in 1..6 : r[i] = s[i]
    BY <2>1, <2>2 DEF C1
  <2>7. Len(r) = Len(s) + 1 /\ r[Len(r)] = call /\ \A i \in 1..Len(s) : r[i] = s[i]
    BY <2>5, <2>6
  <2>8. Append(s, call) = r
    BY <2>3, <2>4, <2>5, <2>7, AppendIs, ZenonT(60)
  <2>9. FirstPlace(call) = C1
    BY <1>1, Zenon DEF FirstPlace
  <2> QED BY <2>1, <2>8, <2>9
<1>2. CASE call = "joinInvite"
  <2>1. PICK s, r : s = Steps(call) /\ r = J1
    OBVIOUS
  <2>2. s = <<"consume", "get", "notMember", "upload", "addMember", "invalidate">>
    BY <1>2, <2>1, Zenon DEF Steps
  <2>3. s \in Seq(StepNames)
    BY <2>2 DEF StepNames
  <2>4. r \in Seq(StepNames)
    BY <2>1 DEF J1, StepNames, Ops
  <2>5. Len(s) = 6 /\ Len(r) = 7 /\ r[7] = call /\ call \in StepNames
    BY <1>2, <2>1, <2>2 DEF J1, StepNames
  <2>6. \A i \in 1..6 : r[i] = s[i]
    BY <2>1, <2>2 DEF J1
  <2>7. Len(r) = Len(s) + 1 /\ r[Len(r)] = call /\ \A i \in 1..Len(s) : r[i] = s[i]
    BY <2>5, <2>6
  <2>8. Append(s, call) = r
    BY <2>3, <2>4, <2>5, <2>7, AppendIs, ZenonT(60)
  <2>9. FirstPlace(call) = J1
    BY <1>2, Zenon DEF FirstPlace
  <2> QED BY <2>1, <2>8, <2>9
<1>3. CASE call = "leave"
  <2>1. PICK s, r : s = Steps(call) /\ r = L1
    OBVIOUS
  <2>2. s = <<"get", "delete", "removeMember", "invalidate">>
    BY <1>3, <2>1, Zenon DEF Steps, RemoveUserFromServer
  <2>3. s \in Seq(StepNames)
    BY <2>2 DEF StepNames
  <2>4. r \in Seq(StepNames)
    BY <2>1 DEF L1, StepNames, Ops
  <2>5. Len(s) = 4 /\ Len(r) = 5 /\ r[5] = call /\ call \in StepNames
    BY <1>3, <2>1, <2>2 DEF L1, StepNames
  <2>6. \A i \in 1..4 : r[i] = s[i]
    BY <2>1, <2>2 DEF L1
  <2>7. Len(r) = Len(s) + 1 /\ r[Len(r)] = call /\ \A i \in 1..Len(s) : r[i] = s[i]
    BY <2>5, <2>6
  <2>8. Append(s, call) = r
    BY <2>3, <2>4, <2>5, <2>7, AppendIs, ZenonT(60)
  <2>9. FirstPlace(call) = L1
    BY <1>3, Zenon DEF FirstPlace
  <2> QED BY <2>1, <2>8, <2>9
<1>4. CASE call = "kick"
  <2>1. PICK s, r : s = Steps(call) /\ r = K1
    OBVIOUS
  <2>2. s = <<"get", "isMember", "get", "delete", "removeMember", "invalidate", "get", "eraseVoice">>
    BY <1>4, <2>1, KickBegins, KickEnds, Zenon DEF Steps, RemoveUserFromServer
  <2>3. s \in Seq(StepNames)
    BY <2>2 DEF StepNames
  <2>4. r \in Seq(StepNames)
    BY <2>1 DEF K1, StepNames, Ops
  <2>5. Len(s) = 8 /\ Len(r) = 9 /\ r[9] = call /\ call \in StepNames
    BY <1>4, <2>1, <2>2 DEF K1, StepNames
  <2>6. \A i \in 1..8 : r[i] = s[i]
    BY <2>1, <2>2 DEF K1
  <2>7. Len(r) = Len(s) + 1 /\ r[Len(r)] = call /\ \A i \in 1..Len(s) : r[i] = s[i]
    BY <2>5, <2>6
  <2>8. Append(s, call) = r
    BY <2>3, <2>4, <2>5, <2>7, AppendIs, ZenonT(60)
  <2>9. FirstPlace(call) = K1
    BY <1>4, Zenon DEF FirstPlace
  <2> QED BY <2>1, <2>8, <2>9
<1>5. CASE call = "permissions"
  <2>1. PICK s, r : s = Steps(call) /\ r = P1
    OBVIOUS
  <2>2. s = <<"get", "isMember", "get", "isMember", "update", "setPermissions">>
    BY <1>5, <2>1, Zenon DEF Steps
  <2>3. s \in Seq(StepNames)
    BY <2>2 DEF StepNames
  <2>4. r \in Seq(StepNames)
    BY <2>1 DEF P1, StepNames, Ops
  <2>5. Len(s) = 6 /\ Len(r) = 7 /\ r[7] = call /\ call \in StepNames
    BY <1>5, <2>1, <2>2 DEF P1, StepNames
  <2>6. \A i \in 1..6 : r[i] = s[i]
    BY <2>1, <2>2 DEF P1
  <2>7. Len(r) = Len(s) + 1 /\ r[Len(r)] = call /\ \A i \in 1..Len(s) : r[i] = s[i]
    BY <2>5, <2>6
  <2>8. Append(s, call) = r
    BY <2>3, <2>4, <2>5, <2>7, AppendIs, ZenonT(60)
  <2>9. FirstPlace(call) = P1
    BY <1>5, Zenon DEF FirstPlace
  <2> QED BY <2>1, <2>8, <2>9
<1>6. CASE call = "serverIds"
  <2>1. PICK s, r : s = Steps(call) /\ r = I1
    OBVIOUS
  <2>2. s = <<"readCache", "select", "store", "eachServer">>
    BY <1>6, <2>1, IdsBegin, Zenon DEF Steps, GetUserServerIds
  <2>3. s \in Seq(StepNames)
    BY <2>2 DEF StepNames
  <2>4. r \in Seq(StepNames)
    BY <2>1 DEF I1, StepNames, Ops
  <2>5. Len(s) = 4 /\ Len(r) = 5 /\ r[5] = call /\ call \in StepNames
    BY <1>6, <2>1, <2>2 DEF I1, StepNames
  <2>6. \A i \in 1..4 : r[i] = s[i]
    BY <2>1, <2>2 DEF I1
  <2>7. Len(r) = Len(s) + 1 /\ r[Len(r)] = call /\ \A i \in 1..Len(s) : r[i] = s[i]
    BY <2>5, <2>6
  <2>8. Append(s, call) = r
    BY <2>3, <2>4, <2>5, <2>7, AppendIs, ZenonT(60)
  <2>9. FirstPlace(call) = I1
    BY <1>6, Zenon DEF FirstPlace
  <2> QED BY <2>1, <2>8, <2>9
<1>7. CASE call = "joinVoice"
  <2>1. PICK s, r : s = Steps(call) /\ r = V1
    OBVIOUS
  <2>2. s = <<"get", "isMember", "get", "pushVoice">>
    BY <1>7, <2>1, Zenon DEF Steps
  <2>3. s \in Seq(StepNames)
    BY <2>2 DEF StepNames
  <2>4. r \in Seq(StepNames)
    BY <2>1 DEF V1, StepNames, Ops
  <2>5. Len(s) = 4 /\ Len(r) = 5 /\ r[5] = call /\ call \in StepNames
    BY <1>7, <2>1, <2>2 DEF V1, StepNames
  <2>6. \A i \in 1..4 : r[i] = s[i]
    BY <2>1, <2>2 DEF V1
  <2>7. Len(r) = Len(s) + 1 /\ r[Len(r)] = call /\ \A i \in 1..Len(s) : r[i] = s[i]
    BY <2>5, <2>6
  <2>8. Append(s, call) = r
    BY <2>3, <2>4, <2>5, <2>7, AppendIs, ZenonT(60)
  <2>9. FirstPlace(call) = V1
    BY <1>7, Zenon DEF FirstPlace
  <2> QED BY <2>1, <2>8, <2>9
<1>8. CASE call = "leaveVoice"
  <2>1. PICK s, r : s = Steps(call) /\ r = W1
    OBVIOUS
  <2>2. s = <<"get", "eraseVoice">>
    BY <1>8, <2>1, Zenon DEF Steps
  <2>3. s \in Seq(StepNames)
    BY <2>2 DEF StepNames
  <2>4. r \in Seq(StepNames)
    BY <2>1 DEF W1, StepNames, Ops
  <2>5. Len(s) = 2 /\ Len(r) = 3 /\ r[3] = call /\ call \in StepNames
    BY <1>8, <2>1, <2>2 DEF W1, StepNames
  <2>6. \A i \in 1..2 : r[i] = s[i]
    BY <2>1, <2>2 DEF W1
  <2>7. Len(r) = Len(s) + 1 /\ r[Len(r)] = call /\ \A i \in 1..Len(s) : r[i] = s[i]
    BY <2>5, <2>6
  <2>8. Append(s, call) = r
    BY <2>3, <2>4, <2>5, <2>7, AppendIs, ZenonT(60)
  <2>9. FirstPlace(call) = W1
    BY <1>8, Zenon DEF FirstPlace
  <2> QED BY <2>1, <2>8, <2>9
<1>9. CASE call = "disconnect"
  <2>1. PICK s, r : s = Steps(call) /\ r = D1
    OBVIOUS
  <2>2. s = <<"readCache", "select", "store", "eachServer", "readCache", "select", "store", "mine", "get", "inVoice", "get", "eraseVoice">>
    BY <1>9, <2>1, IdsBegin, DisconnectBegins, DisconnectEnds, Zenon DEF Steps, GetUserServerIds
  <2>3. s \in Seq(StepNames)
    BY <2>2 DEF StepNames
  <2>4. r \in Seq(StepNames)
    BY <2>1 DEF D1, StepNames, Ops
  <2>5. Len(s) = 12 /\ Len(r) = 13 /\ r[13] = call /\ call \in StepNames
    BY <1>9, <2>1, <2>2 DEF D1, StepNames
  <2>6. \A i \in 1..12 : r[i] = s[i]
    BY <2>1, <2>2 DEF D1
  <2>7. Len(r) = Len(s) + 1 /\ r[Len(r)] = call /\ \A i \in 1..Len(s) : r[i] = s[i]
    BY <2>5, <2>6
  <2>8. Append(s, call) = r
    BY <2>3, <2>4, <2>5, <2>7, AppendIs, ZenonT(60)
  <2>9. FirstPlace(call) = D1
    BY <1>9, Zenon DEF FirstPlace
  <2> QED BY <2>1, <2>8, <2>9
<1> QED BY <1>1, <1>2, <1>3, <1>4, <1>5, <1>6, <1>7, <1>8, <1>9 DEF Ops

LEMMA Begins ==
  ASSUME pc \in [Threads -> MembershipPlaces], NEW th \in Threads, NEW call \in Ops, Enter(th, Steps(call), call)
  PROVE  /\ OnlyMoves(th) /\ Doing(th) = "none" /\ At(th) = "idle" /\ Doing(th)' = call
         /\ At(th)' \in {"insertServer", "consume", "get", "readCache"}
         /\ At(th)' = "insertServer" <=> call = "createServer"
         /\ At(th)' = "readCache" <=> call \in {"serverIds", "disconnect"}
<1>1. PICK p : p = FirstPlace(call)
  OBVIOUS
<1>2. /\ p \in CallPlaces /\ CallOf(p) = call
      /\ Step(p) \in {"insertServer", "consume", "get", "readCache"}
      /\ Step(p) = "insertServer" <=> call = "createServer"
      /\ Step(p) = "readCache" <=> call \in {"serverIds", "disconnect"}
  <2>1. CASE call = "createServer"
    BY <1>1, <2>1, CreatePlacesAre DEF FirstPlace, CallPlaces, CreatePlaces
  <2>2. CASE call = "joinInvite"
    BY <1>1, <2>2, JoinPlacesAre DEF FirstPlace, CallPlaces, JoinPlaces
  <2>3. CASE call = "leave"
    BY <1>1, <2>3, LeavePlacesAre DEF FirstPlace, CallPlaces, LeavePlaces
  <2>4. CASE call = "kick"
    BY <1>1, <2>4, KickPlacesAre DEF FirstPlace, CallPlaces, KickPlaces
  <2>5. CASE call = "permissions"
    BY <1>1, <2>5, PermissionPlacesAre DEF FirstPlace, CallPlaces, PermissionPlaces
  <2>6. CASE call = "serverIds"
    BY <1>1, <2>6, IdsPlacesAre DEF FirstPlace, CallPlaces, IdsPlaces
  <2>7. CASE call = "joinVoice"
    BY <1>1, <2>7, VoicePlacesAre DEF FirstPlace, CallPlaces, VoicePlaces
  <2>8. CASE call = "leaveVoice"
    BY <1>1, <2>8, LeaveVoicePlacesAre DEF FirstPlace, CallPlaces, LeaveVoicePlaces
  <2>9. CASE call = "disconnect"
    BY <1>1, <2>9, DisconnectPlacesAre DEF FirstPlace, CallPlaces, DisconnectPlaces
  <2> QED BY <2>1, <2>2, <2>3, <2>4, <2>5, <2>6, <2>7, <2>8, <2>9 DEF Ops
<1>3. pc' = [pc EXCEPT ![th] = p]
  BY <1>1, CallsBegin DEF Enter
<1>4. p \in MembershipPlaces
  BY <1>2 DEF MembershipPlaces
<1>5. OnlyMoves(th) /\ At(th)' = Step(p) /\ Doing(th)' = CallOf(p)
  BY <1>3, <1>4, MovedTo
<1>6. At(th) = "idle" /\ Doing(th) = "none"
  BY WhereThread DEF Enter
<1> QED BY <1>2, <1>5, <1>6

LEMMA CallKeeps ==
  ASSUME MembershipInv, NEW th \in Threads, NEW call \in Ops, NEW u \in UserIds, NEW p \in Perms, Call(th, call, u, p)
  PROVE  MembershipInv'
<1>1. /\ MembershipTypeOK /\ pc \in [Threads -> MembershipPlaces] /\ Alone /\ Creation
      /\ \A t \in Threads : ThreadInv(t)
  BY InvIs
<1>2. /\ servers' = servers /\ owner' = owner /\ server_members' = server_members /\ current_uses' = current_uses
      /\ ServersMap' = ServersMap /\ objects' = objects /\ Members' = Members /\ ConnectedUsers' = ConnectedUsers
      /\ UserToServerIdsCache' = UserToServerIdsCache
  BY DEF Call, db, loaded
<1>3. /\ OnlyMoves(th) /\ Doing(th) = "none" /\ At(th) = "idle" /\ Doing(th)' = call
      /\ At(th)' \in {"insertServer", "consume", "get", "readCache"}
      /\ At(th)' = "insertServer" <=> call = "createServer"
      /\ At(th)' = "readCache" <=> call \in {"serverIds", "disconnect"}
  BY <1>1, Begins DEF Call
<1>4. /\ user' \in [Threads -> UserIds] /\ user'[th] = u /\ \A t \in Threads \ {th} : user'[t] = user[t]
      /\ perm' \in [Threads -> Perms] /\ \A t \in Threads \ {th} : perm'[t] = perm[t]
      /\ obj' \in [Threads -> 0..objects] /\ \A t \in Threads \ {th} : obj'[t] = obj[t]
      /\ ids' \in [Threads -> {"in", "out"}] /\ ids'[th] = "out" /\ \A t \in Threads \ {th} : ids'[t] = ids[t]
  BY <1>1, MembershipAssumption DEF Call, MembershipTypeOK
<1>5. /\ online' \subseteq UserIds /\ online' \subseteq online /\ \A v \in UserIds \ {u} : v \in online => v \in online'
      /\ call = "disconnect" => u \notin online'
      /\ call # "disconnect" => online' = online
      /\ call \in {"createServer", "joinInvite", "joinVoice"} => u \in online
  BY <1>1 DEF Call, MembershipTypeOK, OwnCalls
<1>6. raced \subseteq raced' /\ raced' \subseteq UserIds /\ (u \notin raced' => ~Conflicts(call, u))
  BY <1>1 DEF Call, MembershipTypeOK
<1>7. \A t \in Threads \ {th} : At(t)' = At(t) /\ Doing(t)' = Doing(t)
  BY <1>3 DEF OnlyMoves
<1>8. \A t \in Threads \ {th} : Busy(t)' <=> Busy(t)
  BY <1>1, <1>3, <1>7, BusyAfter, WhereThread
<1>9. ASSUME u \notin raced', NEW t \in Threads, Busy(t), user[t] = u
      PROVE  ~Conflict(call, Doing(t)) /\ ~Conflict(Doing(t), call)
  BY <1>1, <1>6, <1>9, WhereThread DEF Conflicts, Conflict
<1>10. CanCall(call, u)
  BY DEF Call
<1>11. ~servers \/ Creating => call \in {"createServer", "serverIds", "disconnect"}
  BY <1>10 DEF CanCall
<1>12. call = "createServer" => /\ ~servers /\ Unborn
                                /\ \A t \in Threads : Doing(t) # "createServer"
  BY <1>1, <1>10, WhereThread DEF CanCall, Unborn, Creating
<1>13. MembershipTypeOK'
  BY <1>1, <1>2, <1>3, <1>4, <1>5, <1>6, TypesAre DEF MembershipTypeOK, OnlyMoves
<1>14. Alone'
  <2> SUFFICES ASSUME NEW a \in Threads, NEW b \in Threads, a # b, Busy(a)', Busy(b)', user'[a] = user'[b], user'[a] \notin raced'
               PROVE  ~Conflict(Doing(a)', Doing(b)')
    BY Zenon DEF Alone, Conflict, Memberships
  <2>1. CASE a = th
    BY <1>3, <1>4, <1>7, <1>8, <1>9, <2>1
  <2>2. CASE b = th
    BY <1>3, <1>4, <1>7, <1>8, <1>9, <2>2
  <2>3. CASE a # th /\ b # th
    BY <1>1, <1>4, <1>6, <1>7, <1>8, <2>3 DEF Alone
  <2> QED BY <2>1, <2>2, <2>3
<1>15. ASSUME NEW v \in UserIds, Unaware(v), ~servers \/ Creating
       PROVE  Unaware(v)'
  BY <1>2, <1>3, <1>4, <1>7, <1>8, <1>11, <1>15 DEF ServerSteps, ObjectSteps, Unaware
<1>16. Creation'
  BY <1>1, <1>2, <1>3, <1>4, <1>7, <1>11, <1>12, <1>15, BusyAfter, WhereThread, ObjectCalls DEF
     Creation, Creating, Unborn
<1>17. ObjectsFresh' /\ Unloaded'
  BY <1>2, <1>3, ObjectsStay DEF ObjectSteps
<1>18. ASSUME NEW t \in Threads \ {th}
       PROVE  ThreadInv(t)'
  BY <1>1, <1>2, <1>4, <1>5, <1>6, <1>7, <1>9, UserIs, WhereThread DEF ThreadInv, Inserting,
     Pending, HasMember, PendingRow, Actual, Conflict, Memberships, ObjectSteps
<1>19. ThreadInv(th)'
  BY <1>3, <1>4, <1>5 DEF Inserting, ObjectSteps, Pending, ThreadInv
<1>20. ASSUME NEW v \in UserIds \ raced'
       PROVE  UserInv(v)'
  BY <1>2, <1>3, <1>4, <1>5, <1>6, <1>7, <1>20, InvIs DEF Pending, Between, UserInv, CacheFresh
<1> QED
  BY <1>3, <1>13, <1>14, <1>16, <1>17, <1>18, <1>19, <1>20 DEF OnlyMoves, MembershipInv

\* A socket opens, or nothing happens.
LEMMA ConnectKeeps ==
  ASSUME MembershipInv, UNCHANGED <<db, loaded, UserToServerIdsCache, memberCalls>>,
         raced \subseteq raced', raced' \subseteq UserIds, online' \subseteq UserIds,
         \A u \in UserIds \ raced' : u \in online => u \in online',
         \A t \in Threads : Doing(t) = "disconnect" => user[t] \notin online'
  PROVE  MembershipInv'
<1>1. /\ MembershipTypeOK /\ pc \in [Threads -> MembershipPlaces] /\ Alone /\ Creation /\ ObjectsFresh /\ Unloaded
      /\ \A t \in Threads : ThreadInv(t)
      /\ \A u \in UserIds \ raced : UserInv(u)
  BY InvIs
<1>0. UserIds \ raced' \subseteq UserIds \ raced
  OBVIOUS
<1>2. /\ servers' = servers /\ owner' = owner /\ server_members' = server_members /\ current_uses' = current_uses
      /\ ServersMap' = ServersMap /\ objects' = objects /\ Members' = Members /\ ConnectedUsers' = ConnectedUsers
      /\ UserToServerIdsCache' = UserToServerIdsCache
      /\ pc' = pc /\ user' = user /\ perm' = perm /\ obj' = obj /\ ids' = ids
  BY DEF db, loaded, memberCalls
<1>3. \A t \in Threads : At(t)' = At(t) /\ Doing(t)' = Doing(t) /\ (Busy(t)' <=> Busy(t)) /\ Op(t)' = Op(t)
  BY <1>2 DEF At, Doing, Busy, Op
<1>4. MembershipTypeOK'
  BY <1>1, <1>2 DEF MembershipTypeOK
<1>5. Alone'
  <2> SUFFICES ASSUME NEW a \in Threads, NEW b \in Threads, a # b, Busy(a)', Busy(b)', user'[a] = user'[b], user'[a] \notin raced'
               PROVE  ~Conflict(Doing(a)', Doing(b)')
    BY Zenon DEF Alone, Conflict, Memberships
  <2>1. ~Conflict(Doing(a), Doing(b))
    BY <1>0, <1>1, <1>2, <1>3 DEF Alone
  <2> QED BY <1>3, <2>1
<1>6. Creation'
  BY <1>1, <1>2, <1>3 DEF Unaware, ServerSteps, ObjectSteps, Creating, Unborn, Creation
<1>7. ObjectsFresh' /\ Unloaded'
  BY <1>1, <1>2, <1>3 DEF ObjectsFresh, Unloaded, NoMembers, Objects, ObjectSteps
<1>8. ASSUME NEW t \in Threads
      PROVE  ThreadInv(t)'
  BY <1>1, <1>2, <1>3, UserIs DEF Inserting, Pending, Actual, HasMember, PendingRow, ThreadInv,
     ObjectSteps
<1>9. ASSUME NEW u \in UserIds \ raced'
      PROVE  UserInv(u)'
  BY <1>0, <1>1, <1>2, <1>3, <1>9 DEF Pending, Between, CacheFresh, UserInv
<1> QED BY <1>1, <1>2, <1>4, <1>5, <1>6, <1>7, <1>8, <1>9 DEF MembershipInv

LEMMA MembershipStays == MembershipInv /\ [MembershipNext]_membershipVars => MembershipInv'
<1> SUFFICES ASSUME MembershipInv, [MembershipNext]_membershipVars
             PROVE  MembershipInv'
  OBVIOUS
<1>1. ASSUME NEW th \in Threads, MemberStep(th)
      PROVE  MembershipInv'
  <2>1. CASE GetServerById(th) \/ DownloadServerFromDB(th) \/ DownloadServerFails(th) \/ InsertServer(th)
    BY <2>1, GetKeeps, LoadKeeps, LoadFailsKeeps, InsertKeeps
  <2>2. CASE UploadNewServerToDB(th) \/ UploadOwnerToDB(th) \/ PutNewServer(th)
    BY <2>2, NewServerKeeps, OwnerKeeps, PutKeeps
  <2>3. CASE ConsumeInviteFromDB(th) \/ CheckMember(th) \/ InvalidateUserServers(th)
    BY <2>3, ConsumeKeeps, CheckKeeps, InvalidateKeeps
  <2>4. CASE UploadMemberToDB(th) \/ RemoveMemberFromDB(th) \/ UpdateMemberPermissionsInDB(th)
    BY <2>4, StatementKeeps
  <2>5. CASE AddMember(th) \/ RemoveMember(th) \/ UpdateMemberPermissions(th)
    BY <2>5, MemberSetKeeps
  <2>6. CASE ReadUserServersCache(th) \/ SelectUserServers(th) \/ StoreUserServers(th) \/ EachServer(th)
    BY <2>6, ReadCacheKeeps, SelectKeeps, StoreKeeps, EachServerKeeps
  <2>7. CASE JoinVoiceChannel(th) \/ LeaveVoiceChannel(th) \/ CleanupUserVoiceChannels(th) \/ Reply(th)
    BY <2>7, VoiceStepsKeep, CleanupKeeps, ReplyKeeps
  <2> QED BY <1>1, <2>1, <2>2, <2>3, <2>4, <2>5, <2>6, <2>7 DEF MemberStep
<1>2. ASSUME NEW th \in Threads, NEW call \in Ops, NEW u \in UserIds, NEW p \in Perms, Call(th, call, u, p)
      PROVE  MembershipInv'
  BY <1>2, CallKeeps
<1>3. ASSUME NEW u \in UserIds, Connect(u)
      PROVE  MembershipInv'
  BY <1>3, InvIs, WhereThread, ConnectKeeps DEF Connect, BusyWith, ThreadInv, MembershipTypeOK
<1>4. CASE UNCHANGED membershipVars
  BY <1>4, InvIs, ConnectKeeps DEF membershipVars, ThreadInv, MembershipTypeOK
<1>5. ASSUME NEW u \in UserIds, DisconnectUnnamed(u)
      PROVE  MembershipInv'
  BY <1>5, InvIs, ConnectKeeps DEF DisconnectUnnamed, ThreadInv, MembershipTypeOK
<1> QED BY <1>1, <1>2, <1>3, <1>4, <1>5 DEF MembershipNext

LEMMA MembershipBegins == MembershipInit => MembershipInv
<1> SUFFICES ASSUME MembershipInit
             PROVE  MembershipInv
  OBVIOUS
<1>1. /\ pc \in [Threads -> MembershipPlaces]
      /\ \A t \in Threads : At(t) = "idle" /\ Doing(t) = "none" /\ ~Busy(t)
  BY DEF MembershipInit, Idle, MembershipPlaces, At, Doing, Step, CallOf, Busy
<1>2. MembershipTypeOK
  BY <1>1, MembershipAssumption, PlacesAreSteps DEF MembershipInit, NoMembers, MembershipTypeOK
<1>3. Alone
  BY <1>1 DEF Alone
<1>4. Creation
  BY <1>1 DEF MembershipInit, Unborn, Creation, Unaware
<1>5. ObjectsFresh /\ Unloaded
  BY <1>1 DEF MembershipInit, ObjectsFresh, Unloaded, ObjectSteps
<1>6. ASSUME NEW t \in Threads
      PROVE  ThreadInv(t)
  BY <1>1 DEF ThreadInv, Inserting, Pending, ObjectSteps, MembershipInit
<1>7. ASSUME NEW u \in UserIds
      PROVE  UserInv(u)
  BY DEF UserInv, CacheFresh, MembershipInit
<1> QED BY <1>1, <1>2, <1>3, <1>4, <1>5, <1>6, <1>7 DEF MembershipInv

LEMMA MembershipInvImplies == MembershipInv => MembershipConsistent
  BY InvIs, WhereThread DEF BusyWith, Pending, Between, UserInv, MembershipConsistent,
     MembershipAgrees, OfflineNotInVoice

\* Between calls, the table, the loaded server and the user's cached server list agree on
\* every user, and a member who is offline is in no voice channel: for any number of users,
\* threads, permission masks and FServer objects, however often statements fail, as long
\* as no two conflicting calls about the user overlapped.
THEOREM MembershipStaysConsistent == MembershipSpec => []MembershipConsistent
<1>1. MembershipSpec => []MembershipInv
  BY MembershipBegins, MembershipStays, PTL DEF MembershipSpec
<1> QED BY <1>1, MembershipInvImplies, PTL
=============================================================================
