--------------------------- MODULE RoomsService ---------------------------
(***************************************************************************)
(* FRoomsServiceManager (Managers/RoomsServiceManager.cpp): the rooms of   *)
(* the external voice service, a token per room cached in the backend, and *)
(* the circuit breaker over both HTTP calls.  Its callers are the handlers *)
(* of data_stream_channel (PrivateSocketData.cpp) and server_join_voice    *)
(* (ServersSocketData.cpp), which make the same sequence of calls: check   *)
(* the room, create it when it is missing, answer with the cached token.   *)
(*                                                                         *)
(* A locked section is one step and so is an HTTP request, as the service  *)
(* sees it.  The handlers run on several socket threads.  The backend and  *)
(* the voice service may each restart and forget what they hold in memory. *)
(***************************************************************************)
EXTENDS TokenCalls

CONSTANTS Rooms,             \* room names
          NoRoom,
          CircuitBreakerThreshold,  \* 0 disables the breaker
          CooldownConfigured,       \* FALSE: a tripped breaker stays open
          FaultsWhenUp,      \* TRUE: a call to a running service may fail or lose its reply
          MaxRestarts        \* bound: restarts of the backend and stops of the service

ASSUME RoomsAssumption ==
    /\ NoToken \notin Tokens
    /\ NoRoom \notin Rooms
    /\ CircuitBreakerThreshold \in Nat
    /\ {CooldownConfigured, FaultsWhenUp} \subseteq BOOLEAN
    /\ MaxRestarts \in Nat

VARIABLES
    RoomNameToToken,   \* room -> its cached token, or NoToken
    ConsecutiveVoiceServiceFailures,
    Cooling,           \* CircuitOpenedAt is less than a cooldown ago
    token,             \* per thread: the token at hand; arg is its room
    reply,             \* per thread: outcome of its last HTTP request
    up, serviceRoom,   \* the service: running, and the token of each of its rooms
    restarts,          \* restarts so far
    alone              \* history, per thread: nobody else asked for its room during its call

breaker == <<ConsecutiveVoiceServiceFailures, Cooling>>
calls == <<pc, arg, token, reply, alone>>
service == <<up, serviceRoom>>
vars == <<RoomNameToToken, breaker, calls, service, restarts, drawnFor>>

PcValues == {"idle", "check", "checking", "checked", "create", "token", "draw",
             "post", "posted", "answer"}

\* HTTP outcomes: no response, a response the caller cannot use, and what the
\* service says of the room.
Replies == {"unreachable", "error", "exists", "notExists", "created", "same", "different"}

TypeOK ==
    /\ RoomNameToToken \in [Rooms -> Tokens \cup {NoToken}]
    /\ ConsecutiveVoiceServiceFailures \in 0..CircuitBreakerThreshold
    /\ Cooling \in BOOLEAN
    /\ pc \in [Threads -> PcValues]
    /\ arg \in [Threads -> Rooms \cup {NoRoom}]
    /\ \A th \in Threads : pc[th] # "idle" => arg[th] \in Rooms
    /\ token \in [Threads -> Tokens \cup {NoToken}]
    /\ \A th \in Threads : pc[th] \in {"post", "posted"} => token[th] \in Tokens
    /\ reply \in [Threads -> Replies]
    /\ alone \in [Threads -> BOOLEAN]
    /\ up \in BOOLEAN
    /\ serviceRoom \in [Rooms -> Tokens \cup {NoToken}]
    /\ restarts \in Nat
    /\ drawnFor \in [Tokens -> Rooms \cup {NoRoom}]

Init ==
    /\ RoomNameToToken = [r \in Rooms |-> NoToken]
    /\ ConsecutiveVoiceServiceFailures = 0
    /\ Cooling = FALSE
    /\ pc = [th \in Threads |-> "idle"]
    /\ arg = [th \in Threads |-> NoRoom]
    /\ token = [th \in Threads |-> NoToken]
    /\ reply = [th \in Threads |-> "unreachable"]
    /\ alone = [th \in Threads |-> TRUE]
    /\ up = TRUE
    /\ serviceRoom = [r \in Rooms |-> NoToken]
    /\ restarts = 0
    /\ drawnFor = [t \in Tokens |-> NoRoom]

(***************************************************************************)
(* The circuit breaker.                                                    *)
(***************************************************************************)
Tripped ==
    /\ CircuitBreakerThreshold > 0
    /\ ConsecutiveVoiceServiceFailures >= CircuitBreakerThreshold

IsCircuitOpenLocked == Tripped /\ (CooldownConfigured => Cooling)

RecordVoiceServiceFailureLocked ==
    IF CircuitBreakerThreshold = 0
    THEN UNCHANGED breaker
    ELSE LET failures == IF Tripped THEN ConsecutiveVoiceServiceFailures
                                    ELSE ConsecutiveVoiceServiceFailures + 1
         IN /\ ConsecutiveVoiceServiceFailures' = failures
            /\ Cooling' = (Cooling \/ failures >= CircuitBreakerThreshold)

\* Mutant: a success closes nothing once the breaker has tripped.
RecordVoiceServiceSuccessLocked_NoClose ==
    /\ Cooling' = FALSE
    /\ ConsecutiveVoiceServiceFailures' =
           IF Tripped THEN ConsecutiveVoiceServiceFailures ELSE 0

RecordVoiceServiceSuccessLocked ==
    /\ ConsecutiveVoiceServiceFailures' = 0
    /\ Cooling' = FALSE

RecordReply(r) ==
    IF r = "unreachable" THEN RecordVoiceServiceFailureLocked ELSE RecordVoiceServiceSuccessLocked

Goto(th, step) == pc' = [pc EXCEPT ![th] = step]

\* A step of a thread that changes nothing but the thread.
Local == UNCHANGED <<RoomNameToToken, breaker, arg, alone, service, restarts, drawnFor>>

(***************************************************************************)
(* The handlers.                                                           *)
(***************************************************************************)
\* A user asks for the voice room of a friend or a channel, and is allowed to.
JoinVoice(th, r) ==
    LET others == {t \in Threads \ {th} : pc[t] # "idle" /\ arg[t] = r} IN
    /\ pc[th] = "idle"
    /\ Goto(th, "check")
    /\ arg' = [arg EXCEPT ![th] = r]
    /\ token' = [token EXCEPT ![th] = NoToken]
    /\ reply' = [reply EXCEPT ![th] = "unreachable"]
    /\ alone' = [t \in Threads |->
           IF t = th THEN others = {} ELSE alone[t] /\ t \notin others]
    /\ UNCHANGED <<RoomNameToToken, breaker, service, restarts, drawnFor>>

\* CheckRoom: an open breaker means Unknown, and the handler goes on with the cached token.
CheckRoom(th) ==
    /\ pc[th] = "check"
    /\ Goto(th, IF IsCircuitOpenLocked THEN "answer" ELSE "checking")
    /\ UNCHANGED <<token, reply>> /\ Local

CheckRequest(th) ==
    /\ pc[th] = "checking"
    /\ Goto(th, "checked")
    /\ \E out \in Replies :
           /\ reply' = [reply EXCEPT ![th] = out]
           /\ \/ up /\ out = IF serviceRoom[arg[th]] = NoToken THEN "notExists" ELSE "exists"
              \/ (up => FaultsWhenUp) /\ out = "unreachable"
              \/ up /\ FaultsWhenUp /\ out = "error"
    /\ UNCHANGED token /\ Local

\* Only NotExists makes the handler call CreateRoom.
CheckRecord(th) ==
    /\ pc[th] = "checked"
    /\ RecordReply(reply[th])
    /\ Goto(th, IF reply[th] = "notExists" THEN "create" ELSE "answer")
    /\ UNCHANGED <<RoomNameToToken, arg, token, reply, alone, service, restarts, drawnFor>>

\* CreateRoom: with an open breaker it fails, and the user is told that the room
\* is unavailable.
CreateRoom(th) ==
    /\ pc[th] = "create"
    /\ Goto(th, IF IsCircuitOpenLocked THEN "idle" ELSE "token")
    /\ UNCHANGED <<token, reply>> /\ Local

\* Mutant: the cached token is not looked at.
CreateRoomToken_AlwaysDraws(th) ==
    /\ pc[th] = "token"
    /\ Goto(th, "draw")
    /\ UNCHANGED <<token, reply>> /\ Local

\* CreateRoomToken, shared lock: take the cached token, or go and draw one.
CreateRoomToken(th) ==
    /\ pc[th] = "token"
    /\ token' = [token EXCEPT ![th] = RoomNameToToken[arg[th]]]
    /\ Goto(th, IF RoomNameToToken[arg[th]] = NoToken THEN "draw" ELSE "post")
    /\ UNCHANGED reply /\ Local

\* Mutant: the token is drawn and sent but not cached.
DrawToken_NotCached(th, t) ==
    /\ pc[th] = "draw"
    /\ drawnFor[t] = NoRoom
    /\ drawnFor' = [drawnFor EXCEPT ![t] = arg[th]]
    /\ token' = [token EXCEPT ![th] = t]
    /\ Goto(th, "post")
    /\ UNCHANGED <<RoomNameToToken, breaker, arg, reply, alone, service, restarts>>

\* CreateRoomToken, unique lock: the new token replaces whatever is cached by now.
DrawToken(th, t) ==
    /\ pc[th] = "draw"
    /\ drawnFor[t] = NoRoom
    /\ drawnFor' = [drawnFor EXCEPT ![t] = arg[th]]
    /\ token' = [token EXCEPT ![th] = t]
    /\ RoomNameToToken' = [RoomNameToToken EXCEPT ![arg[th]] = t]
    /\ Goto(th, "post")
    /\ UNCHANGED <<breaker, arg, reply, alone, service, restarts>>

\* What the service makes of a request for the room.
PostReply(r, t) ==
    IF serviceRoom[r] = NoToken THEN "created"
    ELSE IF serviceRoom[r] = t THEN "same" ELSE "different"

\* The request reaches the service; its reply may be lost or useless.
PostServed(th) ==
    LET r == arg[th] IN
    /\ pc[th] = "post" /\ up
    /\ Goto(th, "posted")
    /\ serviceRoom' = [serviceRoom EXCEPT ![r] = IF @ = NoToken THEN token[th] ELSE @]
    /\ \E out \in {PostReply(r, token[th])} \cup
                      (IF FaultsWhenUp THEN {"unreachable", "error"} ELSE {}) :
           reply' = [reply EXCEPT ![th] = out]
    /\ UNCHANGED <<RoomNameToToken, breaker, arg, token, alone, up, restarts, drawnFor>>

\* The request never arrives.
PostLost(th) ==
    /\ pc[th] = "post"
    /\ up => FaultsWhenUp
    /\ Goto(th, "posted")
    /\ reply' = [reply EXCEPT ![th] = "unreachable"]
    /\ UNCHANGED token /\ Local

\* Created and AlreadyExists go on with the cached token, everything else is unavailable.
PostRecord(th) ==
    /\ pc[th] = "posted"
    /\ RecordReply(reply[th])
    /\ Goto(th, IF reply[th] \in {"created", "same"} THEN "answer" ELSE "idle")
    /\ UNCHANGED <<RoomNameToToken, arg, token, reply, alone, service, restarts, drawnFor>>

\* GetRoomToken: the answer carries the token that is cached now, "" when there is none.
GetRoomToken(th) ==
    /\ pc[th] = "answer"
    /\ token' = [token EXCEPT ![th] = RoomNameToToken[arg[th]]]
    /\ Goto(th, "idle")
    /\ UNCHANGED reply /\ Local

HandlerStep(th) ==
    \/ CheckRoom(th) \/ CheckRequest(th) \/ CheckRecord(th)
    \/ CreateRoom(th) \/ CreateRoomToken(th) \/ \E t \in Tokens : DrawToken(th, t)
    \/ PostServed(th) \/ PostLost(th) \/ PostRecord(th) \/ GetRoomToken(th)

(***************************************************************************)
(* Time, and the life of both programs.                                    *)
(***************************************************************************)
BreakerCooldownElapses ==
    /\ Cooling
    /\ Cooling' = FALSE
    /\ UNCHANGED <<RoomNameToToken, ConsecutiveVoiceServiceFailures, calls, service, restarts, drawnFor>>

ServiceStops ==
    /\ up /\ restarts < MaxRestarts
    /\ up' = FALSE
    /\ serviceRoom' = [r \in Rooms |-> NoToken]
    /\ restarts' = restarts + 1
    /\ UNCHANGED <<RoomNameToToken, breaker, calls, drawnFor>>

ServiceStarts ==
    /\ ~up
    /\ up' = TRUE
    /\ UNCHANGED <<RoomNameToToken, breaker, calls, serviceRoom, restarts, drawnFor>>

\* The cached tokens, the breaker and every call under way are gone; the rooms are not.
BackendRestarts ==
    /\ restarts < MaxRestarts
    /\ RoomNameToToken' = [r \in Rooms |-> NoToken]
    /\ ConsecutiveVoiceServiceFailures' = 0
    /\ Cooling' = FALSE
    /\ pc' = [th \in Threads |-> "idle"]
    /\ token' = [th \in Threads |-> NoToken]
    /\ alone' = [th \in Threads |-> TRUE]
    /\ restarts' = restarts + 1
    /\ UNCHANGED <<arg, reply, service, drawnFor>>

Next ==
    \/ \E th \in Threads : HandlerStep(th) \/ \E r \in Rooms : JoinVoice(th, r)
    \/ BreakerCooldownElapses \/ ServiceStops \/ ServiceStarts \/ BackendRestarts

Spec == Init /\ [][Next]_vars

\* Calls go on, time passes, and somebody restarts the service.
Fairness ==
    /\ \A th \in Threads : WF_vars(HandlerStep(th))
    /\ WF_vars(BreakerCooldownElapses)
    /\ WF_vars(ServiceStarts)

FairSpec == Spec /\ Fairness

(***************************************************************************)
(* Properties.                                                             *)
(***************************************************************************)
\* A call that created the room, or found it created with its own token.
Provisioned(th) == pc[th] = "answer" /\ reply[th] \in {"created", "same"}

\* A call that has its room to itself and provisions it goes on to hand out the token
\* the service admits, across lost replies and restarts of either program.
ProvisionedAloneAdmits ==
    \A th \in Threads :
        Provisioned(th) /\ alone[th] /\ serviceRoom[arg[th]] # NoToken =>
            RoomNameToToken[arg[th]] = serviceRoom[arg[th]]

\* A cached token is overwritten only by a call that overlapped another first call for
\* the room, or lost with the backend: no restart of the service, failed request or
\* repeated join makes the backend change a token it may have handed out.
TokenKept ==
    [][\A r \in Rooms :
          RoomNameToToken[r] # NoToken /\ RoomNameToToken'[r] # RoomNameToToken[r] =>
              \/ \E th \in Threads : pc[th] = "draw" /\ arg[th] = r /\ ~alone[th]
              \/ restarts' # restarts]_vars

Asked == \E th \in Threads : pc[th] = "check"
Reachable == \A th \in Threads : pc[th] \in {"checked", "posted"} => reply[th] # "unreachable"

\* A tripped breaker does not stay so: when rooms are asked for again and again and,
\* from some point on, the service answers every request that is made, it closes.
BreakerCloses == []<>Asked /\ <>[]Reachable => []<>~Tripped

\* PrivateSocketData.cpp:1297-1302, ServersSocketData.cpp:883-888: "Do NOT hand the client a
\* stale/empty token. [...] Created or AlreadyExists -> proceed with the locally cached
\* token": what a call that has just provisioned its room hands out opens the room.
ProvisionedAdmits ==
    \A th \in Threads :
        Provisioned(th) /\ serviceRoom[arg[th]] # NoToken =>
            RoomNameToToken[arg[th]] = serviceRoom[arg[th]]
============================================================================
