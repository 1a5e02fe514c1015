---------------------------- MODULE FriendLists ----------------------------
(***************************************************************************)
(* Friend requests and friendships (FFriendListManager and the friend      *)
(* handlers of FPrivateSocketData): the tables friend_requests and         *)
(* friend_list, neither with a unique key, and the two caches made of      *)
(* them.  The friends of a user are cached when first asked for; sent      *)
(* requests are cached by their sender.                                    *)
(*                                                                         *)
(* Every cache is changed after its table, and also when the statement     *)
(* failed: errors are logged and the call goes on.                         *)
(***************************************************************************)
EXTENDS Calls

CONSTANTS Users,
          Callers,             \* bound: the users who make calls, about each other
          MaxSentRequests,
          MaxIncomingRequests,
          MaxFriendFaults      \* bound: statements that fail or find no connection

ASSUME FriendsAssumption ==
    /\ IsFiniteSet(Threads) /\ Threads # {}
    /\ Callers \subseteq Users
    /\ {MaxSentRequests, MaxIncomingRequests} \subseteq Nat \ {0}
    /\ MaxFriendFaults \in Nat

Pairs == {p \in Users \X Users : p[1] # p[2]}

VARIABLES
    friend_requests, \* table: rows by sender and receiver
    friend_list,     \* table: rows by requester and target
    listed,          \* users whose friends are cached
    Friends,         \* how often FriendsArray of a user holds another
    asked,           \* users UserIdToFriendRequestList has an entry for
    FriendRequests,  \* the requests in those entries, by sender and receiver
    fl,              \* per thread: the call's arguments and local variables
    doubted,         \* history, since the start: couples two calls were about at once, or whose
                     \* list was downloaded meanwhile, or for whom a statement failed
    doubled,         \* history: couples that were ever doubted, or of whom an incomplete list was asked
    partial,         \* history, since the start: users whose list was cached incomplete
    friend_faults    \* counted up to their bound

friendTables == <<friend_requests, friend_list>>
friendCaches == <<listed, Friends, asked, FriendRequests>>
friendDoubts == <<doubted, doubled, partial, friend_faults>>
friendVars == <<friendTables, friendCaches, fl, friendDoubts>>

NoFriends == [u \in Users |-> 0]
NoFriendCall == [me |-> 0, other |-> 0, found |-> FALSE, friends |-> NoFriends, requests |-> {}]

FriendWriters == {"CreateFriendRequest", "AcceptFriendRequest", "RejectFriendRequest",
                  "CancelFriendRequest", "RemoveFriend"}
FriendOps == FriendWriters \cup {"GetFriendList", "GetFriendRequestsList"}

IsFriend == <<"listed", "isFriend">>
DoesFriendRequestExist == <<"cachedRequest", "requestRow">>
SendFriendRequest == IsFriend \o <<"cachedLimits", "sameRow", "sentRows", "incomingRows", "insertRequest", "cacheRequest">>
AcceptFriendRequest == DoesFriendRequestExist \o IsFriend \o <<"acceptRows", "eraseRequest", "addFriends">>
RejectFriendRequest == DoesFriendRequestExist \o <<"deleteRequest", "eraseRequest">>
CancelFriendRequest == DoesFriendRequestExist \o <<"deleteRequest", "eraseRequest">>
RemoveFriend == IsFriend \o <<"deleteFriends", "eraseFriends">>
GetFriendListInRange == <<"listed">>
GetFriendRequestListInRange == <<"asked">>

\* A backend that has just started on the rows of friends and of requests.
FriendsStart(friends, requests) ==
    /\ friend_list = [p \in Pairs |-> IF p \in friends THEN 1 ELSE 0]
    /\ friend_requests = [p \in Pairs |-> IF p \in requests THEN 1 ELSE 0]
    /\ listed = {}
    /\ Friends = [u \in Users |-> NoFriends]
    /\ asked = {}
    /\ FriendRequests = {}
    /\ fl = [th \in Threads |-> NoFriendCall]
    /\ doubted = {}
    /\ doubled = {}
    /\ partial = {}
    /\ friend_faults = 0

\* One caller may have a friend, or have asked one, who makes no calls.
FriendsInit ==
    \/ FriendsStart({}, {})
    \/ \E p \in Pairs :
           /\ p[1] \in Callers /\ p[2] \notin Callers
           /\ FriendsStart({p}, {}) \/ FriendsStart({}, {p})

Couple(th) == {fl[th].me, fl[th].other}
Doubt(couples) == doubted' = doubted \cup couples /\ doubled' = doubled \cup couples
FriendFault == friend_faults < MaxFriendFaults /\ friend_faults' = friend_faults + 1

\* Couples calls of other threads are writing of, u among them.
BeingWritten(th, u) ==
    {Couple(t) : t \in {t \in Threads \ {th} : Busy(t) /\ Op(t) \in FriendWriters /\ u \in Couple(t)}}

(***************************************************************************)
(* The handlers.  Nobody makes a call about himself: it is turned away.    *)
(***************************************************************************)
BeginFriendCall(th, op, steps, a, b) ==
    /\ Enter(th, steps, op)
    /\ fl' = [fl EXCEPT ![th] = [NoFriendCall EXCEPT !.me = a, !.other = b]]
    /\ IF op \in FriendWriters
          /\ \E t \in Threads \ {th} :
                 \/ Busy(t) /\ Op(t) \in FriendWriters /\ Couple(t) = {a, b}
                 \/ (AtStep(t, "storeFriends") \/ AtStep(t, "storeRequests")) /\ fl[t].me \in {a, b}
       THEN Doubt({{a, b}})
       ELSE UNCHANGED <<doubted, doubled>>
    /\ UNCHANGED <<friendTables, friendCaches, partial, friend_faults>>

OnMessageReceived_CreateFriendRequest(th, a, b) == BeginFriendCall(th, "CreateFriendRequest", SendFriendRequest, a, b)
OnMessageReceived_AcceptFriendRequest(th, a, b) == BeginFriendCall(th, "AcceptFriendRequest", AcceptFriendRequest, a, b)
OnMessageReceived_RejectFriendRequest(th, a, b) == BeginFriendCall(th, "RejectFriendRequest", RejectFriendRequest, a, b)
OnMessageReceived_CancelFriendRequest(th, a, b) == BeginFriendCall(th, "CancelFriendRequest", CancelFriendRequest, a, b)
OnMessageReceived_RemoveFriend(th, a, b) == BeginFriendCall(th, "RemoveFriend", RemoveFriend, a, b)
OnMessageReceived_GetFriendList(th, a) == BeginFriendCall(th, "GetFriendList", GetFriendListInRange, a, a)
OnMessageReceived_GetFriendRequestsList(th, a) ==
    BeginFriendCall(th, "GetFriendRequestsList", GetFriendRequestListInRange, a, a)

FriendReply(th) ==
    /\ Busy(th) /\ Head(pc[th]) \in FriendOps
    /\ Finish(th)
    /\ fl' = [fl EXCEPT ![th] = NoFriendCall]
    /\ UNCHANGED <<friendTables, friendCaches, friendDoubts>>

Skip(th, n) == pc' = [pc EXCEPT ![th] = SubSeq(@, n + 1, Len(@))]

(***************************************************************************)
(* The friends of the caller.                                              *)
(***************************************************************************)
HasFriendListForUserId(th) ==
    /\ AtStep(th, "listed")
    /\ pc' = [pc EXCEPT ![th] = IF fl[th].me \in listed THEN Tail(@)
                                ELSE <<"selectFriends", "storeFriends">> \o Tail(@)]
    /\ UNCHANGED friendVars

RowsBetween(u, v) == IF u = v THEN 0 ELSE friend_list[<<u, v>>] + friend_list[<<v, u>>]

\* A SELECT that fails leaves nothing cached, and the caller without friends; where there
\* is no connection an empty list is.
SelectFriends(th) ==
    LET me == fl[th].me IN
    /\ AtStep(th, "selectFriends")
    /\ \/ /\ fl' = [fl EXCEPT ![th].friends = [v \in Users |-> RowsBetween(me, v)]]
          /\ Doubt(BeingWritten(th, me))
          /\ Advance(th)
          /\ UNCHANGED <<partial, friend_faults>>
       \/ /\ FriendFault
          /\ Doubt({Couple(th)})
          /\ \/ Skip(th, 2) /\ UNCHANGED <<fl, partial>>
             \/ Advance(th) /\ partial' = partial \cup {me} /\ UNCHANGED fl
    /\ UNCHANGED <<friendTables, friendCaches>>

StoreFriends(th) ==
    /\ AtStep(th, "storeFriends")
    /\ listed' = listed \cup {fl[th].me}
    /\ Friends' = [Friends EXCEPT ![fl[th].me] = fl[th].friends]
    /\ fl' = [fl EXCEPT ![th].friends = NoFriends]
    /\ Advance(th)
    /\ UNCHANGED <<friendTables, asked, FriendRequests, friendDoubts>>

\* What the answer means to the call.  A list that is not complete may not know a friend.
CheckIsFriend(th) ==
    LET friend == Friends[fl[th].me][fl[th].other] > 0 IN
    /\ AtStep(th, "isFriend")
    /\ doubled' = IF fl[th].me \in partial THEN doubled \cup {Couple(th)} ELSE doubled
    /\ AdvanceIf(th, CASE Op(th) = "CreateFriendRequest" -> ~friend
                       [] Op(th) = "AcceptFriendRequest" -> fl[th].found /\ ~friend
                       [] OTHER -> friend)
    /\ UNCHANGED <<friendTables, friendCaches, fl, doubted, partial, friend_faults>>

(***************************************************************************)
(* Sending a request.                                                      *)
(***************************************************************************)
RequestRows(pairs) == UNION {{p} \X (1..friend_requests[p]) : p \in pairs}
SentBy(u) == Cardinality(RequestRows({p \in Pairs : p[1] = u}))
IncomingTo(u) == Cardinality(RequestRows({p \in Pairs : p[2] = u}))

CheckCachedLimits(th) ==
    LET me == fl[th].me
        sent == {p \in FriendRequests : p[1] = me}
    IN
    /\ AtStep(th, "cachedLimits")
    /\ AdvanceIf(th, <<me, fl[th].other>> \notin sent /\ Cardinality(sent) < MaxSentRequests)
    /\ UNCHANGED friendVars

\* The three SELECTs before the INSERT.  One that fails, or no connection, ends in the cache
\* all the same.
Count(th, step, passes) ==
    /\ AtStep(th, step)
    /\ \/ AdvanceIf(th, passes) /\ UNCHANGED friendDoubts
       \/ Leave(th, "insertRequest") /\ FriendFault /\ Doubt({Couple(th)}) /\ UNCHANGED partial
    /\ UNCHANGED <<friendTables, friendCaches, fl>>

CountSameRow(th) == Count(th, "sameRow", friend_requests[<<fl[th].me, fl[th].other>>] = 0)

\* Mutant: the limit is checked against the cache only.
CountSentRows_Unchecked(th) == Count(th, "sentRows", TRUE)

CountSentRows(th) == Count(th, "sentRows", SentBy(fl[th].me) < MaxSentRequests)
CountIncomingRows(th) == Count(th, "incomingRows", IncomingTo(fl[th].other) < MaxIncomingRequests)

InsertRequest(th) ==
    /\ AtStep(th, "insertRequest")
    /\ \/ /\ friend_requests' = [friend_requests EXCEPT ![<<fl[th].me, fl[th].other>>] = @ + 1]
          /\ UNCHANGED friendDoubts
       \/ FriendFault /\ Doubt({Couple(th)}) /\ UNCHANGED <<friend_requests, partial>>
    /\ Advance(th)
    /\ UNCHANGED <<friend_list, friendCaches, fl>>

CacheRequest(th) ==
    /\ AtStep(th, "cacheRequest")
    /\ asked' = asked \cup {fl[th].me}
    /\ FriendRequests' = FriendRequests \cup {<<fl[th].me, fl[th].other>>}
    /\ Advance(th)
    /\ UNCHANGED <<friendTables, listed, Friends, fl, friendDoubts>>

(***************************************************************************)
(* Answering and cancelling a request.                                     *)
(***************************************************************************)
\* The cache is asked for what the caller has sent ...
FindCachedRequest(th) ==
    LET found == <<fl[th].me, fl[th].other>> \in FriendRequests IN
    /\ AtStep(th, "cachedRequest")
    /\ fl' = [fl EXCEPT ![th].found = found]
    /\ Skip(th, IF found THEN 2 ELSE 1)
    /\ UNCHANGED <<friendTables, friendCaches, friendDoubts>>

\* ... and the table for what the other has.  AcceptFriendRequest goes on to IsFriend in any case.
FindRequestRow(th) ==
    /\ AtStep(th, "requestRow")
    /\ \E found \in BOOLEAN :
           /\ found => friend_requests[<<fl[th].other, fl[th].me>>] > 0
           /\ ~found => friend_requests[<<fl[th].other, fl[th].me>>] = 0 \/ friend_faults < MaxFriendFaults
           /\ fl' = [fl EXCEPT ![th].found = found]
           /\ AdvanceIf(th, found \/ Op(th) = "AcceptFriendRequest")
    /\ UNCHANGED <<friendTables, friendCaches, friendDoubts>>

\* The row and the cache entry a call removes.
Answered(th) == IF Op(th) = "CancelFriendRequest" THEN <<fl[th].me, fl[th].other>> ELSE <<fl[th].other, fl[th].me>>

\* Carries out the statements of a call or loses them; the call goes on.
Execute(th, statements) ==
    /\ \/ statements /\ UNCHANGED friendDoubts
       \/ FriendFault /\ Doubt({Couple(th)}) /\ UNCHANGED <<friendTables, partial>>
    /\ Advance(th)
    /\ UNCHANGED <<friendCaches, fl>>

AcceptRows(th) ==
    /\ AtStep(th, "acceptRows")
    /\ Execute(th, /\ friend_list' = [friend_list EXCEPT ![Answered(th)] = @ + 1]
                   /\ friend_requests' = [friend_requests EXCEPT ![Answered(th)] = 0])

DeleteRequest(th) ==
    /\ AtStep(th, "deleteRequest")
    /\ Execute(th, /\ friend_requests' = [friend_requests EXCEPT ![Answered(th)] = 0]
                   /\ UNCHANGED friend_list)

\* Mutant: only the row is deleted.
EraseRequest_Kept(th) ==
    /\ AtStep(th, "eraseRequest")
    /\ Advance(th)
    /\ UNCHANGED friendVars

EraseRequest(th) ==
    /\ AtStep(th, "eraseRequest")
    /\ FriendRequests' = FriendRequests \ {Answered(th)}
    /\ Advance(th)
    /\ UNCHANGED <<friendTables, listed, Friends, asked, fl, friendDoubts>>

\* Mutant: the requester's list is left alone.
AddFriends_OneSide(th) ==
    LET me == fl[th].me other == fl[th].other IN
    /\ AtStep(th, "addFriends")
    /\ Friends' = [Friends EXCEPT ![me][other] = @ + 1]
    /\ listed' = listed \cup {me}
    /\ partial' = partial \cup ({me} \ listed)
    /\ Advance(th)
    /\ UNCHANGED <<friendTables, asked, FriendRequests, fl, doubted, doubled, friend_faults>>

\* A list that was not downloaded begins with this one friend, and passes for complete.
AddFriends(th) ==
    LET me == fl[th].me other == fl[th].other IN
    /\ AtStep(th, "addFriends")
    /\ Friends' = [Friends EXCEPT ![me][other] = @ + 1, ![other][me] = @ + 1]
    /\ listed' = listed \cup {me, other}
    /\ partial' = partial \cup ({me, other} \ listed)
    /\ Advance(th)
    /\ UNCHANGED <<friendTables, asked, FriendRequests, fl, doubted, doubled, friend_faults>>

(***************************************************************************)
(* Ending a friendship.                                                    *)
(***************************************************************************)
\* An error ends the call, a missing connection does not.
DeleteFriends(th) ==
    LET me == fl[th].me other == fl[th].other IN
    /\ AtStep(th, "deleteFriends")
    /\ \/ /\ friend_list' = [friend_list EXCEPT ![<<me, other>>] = 0, ![<<other, me>>] = 0]
          /\ Advance(th)
          /\ UNCHANGED friendDoubts
       \/ /\ FriendFault
          /\ \/ Return(th) /\ UNCHANGED <<doubted, doubled>>
             \/ Advance(th) /\ Doubt({Couple(th)})
          /\ UNCHANGED <<friend_list, partial>>
    /\ UNCHANGED <<friend_requests, friendCaches, fl>>

\* Mutant: the other user's array is left alone.
EraseFriends_OneSide(th) ==
    /\ AtStep(th, "eraseFriends")
    /\ Friends' = [Friends EXCEPT ![fl[th].me][fl[th].other] = 0]
    /\ Advance(th)
    /\ UNCHANGED <<friendTables, listed, asked, FriendRequests, fl, friendDoubts>>

EraseFriends(th) ==
    LET me == fl[th].me other == fl[th].other IN
    /\ AtStep(th, "eraseFriends")
    /\ Friends' = [Friends EXCEPT ![me][other] = 0, ![other][me] = 0]
    /\ Advance(th)
    /\ UNCHANGED <<friendTables, listed, asked, FriendRequests, fl, friendDoubts>>

(***************************************************************************)
(* The list of requests.                                                   *)
(***************************************************************************)
\* The incoming requests are the union of cache and table; asking for them changes nothing.
HasFriendRequestListForUserId(th) ==
    /\ AtStep(th, "asked")
    /\ pc' = [pc EXCEPT ![th] = IF fl[th].me \in asked THEN Tail(@)
                                ELSE <<"selectRequests", "storeRequests">> \o Tail(@)]
    /\ UNCHANGED friendVars

SelectRequests(th) ==
    LET me == fl[th].me IN
    /\ AtStep(th, "selectRequests")
    /\ \/ /\ fl' = [fl EXCEPT ![th].requests = {p \in Pairs : me \in {p[1], p[2]} /\ friend_requests[p] > 0}]
          /\ Doubt(BeingWritten(th, me))
          /\ Advance(th)
       \/ friend_faults < MaxFriendFaults /\ Skip(th, 2) /\ UNCHANGED <<fl, doubted, doubled>>
    /\ UNCHANGED <<friendTables, friendCaches, partial, friend_faults>>

\* Rows of both directions make entries for their senders.
StoreRequests(th) ==
    /\ AtStep(th, "storeRequests")
    /\ FriendRequests' = FriendRequests \cup fl[th].requests
    /\ asked' = asked \cup {p[1] : p \in fl[th].requests}
    /\ fl' = [fl EXCEPT ![th].requests = {}]
    /\ Advance(th)
    /\ UNCHANGED <<friendTables, listed, Friends, friendDoubts>>

FriendsRestart ==
    /\ pc' = Idle
    /\ listed' = {}
    /\ Friends' = [u \in Users |-> NoFriends]
    /\ asked' = {}
    /\ FriendRequests' = {}
    /\ fl' = [th \in Threads |-> NoFriendCall]
    /\ doubted' = {}
    /\ partial' = {}
    /\ UNCHANGED <<friendTables, doubled, friend_faults>>

FriendStep(th) ==
    \/ HasFriendListForUserId(th) \/ SelectFriends(th) \/ StoreFriends(th) \/ CheckIsFriend(th)
    \/ CheckCachedLimits(th) \/ CountSameRow(th) \/ CountSentRows(th) \/ CountIncomingRows(th)
    \/ InsertRequest(th) \/ CacheRequest(th)
    \/ FindCachedRequest(th) \/ FindRequestRow(th) \/ AcceptRows(th) \/ DeleteRequest(th)
    \/ EraseRequest(th) \/ AddFriends(th) \/ DeleteFriends(th) \/ EraseFriends(th)
    \/ HasFriendRequestListForUserId(th) \/ SelectRequests(th) \/ StoreRequests(th)
    \/ FriendReply(th)

FriendCall(th) ==
    \/ \E a, b \in Callers :
           /\ a # b
           /\ \/ OnMessageReceived_CreateFriendRequest(th, a, b)
              \/ OnMessageReceived_AcceptFriendRequest(th, a, b)
              \/ OnMessageReceived_RejectFriendRequest(th, a, b)
              \/ OnMessageReceived_CancelFriendRequest(th, a, b)
              \/ OnMessageReceived_RemoveFriend(th, a, b)
    \/ \E a \in Callers : OnMessageReceived_GetFriendList(th, a) \/ OnMessageReceived_GetFriendRequestsList(th, a)

FriendsNext == (\E th \in Threads : FriendStep(th) \/ FriendCall(th)) \/ FriendsRestart

FriendsSpec == FriendsInit /\ pc = Idle /\ [][FriendsNext]_<<pc, friendVars>>

(***************************************************************************)
(* Properties.                                                             *)
(***************************************************************************)
FriendsTypeOK ==
    /\ friend_requests \in [Pairs -> Nat]
    /\ friend_list \in [Pairs -> Nat]
    /\ listed \subseteq Users
    /\ Friends \in [Users -> [Users -> Nat]]
    /\ asked \subseteq Users
    /\ FriendRequests \subseteq Pairs
    /\ \A th \in Threads :
           /\ fl[th].me \in Users \cup {0}
           /\ fl[th].other \in Users \cup {0}
           /\ fl[th].found \in BOOLEAN
           /\ fl[th].friends \in [Users -> Nat]
           /\ fl[th].requests \subseteq Pairs
    /\ doubted \subseteq doubled
    /\ partial \subseteq Users
    /\ friend_faults \in 0..MaxFriendFaults

\* A call is writing of the couple.
WritingOf(u, v) == \E th \in Threads : Busy(th) /\ Op(th) \in FriendWriters /\ Couple(th) = {u, v}

\* What is cached of a couple is in the tables, as often as it is there, once no call
\* writes of it: through any requests, answers, removals, downloads and restarts, unless two
\* calls of the couple overlapped, one overlapped a download, or a statement failed.
FriendCachesAgree ==
    \A p \in Pairs : {p[1], p[2]} \notin doubted /\ ~WritingOf(p[1], p[2]) =>
        /\ p \in FriendRequests => friend_requests[p] > 0
        /\ p[1] \in listed \ partial => Friends[p[1]][p[2]] = RowsBetween(p[1], p[2])

\* Neither table has a unique key, yet a couple is friends by one row at most and has one
\* row at most for a request in each direction, unless its calls overlapped or failed, or a
\* list that addFriends had begun was asked for the couple.
OneFriendship ==
    \A p \in Pairs : {p[1], p[2]} \notin doubled => RowsBetween(p[1], p[2]) <= 1 /\ friend_requests[p] <= 1

\* Tables and caches are consistent about each couple between its calls.
FriendsConsistent == FriendsTypeOK /\ FriendCachesAgree /\ OneFriendship

\* A friendship begins only while a request between the two is pending, though the pending
\* request may have been found in a cache and the row is not looked at again.
FriendsOnRequest ==
    [][\A p \in Pairs :
           friend_list'[p] > friend_list[p] /\ {p[1], p[2]} \notin doubted =>
               friend_requests[p] + friend_requests[<<p[2], p[1]>>] > 0]_friend_list

\* The limits are counted and the row inserted in separate statements: concurrent senders
\* pass a limit by one each, and by no more, whatever is cached, fails or restarts.
RequestLimitsNearlyKept ==
    \A u \in Users :
        /\ SentBy(u) <= MaxSentRequests + Cardinality(Threads) - 1
        /\ IncomingTo(u) <= MaxIncomingRequests + Cardinality(Threads) - 1

\* servers_api.md:409 "Accept an incoming friend request": it takes the receiver of the
\* request to make a friendship of it.
ReceiverAccepts ==
    [][\A p \in Pairs :
           friend_list'[p] > friend_list[p] /\ {p[1], p[2]} \notin doubted => friend_requests[p] > 0]_friend_list
=============================================================================
