----------------------------- MODULE FriendProofs -----------------------------
(***************************************************************************)
(* Proofs about FriendLists, for every finite set of threads, every set   *)
(* of users and callers, every limit, and any number of friends, requests  *)
(* and faults.  The places and the steps of the calls are those of         *)
(* Conversations, too, which extends it: ConversationProofs goes on from   *)
(* the invariant proved here.                                              *)
(***************************************************************************)
EXTENDS Conversations, FiniteSetTheorems, SequenceTheorems, TLAPS

(***************************************************************************)
(* The places of the calls about friends and conversations: what a thread  *)
(* has still to do.  S sends a request, K accepts one, J rejects and X     *)
(* cancels it, U ends a friendship, L lists friends, Q lists requests, F   *)
(* rings a friend, O opens a conversation, H downloads conversations.      *)
(***************************************************************************)

S1 == <<"listed", "isFriend", "cachedLimits", "sameRow", "sentRows", "incomingRows", "insertRequest", "cacheRequest",
    "CreateFriendRequest">>
S2 == <<"selectFriends", "storeFriends", "isFriend", "cachedLimits", "sameRow", "sentRows", "incomingRows",
    "insertRequest", "cacheRequest", "CreateFriendRequest">>
S3 == <<"storeFriends", "isFriend", "cachedLimits", "sameRow", "sentRows", "incomingRows", "insertRequest",
    "cacheRequest", "CreateFriendRequest">>
S4 == <<"isFriend", "cachedLimits", "sameRow", "sentRows", "incomingRows", "insertRequest", "cacheRequest",
    "CreateFriendRequest">>
S5 == <<"cachedLimits", "sameRow", "sentRows", "incomingRows", "insertRequest", "cacheRequest",
    "CreateFriendRequest">>
S6 == <<"sameRow", "sentRows", "incomingRows", "insertRequest", "cacheRequest", "CreateFriendRequest">>
S7 == <<"sentRows", "incomingRows", "insertRequest", "cacheRequest", "CreateFriendRequest">>
S8 == <<"incomingRows", "insertRequest", "cacheRequest", "CreateFriendRequest">>
S9 == <<"insertRequest", "cacheRequest", "CreateFriendRequest">>
S10 == <<"cacheRequest", "CreateFriendRequest">>
S11 == <<"CreateFriendRequest">>

K1 == <<"cachedRequest", "requestRow", "listed", "isFriend", "acceptRows", "eraseRequest", "addFriends",
    "AcceptFriendRequest">>
K2 == <<"requestRow", "listed", "isFriend", "acceptRows", "eraseRequest", "addFriends", "AcceptFriendRequest">>
K3 == <<"listed", "isFriend", "acceptRows", "eraseRequest", "addFriends", "AcceptFriendRequest">>
K4 == <<"selectFriends", "storeFriends", "isFriend", "acceptRows", "eraseRequest", "addFriends",
    "AcceptFriendRequest">>
K5 == <<"storeFriends", "isFriend", "acceptRows", "eraseRequest", "addFriends", "AcceptFriendRequest">>
K6 == <<"isFriend", "acceptRows", "eraseRequest", "addFriends", "AcceptFriendRequest">>
K7 == <<"acceptRows", "eraseRequest", "addFriends", "AcceptFriendRequest">>
K8 == <<"eraseRequest", "addFriends", "AcceptFriendRequest">>
K9 == <<"addFriends", "AcceptFriendRequest">>
K10 == <<"AcceptFriendRequest">>

J1 == <<"cachedRequest", "requestRow", "deleteRequest", "eraseRequest", "RejectFriendRequest">>
J2 == <<"requestRow", "deleteRequest", "eraseRequest", "RejectFriendRequest">>
J3 == <<"deleteRequest", "eraseRequest", "RejectFriendRequest">>
J4 == <<"eraseRequest", "RejectFriendRequest">>
J5 == <<"RejectFriendRequest">>

X1 == <<"cachedRequest", "requestRow", "deleteRequest", "eraseRequest", "CancelFriendRequest">>
X2 == <<"requestRow", "deleteRequest", "eraseRequest", "CancelFriendRequest">>
X3 == <<"deleteRequest", "eraseRequest", "CancelFriendRequest">>
X4 == <<"eraseRequest", "CancelFriendRequest">>
X5 == <<"CancelFriendRequest">>

U1 == <<"listed", "isFriend", "deleteFriends", "eraseFriends", "RemoveFriend">>
U2 == <<"selectFriends", "storeFriends", "isFriend", "deleteFriends", "eraseFriends", "RemoveFriend">>
U3 == <<"storeFriends", "isFriend", "deleteFriends", "eraseFriends", "RemoveFriend">>
U4 == <<"isFriend", "deleteFriends", "eraseFriends", "RemoveFriend">>
U5 == <<"deleteFriends", "eraseFriends", "RemoveFriend">>
U6 == <<"eraseFriends", "RemoveFriend">>
U7 == <<"RemoveFriend">>

L1 == <<"listed", "GetFriendList">>
L2 == <<"selectFriends", "storeFriends", "GetFriendList">>
L3 == <<"storeFriends", "GetFriendList">>
L4 == <<"GetFriendList">>

Q1 == <<"asked", "GetFriendRequestsList">>
Q2 == <<"selectRequests", "storeRequests", "GetFriendRequestsList">>
Q3 == <<"storeRequests", "GetFriendRequestsList">>
Q4 == <<"GetFriendRequestsList">>

F1 == <<"listed", "isFriend", "CallFriend">>
F2 == <<"selectFriends", "storeFriends", "isFriend", "CallFriend">>
F3 == <<"storeFriends", "isFriend", "CallFriend">>
F4 == <<"isFriend", "CallFriend">>
F5 == <<"CallFriend">>

O1 == <<"listed", "isFriend", "findConversation", "cacheConversation", "listConversation", "foundConversation",
    "insertConversation", "insertCaller", "insertOther", "cacheConversation", "listConversation", "AddConversation">>
O2 == <<"selectFriends", "storeFriends", "isFriend", "findConversation", "cacheConversation", "listConversation",
    "foundConversation", "insertConversation", "insertCaller", "insertOther", "cacheConversation", "listConversation",
    "AddConversation">>
O3 == <<"storeFriends", "isFriend", "findConversation", "cacheConversation", "listConversation", "foundConversation",
    "insertConversation", "insertCaller", "insertOther", "cacheConversation", "listConversation", "AddConversation">>
O4 == <<"isFriend", "findConversation", "cacheConversation", "listConversation", "foundConversation",
    "insertConversation", "insertCaller", "insertOther", "cacheConversation", "listConversation", "AddConversation">>
O5 == <<"findConversation", "cacheConversation", "listConversation", "foundConversation", "insertConversation",
    "insertCaller", "insertOther", "cacheConversation", "listConversation", "AddConversation">>
O6 == <<"cacheConversation", "listConversation", "foundConversation", "insertConversation", "insertCaller",
    "insertOther", "cacheConversation", "listConversation", "AddConversation">>
O7 == <<"listConversation", "foundConversation", "insertConversation", "insertCaller", "insertOther",
    "cacheConversation", "listConversation", "AddConversation">>
O8 == <<"foundConversation", "insertConversation", "insertCaller", "insertOther", "cacheConversation",
    "listConversation", "AddConversation">>
O9 == <<"insertConversation", "insertCaller", "insertOther", "cacheConversation", "listConversation",
    "AddConversation">>
O10 == <<"insertCaller", "insertOther", "cacheConversation", "listConversation", "AddConversation">>
O11 == <<"insertOther", "cacheConversation", "listConversation", "AddConversation">>
O12 == <<"cacheConversation", "listConversation", "AddConversation">>
O13 == <<"listConversation", "AddConversation">>
O14 == <<"AddConversation">>

H1 == <<"selectConversations", "skipCached", "nextConversation", "GetConversations">>
H2 == <<"skipCached", "nextConversation", "GetConversations">>
H3 == <<"selectParticipants", "cacheConversation", "listConversation", "nextConversation", "GetConversations">>
H4 == <<"cacheConversation", "listConversation", "nextConversation", "GetConversations">>
H5 == <<"listConversation", "nextConversation", "GetConversations">>
H6 == <<"nextConversation", "GetConversations">>
H7 == <<"GetConversations">>

SendPlaces == {S1, S2, S3, S4, S5, S6, S7, S8, S9, S10, S11}
AcceptPlaces == {K1, K2, K3, K4, K5, K6, K7, K8, K9, K10}
RejectPlaces == {J1, J2, J3, J4, J5}
CancelPlaces == {X1, X2, X3, X4, X5}
RemovePlaces == {U1, U2, U3, U4, U5, U6, U7}
ListPlaces == {L1, L2, L3, L4}
AskPlaces == {Q1, Q2, Q3, Q4}
CallPlaces == {F1, F2, F3, F4, F5}
CreatePlaces == {O1, O2, O3, O4, O5, O6, O7, O8, O9, O10, O11, O12, O13, O14}
LoadPlaces == {H1, H2, H3, H4, H5, H6, H7}
FriendPlaces ==
    {<<>>} \cup SendPlaces \cup AcceptPlaces \cup RejectPlaces \cup CancelPlaces \cup RemovePlaces
    \cup ListPlaces \cup AskPlaces \cup CallPlaces \cup CreatePlaces \cup LoadPlaces

(***************************************************************************)
(* The invariant of friends and requests.                                  *)
(***************************************************************************)
\* What a thread does next, and for which call.
Step(p) == IF p = <<>> THEN "idle" ELSE Head(p)
Call(p) == IF p = <<>> THEN "none" ELSE p[Len(p)]
Rest(p) == IF p = <<>> THEN <<>> ELSE Tail(p)
Reply(op) == <<op>>
At(th) == Step(pc[th])
Doing(th) == Call(pc[th])
Writes(th) == Doing(th) \in FriendWriters

\* A thread goes on to a step of its call, and no other does anything.
Moves(th, step) ==
    /\ pc' \in [Threads -> FriendPlaces]
    /\ At(th)' = step /\ Doing(th)' = Doing(th)
    /\ \A o \in Threads \ {th} : At(o)' = At(o) /\ Doing(o)' = Doing(o)

FriendCallType == [me : Users \cup {0}, other : Users \cup {0}, found : BOOLEAN, friends : [Users -> Nat], requests : SUBSET Pairs]

\* The types, the places among them.
FriendTypes ==
    /\ pc \in [Threads -> FriendPlaces]
    /\ friend_requests \in [Pairs -> Nat]
    /\ friend_list \in [Pairs -> Nat]
    /\ listed \subseteq Users
    /\ Friends \in [Users -> [Users -> Nat]]
    /\ asked \subseteq Users
    /\ FriendRequests \subseteq Pairs
    /\ fl \in [Threads -> FriendCallType]
    /\ doubted \subseteq doubled
    /\ partial \subseteq Users
    /\ friend_faults \in 0..MaxFriendFaults

\* A call is about callers, one that writes about two.
About(th) ==
    /\ Doing(th) # "none" => fl[th].me \in Callers /\ fl[th].other \in Callers
    /\ Writes(th) => fl[th].me # fl[th].other

\* CallNames that write of the same couple at once put it in doubt ...
Alone ==
    \A t, o \in Threads : t # o /\ Writes(t) /\ Writes(o) /\ Couple(t) = Couple(o) => Couple(t) \in doubted

\* ... and so does one that writes while a list of the couple is downloaded.
DownloadsAlone ==
    \A t, o \in Threads :
        /\ t # o /\ Writes(o) /\ fl[t].me \in Couple(o)
        /\ \/ At(t) = "storeFriends" /\ fl[t].me \notin partial
           \/ At(t) = "storeRequests"
        => Couple(o) \in doubted

\* What was downloaded and is not cached yet is what the tables hold.
Downloads(th) ==
    /\ At(th) = "storeFriends" /\ fl[th].me \notin partial =>
           \A v \in Users : fl[th].me # v /\ {fl[th].me, v} \notin doubted =>
               fl[th].friends[v] = RowsBetween(fl[th].me, v)
    /\ At(th) = "storeRequests" =>
           \A p \in fl[th].requests : fl[th].me \in {p[1], p[2]} /\ ({p[1], p[2]} \notin doubted => friend_requests[p] > 0)

\* The request a call answers, or takes back.  Between table and cache: requests being erased, friends
\* to be added, friends to be erased.
Target(th) == IF Doing(th) = "CancelFriendRequest" THEN <<fl[th].me, fl[th].other>> ELSE <<fl[th].other, fl[th].me>>
Erasing(p) == \E th \in Threads : At(th) = "eraseRequest" /\ Target(th) = p
Adding(u, v) == \E th \in Threads :
    Doing(th) = "AcceptFriendRequest" /\ At(th) \in {"eraseRequest", "addFriends"} /\ Couple(th) = {u, v}
Removing(u, v) == \E th \in Threads : At(th) = "eraseFriends" /\ Couple(th) = {u, v}

\* A cached request is in the table, or about to leave the cache.
RequestsAgree == \A p \in FriendRequests : {p[1], p[2]} \notin doubted => friend_requests[p] > 0 \/ Erasing(p)

\* A cached list names a friend as often as the table does, once the call that accepted him has
\* added him, unless he is about to leave the cache.
Owed(u, v) == IF Adding(u, v) THEN 1 ELSE 0
FriendsAgree ==
    \A u, v \in Users : u # v /\ {u, v} \notin doubted /\ u \in listed \ partial =>
        Friends[u][v] + Owed(u, v) = RowsBetween(u, v) \/ Removing(u, v)

\* What a call has found out and relies on: that the list is cached, that a request is there or is
\* not, that the couple has no row.
Trusted(th) ==
    LET me == fl[th].me  other == fl[th].other IN
    /\ At(th) = "isFriend" /\ Couple(th) \notin doubted => me \in listed
    /\ At(th) = "cacheRequest" /\ Couple(th) \notin doubted => friend_requests[<<me, other>>] > 0
    /\ At(th) \in {"sentRows", "incomingRows", "insertRequest"} /\ Couple(th) \notin doubted =>
           friend_requests[<<me, other>>] = 0
    /\ At(th) = "acceptRows" => fl[th].found
    /\ At(th) = "acceptRows" /\ Couple(th) \notin doubled => RowsBetween(me, other) = 0
    /\ At(th) = "eraseFriends" /\ Couple(th) \notin doubted => RowsBetween(me, other) = 0
    /\ Doing(th) = "AcceptFriendRequest" /\ fl[th].found /\ Couple(th) \notin doubted
         /\ At(th) \in {"requestRow", "listed", "selectFriends", "storeFriends", "isFriend", "acceptRows"} =>
           friend_requests[<<me, other>>] + friend_requests[<<other, me>>] > 0

CallInv(th) == About(th) /\ Downloads(th) /\ Trusted(th)

FriendsInv ==
    /\ FriendTypes
    /\ Alone /\ DownloadsAlone
    /\ RequestsAgree /\ FriendsAgree /\ OneFriendship
    /\ \A th \in Threads : CallInv(th)

\* The senders that have counted and not yet inserted.
CountedSent(u) == {th \in Threads : At(th) \in {"incomingRows", "insertRequest"} /\ fl[th].me = u}
CountedIncoming(u) == {th \in Threads : At(th) = "insertRequest" /\ fl[th].other = u}

SentRows(u) == RequestRows({p \in Pairs : p[1] = u})
IncomingRows(u) == RequestRows({p \in Pairs : p[2] = u})

\* Each of them stands for a row: there are no more of both than the limit allows and one
\* for every other thread.
LimitsInv ==
    /\ \A u \in Users : IsFiniteSet(SentRows(u)) /\ IsFiniteSet(IncomingRows(u))
    /\ \A u \in Users :
           /\ SentBy(u) + Cardinality(CountedSent(u)) <= MaxSentRequests + Cardinality(Threads) - 1
           /\ IncomingTo(u) + Cardinality(CountedIncoming(u)) <= MaxIncomingRequests + Cardinality(Threads) - 1

LEMMA SendPlacesAre ==
  /\ S1 # <<>> /\ Step(S1) = "listed" /\ Call(S1) = "CreateFriendRequest" /\ Rest(S1) = S4
  /\ S2 # <<>> /\ Step(S2) = "selectFriends" /\ Call(S2) = "CreateFriendRequest" /\ Rest(S2) = S3
  /\ S3 # <<>> /\ Step(S3) = "storeFriends" /\ Call(S3) = "CreateFriendRequest" /\ Rest(S3) = S4
  /\ S4 # <<>> /\ Step(S4) = "isFriend" /\ Call(S4) = "CreateFriendRequest" /\ Rest(S4) = S5
  /\ S5 # <<>> /\ Step(S5) = "cachedLimits" /\ Call(S5) = "CreateFriendRequest" /\ Rest(S5) = S6
  /\ S6 # <<>> /\ Step(S6) = "sameRow" /\ Call(S6) = "CreateFriendRequest" /\ Rest(S6) = S7
  /\ S7 # <<>> /\ Step(S7) = "sentRows" /\ Call(S7) = "CreateFriendRequest" /\ Rest(S7) = S8
  /\ S8 # <<>> /\ Step(S8) = "incomingRows" /\ Call(S8) = "CreateFriendRequest" /\ Rest(S8) = S9
  /\ S9 # <<>> /\ Step(S9) = "insertRequest" /\ Call(S9) = "CreateFriendRequest" /\ Rest(S9) = S10
  /\ S10 # <<>> /\ Step(S10) = "cacheRequest" /\ Call(S10) = "CreateFriendRequest" /\ Rest(S10) = S11
  /\ S11 # <<>> /\ Step(S11) = "CreateFriendRequest" /\ Call(S11) = "CreateFriendRequest" /\ Rest(S11) = <<>>
BY DEF Step, Call, Rest, S1, S2, S3, S4, S5, S6, S7, S8, S9, S10, S11

LEMMA AcceptPlacesAre ==
  /\ K1 # <<>> /\ Step(K1) = "cachedRequest" /\ Call(K1) = "AcceptFriendRequest" /\ Rest(K1) = K2
  /\ K2 # <<>> /\ Step(K2) = "requestRow" /\ Call(K2) = "AcceptFriendRequest" /\ Rest(K2) = K3
  /\ K3 # <<>> /\ Step(K3) = "listed" /\ Call(K3) = "AcceptFriendRequest" /\ Rest(K3) = K6
  /\ K4 # <<>> /\ Step(K4) = "selectFriends" /\ Call(K4) = "AcceptFriendRequest" /\ Rest(K4) = K5
  /\ K5 # <<>> /\ Step(K5) = "storeFriends" /\ Call(K5) = "AcceptFriendRequest" /\ Rest(K5) = K6
  /\ K6 # <<>> /\ Step(K6) = "isFriend" /\ Call(K6) = "AcceptFriendRequest" /\ Rest(K6) = K7
  /\ K7 # <<>> /\ Step(K7) = "acceptRows" /\ Call(K7) = "AcceptFriendRequest" /\ Rest(K7) = K8
  /\ K8 # <<>> /\ Step(K8) = "eraseRequest" /\ Call(K8) = "AcceptFriendRequest" /\ Rest(K8) = K9
  /\ K9 # <<>> /\ Step(K9) = "addFriends" /\ Call(K9) = "AcceptFriendRequest" /\ Rest(K9) = K10
  /\ K10 # <<>> /\ Step(K10) = "AcceptFriendRequest" /\ Call(K10) = "AcceptFriendRequest" /\ Rest(K10) = <<>>
BY DEF Step, Call, Rest, K1, K2, K3, K4, K5, K6, K7, K8, K9, K10

LEMMA RejectPlacesAre ==
  /\ J1 # <<>> /\ Step(J1) = "cachedRequest" /\ Call(J1) = "RejectFriendRequest" /\ Rest(J1) = J2
  /\ J2 # <<>> /\ Step(J2) = "requestRow" /\ Call(J2) = "RejectFriendRequest" /\ Rest(J2) = J3
  /\ J3 # <<>> /\ Step(J3) = "deleteRequest" /\ Call(J3) = "RejectFriendRequest" /\ Rest(J3) = J4
  /\ J4 # <<>> /\ Step(J4) = "eraseRequest" /\ Call(J4) = "RejectFriendRequest" /\ Rest(J4) = J5
  /\ J5 # <<>> /\ Step(J5) = "RejectFriendRequest" /\ Call(J5) = "RejectFriendRequest" /\ Rest(J5) = <<>>
BY DEF Step, Call, Rest, J1, J2, J3, J4, J5

LEMMA CancelPlacesAre ==
  /\ X1 # <<>> /\ Step(X1) = "cachedRequest" /\ Call(X1) = "CancelFriendRequest" /\ Rest(X1) = X2
  /\ X2 # <<>> /\ Step(X2) = "requestRow" /\ Call(X2) = "CancelFriendRequest" /\ Rest(X2) = X3
  /\ X3 # <<>> /\ Step(X3) = "deleteRequest" /\ Call(X3) = "CancelFriendRequest" /\ Rest(X3) = X4
  /\ X4 # <<>> /\ Step(X4) = "eraseRequest" /\ Call(X4) = "CancelFriendRequest" /\ Rest(X4) = X5
  /\ X5 # <<>> /\ Step(X5) = "CancelFriendRequest" /\ Call(X5) = "CancelFriendRequest" /\ Rest(X5) = <<>>
BY DEF Step, Call, Rest, X1, X2, X3, X4, X5

LEMMA RemovePlacesAre ==
  /\ U1 # <<>> /\ Step(U1) = "listed" /\ Call(U1) = "RemoveFriend" /\ Rest(U1) = U4
  /\ U2 # <<>> /\ Step(U2) = "selectFriends" /\ Call(U2) = "RemoveFriend" /\ Rest(U2) = U3
  /\ U3 # <<>> /\ Step(U3) = "storeFriends" /\ Call(U3) = "RemoveFriend" /\ Rest(U3) = U4
  /\ U4 # <<>> /\ Step(U4) = "isFriend" /\ Call(U4) = "RemoveFriend" /\ Rest(U4) = U5
  /\ U5 # <<>> /\ Step(U5) = "deleteFriends" /\ Call(U5) = "RemoveFriend" /\ Rest(U5) = U6
  /\ U6 # <<>> /\ Step(U6) = "eraseFriends" /\ Call(U6) = "RemoveFriend" /\ Rest(U6) = U7
  /\ U7 # <<>> /\ Step(U7) = "RemoveFriend" /\ Call(U7) = "RemoveFriend" /\ Rest(U7) = <<>>
BY DEF Step, Call, Rest, U1, U2, U3, U4, U5, U6, U7

LEMMA ListPlacesAre ==
  /\ L1 # <<>> /\ Step(L1) = "listed" /\ Call(L1) = "GetFriendList" /\ Rest(L1) = L4
  /\ L2 # <<>> /\ Step(L2) = "selectFriends" /\ Call(L2) = "GetFriendList" /\ Rest(L2) = L3
  /\ L3 # <<>> /\ Step(L3) = "storeFriends" /\ Call(L3) = "GetFriendList" /\ Rest(L3) = L4
  /\ L4 # <<>> /\ Step(L4) = "GetFriendList" /\ Call(L4) = "GetFriendList" /\ Rest(L4) = <<>>
BY DEF Step, Call, Rest, L1, L2, L3, L4

LEMMA AskPlacesAre ==
  /\ Q1 # <<>> /\ Step(Q1) = "asked" /\ Call(Q1) = "GetFriendRequestsList" /\ Rest(Q1) = Q4
  /\ Q2 # <<>> /\ Step(Q2) = "selectRequests" /\ Call(Q2) = "GetFriendRequestsList" /\ Rest(Q2) = Q3
  /\ Q3 # <<>> /\ Step(Q3) = "storeRequests" /\ Call(Q3) = "GetFriendRequestsList" /\ Rest(Q3) = Q4
  /\ Q4 # <<>> /\ Step(Q4) = "GetFriendRequestsList" /\ Call(Q4) = "GetFriendRequestsList" /\ Rest(Q4) = <<>>
BY DEF Step, Call, Rest, Q1, Q2, Q3, Q4

LEMMA CallFriendPlacesAre ==
  /\ F1 # <<>> /\ Step(F1) = "listed" /\ Call(F1) = "CallFriend" /\ Rest(F1) = F4
  /\ F2 # <<>> /\ Step(F2) = "selectFriends" /\ Call(F2) = "CallFriend" /\ Rest(F2) = F3
  /\ F3 # <<>> /\ Step(F3) = "storeFriends" /\ Call(F3) = "CallFriend" /\ Rest(F3) = F4
  /\ F4 # <<>> /\ Step(F4) = "isFriend" /\ Call(F4) = "CallFriend" /\ Rest(F4) = F5
  /\ F5 # <<>> /\ Step(F5) = "CallFriend" /\ Call(F5) = "CallFriend" /\ Rest(F5) = <<>>
BY DEF Step, Call, Rest, F1, F2, F3, F4, F5

LEMMA CreatePlacesAre ==
  /\ O1 # <<>> /\ Step(O1) = "listed" /\ Call(O1) = "AddConversation" /\ Rest(O1) = O4
  /\ O2 # <<>> /\ Step(O2) = "selectFriends" /\ Call(O2) = "AddConversation" /\ Rest(O2) = O3
  /\ O3 # <<>> /\ Step(O3) = "storeFriends" /\ Call(O3) = "AddConversation" /\ Rest(O3) = O4
  /\ O4 # <<>> /\ Step(O4) = "isFriend" /\ Call(O4) = "AddConversation" /\ Rest(O4) = O5
  /\ O5 # <<>> /\ Step(O5) = "findConversation" /\ Call(O5) = "AddConversation" /\ Rest(O5) = O6
  /\ O6 # <<>> /\ Step(O6) = "cacheConversation" /\ Call(O6) = "AddConversation" /\ Rest(O6) = O7
  /\ O7 # <<>> /\ Step(O7) = "listConversation" /\ Call(O7) = "AddConversation" /\ Rest(O7) = O8
  /\ O8 # <<>> /\ Step(O8) = "foundConversation" /\ Call(O8) = "AddConversation" /\ Rest(O8) = O9
  /\ O9 # <<>> /\ Step(O9) = "insertConversation" /\ Call(O9) = "AddConversation" /\ Rest(O9) = O10
  /\ O10 # <<>> /\ Step(O10) = "insertCaller" /\ Call(O10) = "AddConversation" /\ Rest(O10) = O11
  /\ O11 # <<>> /\ Step(O11) = "insertOther" /\ Call(O11) = "AddConversation" /\ Rest(O11) = O12
  /\ O12 # <<>> /\ Step(O12) = "cacheConversation" /\ Call(O12) = "AddConversation" /\ Rest(O12) = O13
  /\ O13 # <<>> /\ Step(O13) = "listConversation" /\ Call(O13) = "AddConversation" /\ Rest(O13) = O14
  /\ O14 # <<>> /\ Step(O14) = "AddConversation" /\ Call(O14) = "AddConversation" /\ Rest(O14) = <<>>
BY DEF Step, Call, Rest, O1, O2, O3, O4, O5, O6, O7, O8, O9, O10, O11, O12, O13, O14

LEMMA LoadPlacesAre ==
  /\ H1 # <<>> /\ Step(H1) = "selectConversations" /\ Call(H1) = "GetConversations" /\ Rest(H1) = H2
  /\ H2 # <<>> /\ Step(H2) = "skipCached" /\ Call(H2) = "GetConversations" /\ Rest(H2) = H6
  /\ H3 # <<>> /\ Step(H3) = "selectParticipants" /\ Call(H3) = "GetConversations" /\ Rest(H3) = H4
  /\ H4 # <<>> /\ Step(H4) = "cacheConversation" /\ Call(H4) = "GetConversations" /\ Rest(H4) = H5
  /\ H5 # <<>> /\ Step(H5) = "listConversation" /\ Call(H5) = "GetConversations" /\ Rest(H5) = H6
  /\ H6 # <<>> /\ Step(H6) = "nextConversation" /\ Call(H6) = "GetConversations" /\ Rest(H6) = H7
  /\ H7 # <<>> /\ Step(H7) = "GetConversations" /\ Call(H7) = "GetConversations" /\ Rest(H7) = <<>>
BY DEF Step, Call, Rest, H1, H2, H3, H4, H5, H6, H7

LEMMA WhereIs ==
  ASSUME NEW p \in FriendPlaces
  PROVE  /\ Step(p) = "listed" => p \in {S1, K3, U1, L1, F1, O1}
         /\ Step(p) = "selectFriends" => p \in {S2, K4, U2, L2, F2, O2}
         /\ Step(p) = "storeFriends" => p \in {S3, K5, U3, L3, F3, O3}
         /\ Step(p) = "isFriend" => p \in {S4, K6, U4, F4, O4}
         /\ Step(p) = "cachedLimits" => p = S5
         /\ Step(p) = "sameRow" => p = S6
         /\ Step(p) = "sentRows" => p = S7
         /\ Step(p) = "incomingRows" => p = S8
         /\ Step(p) = "insertRequest" => p = S9
         /\ Step(p) = "cacheRequest" => p = S10
         /\ Step(p) = "CreateFriendRequest" => p = S11
         /\ Step(p) = "cachedRequest" => p \in {K1, J1, X1}
         /\ Step(p) = "requestRow" => p \in {K2, J2, X2}
         /\ Step(p) = "acceptRows" => p = K7
         /\ Step(p) = "eraseRequest" => p \in {K8, J4, X4}
         /\ Step(p) = "addFriends" => p = K9
         /\ Step(p) = "AcceptFriendRequest" => p = K10
         /\ Step(p) = "deleteRequest" => p \in {J3, X3}
         /\ Step(p) = "RejectFriendRequest" => p = J5
         /\ Step(p) = "CancelFriendRequest" => p = X5
         /\ Step(p) = "deleteFriends" => p = U5
         /\ Step(p) = "eraseFriends" => p = U6
         /\ Step(p) = "RemoveFriend" => p = U7
         /\ Step(p) = "GetFriendList" => p = L4
         /\ Step(p) = "asked" => p = Q1
         /\ Step(p) = "selectRequests" => p = Q2
         /\ Step(p) = "storeRequests" => p = Q3
         /\ Step(p) = "GetFriendRequestsList" => p = Q4
         /\ Step(p) = "CallFriend" => p = F5
         /\ Step(p) = "findConversation" => p = O5
         /\ Step(p) = "cacheConversation" => p \in {O6, O12, H4}
         /\ Step(p) = "listConversation" => p \in {O7, O13, H5}
         /\ Step(p) = "foundConversation" => p = O8
         /\ Step(p) = "insertConversation" => p = O9
         /\ Step(p) = "insertCaller" => p = O10
         /\ Step(p) = "insertOther" => p = O11
         /\ Step(p) = "AddConversation" => p = O14
         /\ Step(p) = "selectConversations" => p = H1
         /\ Step(p) = "skipCached" => p = H2
         /\ Step(p) = "selectParticipants" => p = H3
         /\ Step(p) = "nextConversation" => p = H6
         /\ Step(p) = "GetConversations" => p = H7
<1>1. CASE p \in SendPlaces
  BY <1>1, SendPlacesAre DEF SendPlaces
<1>2. CASE p \in AcceptPlaces
  BY <1>2, AcceptPlacesAre DEF AcceptPlaces
<1>3. CASE p \in RejectPlaces
  BY <1>3, RejectPlacesAre DEF RejectPlaces
<1>4. CASE p \in CancelPlaces
  BY <1>4, CancelPlacesAre DEF CancelPlaces
<1>5. CASE p \in RemovePlaces
  BY <1>5, RemovePlacesAre DEF RemovePlaces
<1>6. CASE p \in ListPlaces
  BY <1>6, ListPlacesAre DEF ListPlaces
<1>7. CASE p \in AskPlaces
  BY <1>7, AskPlacesAre DEF AskPlaces
<1>8. CASE p \in CallPlaces
  BY <1>8, CallFriendPlacesAre DEF CallPlaces
<1>9. CASE p \in CreatePlaces
  BY <1>9, CreatePlacesAre DEF CreatePlaces
<1>10. CASE p \in LoadPlaces
  BY <1>10, LoadPlacesAre DEF LoadPlaces
<1>11. CASE p = <<>>
  BY <1>11 DEF Step
<1>12. QED
  BY <1>1, <1>2, <1>3, <1>4, <1>5, <1>6, <1>7, <1>8, <1>9, <1>10, <1>11 DEF FriendPlaces

\* Which calls make a step.
LEMMA WhatFor ==
  ASSUME NEW p \in FriendPlaces
  PROVE  /\ Step(p) = "listed" => Call(p) \in {"CreateFriendRequest", "AcceptFriendRequest", "RemoveFriend",
                "GetFriendList", "CallFriend", "AddConversation"}
         /\ Step(p) = "selectFriends" => Call(p) \in {"CreateFriendRequest", "AcceptFriendRequest", "RemoveFriend",
                "GetFriendList", "CallFriend", "AddConversation"}
         /\ Step(p) = "storeFriends" => Call(p) \in {"CreateFriendRequest", "AcceptFriendRequest", "RemoveFriend",
                "GetFriendList", "CallFriend", "AddConversation"}
         /\ Step(p) = "isFriend" => Call(p) \in {"CreateFriendRequest", "AcceptFriendRequest", "RemoveFriend",
                "CallFriend", "AddConversation"}
         /\ Step(p) = "cachedLimits" => Call(p) = "CreateFriendRequest"
         /\ Step(p) = "sameRow" => Call(p) = "CreateFriendRequest"
         /\ Step(p) = "sentRows" => Call(p) = "CreateFriendRequest"
         /\ Step(p) = "incomingRows" => Call(p) = "CreateFriendRequest"
         /\ Step(p) = "insertRequest" => Call(p) = "CreateFriendRequest"
         /\ Step(p) = "cacheRequest" => Call(p) = "CreateFriendRequest"
         /\ Step(p) = "cachedRequest" => Call(p) \in {"AcceptFriendRequest", "RejectFriendRequest",
                "CancelFriendRequest"}
         /\ Step(p) = "requestRow" => Call(p) \in {"AcceptFriendRequest", "RejectFriendRequest",
                "CancelFriendRequest"}
         /\ Step(p) = "acceptRows" => Call(p) = "AcceptFriendRequest"
         /\ Step(p) = "eraseRequest" => Call(p) \in {"AcceptFriendRequest", "RejectFriendRequest",
                "CancelFriendRequest"}
         /\ Step(p) = "addFriends" => Call(p) = "AcceptFriendRequest"
         /\ Step(p) = "deleteRequest" => Call(p) \in {"RejectFriendRequest", "CancelFriendRequest"}
         /\ Step(p) = "deleteFriends" => Call(p) = "RemoveFriend"
         /\ Step(p) = "eraseFriends" => Call(p) = "RemoveFriend"
         /\ Step(p) = "asked" => Call(p) = "GetFriendRequestsList"
         /\ Step(p) = "selectRequests" => Call(p) = "GetFriendRequestsList"
         /\ Step(p) = "storeRequests" => Call(p) = "GetFriendRequestsList"
         /\ Step(p) = "findConversation" => Call(p) = "AddConversation"
         /\ Step(p) = "cacheConversation" => Call(p) \in {"AddConversation", "GetConversations"}
         /\ Step(p) = "listConversation" => Call(p) \in {"AddConversation", "GetConversations"}
         /\ Step(p) = "foundConversation" => Call(p) = "AddConversation"
         /\ Step(p) = "insertConversation" => Call(p) = "AddConversation"
         /\ Step(p) = "insertCaller" => Call(p) = "AddConversation"
         /\ Step(p) = "insertOther" => Call(p) = "AddConversation"
         /\ Step(p) = "selectConversations" => Call(p) = "GetConversations"
         /\ Step(p) = "skipCached" => Call(p) = "GetConversations"
         /\ Step(p) = "selectParticipants" => Call(p) = "GetConversations"
         /\ Step(p) = "nextConversation" => Call(p) = "GetConversations"
<1>1. CASE p \in SendPlaces
  BY <1>1, SendPlacesAre DEF SendPlaces
<1>2. CASE p \in AcceptPlaces
  BY <1>2, AcceptPlacesAre DEF AcceptPlaces
<1>3. CASE p \in RejectPlaces
  BY <1>3, RejectPlacesAre DEF RejectPlaces
<1>4. CASE p \in CancelPlaces
  BY <1>4, CancelPlacesAre DEF CancelPlaces
<1>5. CASE p \in RemovePlaces
  BY <1>5, RemovePlacesAre DEF RemovePlaces
<1>6. CASE p \in ListPlaces
  BY <1>6, ListPlacesAre DEF ListPlaces
<1>7. CASE p \in AskPlaces
  BY <1>7, AskPlacesAre DEF AskPlaces
<1>8. CASE p \in CallPlaces
  BY <1>8, CallFriendPlacesAre DEF CallPlaces
<1>9. CASE p \in CreatePlaces
  BY <1>9, CreatePlacesAre DEF CreatePlaces
<1>10. CASE p \in LoadPlaces
  BY <1>10, LoadPlacesAre DEF LoadPlaces
<1>11. CASE p = <<>>
  BY <1>11 DEF Step, Call
<1>12. QED
  BY <1>1, <1>2, <1>3, <1>4, <1>5, <1>6, <1>7, <1>8, <1>9, <1>10, <1>11 DEF FriendPlaces

\* What comes after a step.
LEMMA WhatNext ==
  ASSUME NEW p \in FriendPlaces
  PROVE  /\ Step(p) = "listed" => Step(Rest(p)) \in {"isFriend", "GetFriendList"}
         /\ Step(p) = "selectFriends" => Step(Rest(p)) = "storeFriends"
         /\ Step(p) = "storeFriends" => Step(Rest(p)) \in {"isFriend", "GetFriendList"}
         /\ Step(p) = "isFriend" /\ Call(p) = "CreateFriendRequest" => Step(Rest(p)) = "cachedLimits"
         /\ Step(p) = "isFriend" /\ Call(p) = "AcceptFriendRequest" => Step(Rest(p)) = "acceptRows"
         /\ Step(p) = "isFriend" /\ Call(p) = "RemoveFriend" => Step(Rest(p)) = "deleteFriends"
         /\ Step(p) = "isFriend" /\ Call(p) = "CallFriend" => Step(Rest(p)) = "CallFriend"
         /\ Step(p) = "isFriend" /\ Call(p) = "AddConversation" => Step(Rest(p)) = "findConversation"
         /\ Step(p) = "cachedLimits" => Step(Rest(p)) = "sameRow"
         /\ Step(p) = "sameRow" => Step(Rest(p)) = "sentRows"
         /\ Step(p) = "sentRows" => Step(Rest(p)) = "incomingRows"
         /\ Step(p) = "incomingRows" => Step(Rest(p)) = "insertRequest"
         /\ Step(p) = "insertRequest" => Step(Rest(p)) = "cacheRequest"
         /\ Step(p) = "cacheRequest" => Step(Rest(p)) = "CreateFriendRequest"
         /\ Step(p) = "cachedRequest" => Step(Rest(p)) = "requestRow"
         /\ Step(p) = "requestRow" /\ Call(p) = "AcceptFriendRequest" => Step(Rest(p)) = "listed"
         /\ Step(p) = "requestRow" /\ Call(p) = "RejectFriendRequest" => Step(Rest(p)) = "deleteRequest"
         /\ Step(p) = "requestRow" /\ Call(p) = "CancelFriendRequest" => Step(Rest(p)) = "deleteRequest"
         /\ Step(p) = "acceptRows" => Step(Rest(p)) = "eraseRequest"
         /\ Step(p) = "eraseRequest" /\ Call(p) = "AcceptFriendRequest" => Step(Rest(p)) = "addFriends"
         /\ Step(p) = "eraseRequest" /\ Call(p) = "RejectFriendRequest" => Step(Rest(p)) = "RejectFriendRequest"
         /\ Step(p) = "eraseRequest" /\ Call(p) = "CancelFriendRequest" => Step(Rest(p)) = "CancelFriendRequest"
         /\ Step(p) = "addFriends" => Step(Rest(p)) = "AcceptFriendRequest"
         /\ Step(p) = "deleteRequest" => Step(Rest(p)) = "eraseRequest"
         /\ Step(p) = "deleteFriends" => Step(Rest(p)) = "eraseFriends"
         /\ Step(p) = "eraseFriends" => Step(Rest(p)) = "RemoveFriend"
         /\ Step(p) = "asked" => Step(Rest(p)) = "GetFriendRequestsList"
         /\ Step(p) = "selectRequests" => Step(Rest(p)) = "storeRequests"
         /\ Step(p) = "storeRequests" => Step(Rest(p)) = "GetFriendRequestsList"
         /\ Step(p) = "findConversation" => Step(Rest(p)) = "cacheConversation"
         /\ Step(p) = "cacheConversation" => Step(Rest(p)) = "listConversation"
         /\ Step(p) = "listConversation" => Step(Rest(p)) \in {"foundConversation", "AddConversation", "nextConversation"}
         /\ Step(p) = "foundConversation" => Step(Rest(p)) = "insertConversation"
         /\ Step(p) = "insertConversation" => Step(Rest(p)) = "insertCaller"
         /\ Step(p) = "insertCaller" => Step(Rest(p)) = "insertOther"
         /\ Step(p) = "insertOther" => Step(Rest(p)) = "cacheConversation"
         /\ Step(p) = "selectConversations" => Step(Rest(p)) = "skipCached"
         /\ Step(p) = "skipCached" => Step(Rest(p)) = "nextConversation"
         /\ Step(p) = "selectParticipants" => Step(Rest(p)) = "cacheConversation"
         /\ Step(p) = "nextConversation" => Step(Rest(p)) = "GetConversations"
<1>1. CASE p \in SendPlaces
  BY <1>1, SendPlacesAre DEF SendPlaces
<1>2. CASE p \in AcceptPlaces
  BY <1>2, AcceptPlacesAre DEF AcceptPlaces
<1>3. CASE p \in RejectPlaces
  BY <1>3, RejectPlacesAre DEF RejectPlaces
<1>4. CASE p \in CancelPlaces
  BY <1>4, CancelPlacesAre DEF CancelPlaces
<1>5. CASE p \in RemovePlaces
  BY <1>5, RemovePlacesAre DEF RemovePlaces
<1>6. CASE p \in ListPlaces
  BY <1>6, ListPlacesAre DEF ListPlaces
<1>7. CASE p \in AskPlaces
  BY <1>7, AskPlacesAre DEF AskPlaces
<1>8. CASE p \in CallPlaces
  BY <1>8, CallFriendPlacesAre DEF CallPlaces
<1>9. CASE p \in CreatePlaces
  BY <1>9, CreatePlacesAre DEF CreatePlaces
<1>10. CASE p \in LoadPlaces
  BY <1>10, LoadPlacesAre DEF LoadPlaces
<1>11. CASE p = <<>>
  BY <1>11 DEF Step, Call
<1>12. QED
  BY <1>1, <1>2, <1>3, <1>4, <1>5, <1>6, <1>7, <1>8, <1>9, <1>10, <1>11 DEF FriendPlaces

LEMMA GroupsAre ==
  /\ SendPlaces \subseteq FriendPlaces
  /\ AcceptPlaces \subseteq FriendPlaces
  /\ RejectPlaces \subseteq FriendPlaces
  /\ CancelPlaces \subseteq FriendPlaces
  /\ RemovePlaces \subseteq FriendPlaces
  /\ ListPlaces \subseteq FriendPlaces
  /\ AskPlaces \subseteq FriendPlaces
  /\ CallPlaces \subseteq FriendPlaces
  /\ CreatePlaces \subseteq FriendPlaces
  /\ LoadPlaces \subseteq FriendPlaces
  BY DEF FriendPlaces

LEMMA GoesOn ==
  ASSUME NEW p \in FriendPlaces, p # <<>>
  PROVE  /\ Rest(p) \in FriendPlaces
         /\ Rest(p) # <<>> => Call(Rest(p)) = Call(p)
         /\ Rest(p) = <<>> => Step(p) = Call(p)
         /\ Step(p) # "idle" /\ Call(p) # "none"
<1>1. CASE p \in SendPlaces
  BY <1>1, SendPlacesAre, GroupsAre DEF SendPlaces, FriendPlaces
<1>2. CASE p \in AcceptPlaces
  BY <1>2, AcceptPlacesAre, GroupsAre DEF AcceptPlaces, FriendPlaces
<1>3. CASE p \in RejectPlaces
  BY <1>3, RejectPlacesAre, GroupsAre DEF RejectPlaces, FriendPlaces
<1>4. CASE p \in CancelPlaces
  BY <1>4, CancelPlacesAre, GroupsAre DEF CancelPlaces, FriendPlaces
<1>5. CASE p \in RemovePlaces
  BY <1>5, RemovePlacesAre, GroupsAre DEF RemovePlaces, FriendPlaces
<1>6. CASE p \in ListPlaces
  BY <1>6, ListPlacesAre, GroupsAre DEF ListPlaces, FriendPlaces
<1>7. CASE p \in AskPlaces
  BY <1>7, AskPlacesAre, GroupsAre DEF AskPlaces, FriendPlaces
<1>8. CASE p \in CallPlaces
  BY <1>8, CallFriendPlacesAre, GroupsAre DEF CallPlaces, FriendPlaces
<1>9. CASE p \in CreatePlaces
  BY <1>9, CreatePlacesAre, GroupsAre DEF CreatePlaces, FriendPlaces
<1>10. CASE p \in LoadPlaces
  BY <1>10, LoadPlacesAre, GroupsAre DEF LoadPlaces, FriendPlaces
<1>11. QED
  BY <1>1, <1>2, <1>3, <1>4, <1>5, <1>6, <1>7, <1>8, <1>9, <1>10 DEF FriendPlaces

LEMMA EndsAre ==
  /\ Reply("CreateFriendRequest") = S11
  /\ Reply("AcceptFriendRequest") = K10
  /\ Reply("RejectFriendRequest") = J5
  /\ Reply("CancelFriendRequest") = X5
  /\ Reply("RemoveFriend") = U7
  /\ Reply("GetFriendList") = L4
  /\ Reply("GetFriendRequestsList") = Q4
  /\ Reply("CallFriend") = F5
  /\ Reply("AddConversation") = O14
  /\ Reply("GetConversations") = H7
  BY DEF Reply, S11, K10, J5, X5, U7, L4, Q4, F5, O14, H7

\* The last that is left of a call is its reply.
LEMMA ToTheEnd ==
  ASSUME NEW p \in FriendPlaces, p # <<>>
  PROVE  Reply(Call(p)) \in FriendPlaces /\ Reply(Call(p)) # <<>> /\ Step(Reply(Call(p))) = Call(p) /\ Call(Reply(Call(p))) = Call(p)
<1>1. CASE p \in SendPlaces
  BY <1>1, SendPlacesAre, EndsAre, GroupsAre DEF SendPlaces
<1>2. CASE p \in AcceptPlaces
  BY <1>2, AcceptPlacesAre, EndsAre, GroupsAre DEF AcceptPlaces
<1>3. CASE p \in RejectPlaces
  BY <1>3, RejectPlacesAre, EndsAre, GroupsAre DEF RejectPlaces
<1>4. CASE p \in CancelPlaces
  BY <1>4, CancelPlacesAre, EndsAre, GroupsAre DEF CancelPlaces
<1>5. CASE p \in RemovePlaces
  BY <1>5, RemovePlacesAre, EndsAre, GroupsAre DEF RemovePlaces
<1>6. CASE p \in ListPlaces
  BY <1>6, ListPlacesAre, EndsAre, GroupsAre DEF ListPlaces
<1>7. CASE p \in AskPlaces
  BY <1>7, AskPlacesAre, EndsAre, GroupsAre DEF AskPlaces
<1>8. CASE p \in CallPlaces
  BY <1>8, CallFriendPlacesAre, EndsAre, GroupsAre DEF CallPlaces
<1>9. CASE p \in CreatePlaces
  BY <1>9, CreatePlacesAre, EndsAre, GroupsAre DEF CreatePlaces
<1>10. CASE p \in LoadPlaces
  BY <1>10, LoadPlacesAre, EndsAre, GroupsAre DEF LoadPlaces
<1>11. QED
  BY <1>1, <1>2, <1>3, <1>4, <1>5, <1>6, <1>7, <1>8, <1>9, <1>10 DEF FriendPlaces

\* The words a place is made of.
Words == {"AcceptFriendRequest", "AddConversation", "CallFriend", "CancelFriendRequest", "CreateFriendRequest",
    "GetConversations", "GetFriendList", "GetFriendRequestsList", "RejectFriendRequest", "RemoveFriend", "acceptRows",
    "addFriends", "asked", "cacheConversation", "cacheRequest", "cachedLimits", "cachedRequest", "deleteFriends",
    "deleteRequest", "eraseFriends", "eraseRequest", "findConversation", "foundConversation", "incomingRows",
    "insertCaller", "insertConversation", "insertOther", "insertRequest", "isFriend", "listConversation", "listed",
    "nextConversation", "requestRow", "sameRow", "selectConversations", "selectFriends", "selectParticipants",
    "selectRequests", "sentRows", "skipCached", "storeFriends", "storeRequests"}

LEMMA PlacesTyped == FriendPlaces \subseteq Seq(Words)
<1>1. SendPlaces \subseteq Seq(Words)
  <2>1. S1 \in Seq(Words)
    BY DEF S1, Words
  <2>2. S2 \in Seq(Words)
    BY DEF S2, Words
  <2>3. S3 \in Seq(Words)
    BY DEF S3, Words
  <2>4. S4 \in Seq(Words)
    BY DEF S4, Words
  <2>5. S5 \in Seq(Words)
    BY DEF S5, Words
  <2>6. S6 \in Seq(Words)
    BY DEF S6, Words
  <2>7. S7 \in Seq(Words)
    BY DEF S7, Words
  <2>8. S8 \in Seq(Words)
    BY DEF S8, Words
  <2>9. S9 \in Seq(Words)
    BY DEF S9, Words
  <2>10. S10 \in Seq(Words)
    BY DEF S10, Words
  <2>11. S11 \in Seq(Words)
    BY DEF S11, Words
  <2> QED BY <2>1, <2>2, <2>3, <2>4, <2>5, <2>6, <2>7, <2>8, <2>9, <2>10, <2>11 DEF SendPlaces
<1>2. AcceptPlaces \subseteq Seq(Words)
  <2>1. K1 \in Seq(Words)
    BY DEF K1, Words
  <2>2. K2 \in Seq(Words)
    BY DEF K2, Words
  <2>3. K3 \in Seq(Words)
    BY DEF K3, Words
  <2>4. K4 \in Seq(Words)
    BY DEF K4, Words
  <2>5. K5 \in Seq(Words)
    BY DEF K5, Words
  <2>6. K6 \in Seq(Words)
    BY DEF K6, Words
  <2>7. K7 \in Seq(Words)
    BY DEF K7, Words
  <2>8. K8 \in Seq(Words)
    BY DEF K8, Words
  <2>9. K9 \in Seq(Words)
    BY DEF K9, Words
  <2>10. K10 \in Seq(Words)
    BY DEF K10, Words
  <2> QED BY <2>1, <2>2, <2>3, <2>4, <2>5, <2>6, <2>7, <2>8, <2>9, <2>10 DEF AcceptPlaces
<1>3. RejectPlaces \subseteq Seq(Words)
  BY DEF J1, Words, J2, J3, J4, J5, RejectPlaces
<1>4. CancelPlaces \subseteq Seq(Words)
  BY DEF X1, Words, X2, X3, X4, X5, CancelPlaces
<1>5. RemovePlaces \subseteq Seq(Words)
  BY DEF U1, Words, U2, U3, U4, U5, U6, U7, RemovePlaces
<1>6. ListPlaces \subseteq Seq(Words)
  BY DEF L1, Words, L2, L3, L4, ListPlaces
<1>7. AskPlaces \subseteq Seq(Words)
  BY DEF Q1, Words, Q2, Q3, Q4, AskPlaces
<1>8. CallPlaces \subseteq Seq(Words)
  BY DEF F1, Words, F2, F3, F4, F5, CallPlaces
<1>9. CreatePlaces \subseteq Seq(Words)
  <2>1. O1 \in Seq(Words)
    BY DEF O1, Words
  <2>2. O2 \in Seq(Words)
    BY DEF O2, Words
  <2>3. O3 \in Seq(Words)
    BY DEF O3, Words
  <2>4. O4 \in Seq(Words)
    BY DEF O4, Words
  <2>5. O5 \in Seq(Words)
    BY DEF O5, Words
  <2>6. O6 \in Seq(Words)
    BY DEF O6, Words
  <2>7. O7 \in Seq(Words)
    BY DEF O7, Words
  <2>8. O8 \in Seq(Words)
    BY DEF O8, Words
  <2>9. O9 \in Seq(Words)
    BY DEF O9, Words
  <2>10. O10 \in Seq(Words)
    BY DEF O10, Words
  <2>11. O11 \in Seq(Words)
    BY DEF O11, Words
  <2>12. O12 \in Seq(Words)
    BY DEF O12, Words
  <2>13. O13 \in Seq(Words)
    BY DEF O13, Words
  <2>14. O14 \in Seq(Words)
    BY DEF O14, Words
  <2> QED BY <2>1, <2>2, <2>3, <2>4, <2>5, <2>6, <2>7, <2>8, <2>9, <2>10, <2>11, <2>12, <2>13, <2>14 DEF CreatePlaces
<1>10. LoadPlaces \subseteq Seq(Words)
  BY DEF H1, Words, H2, H3, H4, H5, H6, H7, LoadPlaces
<1>11. <<>> \in Seq(Words)
  OBVIOUS
<1> QED BY <1>1, <1>2, <1>3, <1>4, <1>5, <1>6, <1>7, <1>8, <1>9, <1>10, <1>11 DEF FriendPlaces

LEMMA Skipped ==
  ASSUME NEW S, NEW p \in Seq(S), p # <<>>
  PROVE  /\ SubSeq(p, 2, Len(p)) = Rest(p)
         /\ Rest(p) # <<>> => SubSeq(p, 3, Len(p)) = Rest(Rest(p))
  BY SubSeqProperties, SeqEqual DEF Rest

LEMMA Concatenated ==
  ASSUME NEW S, NEW s \in Seq(S), NEW t \in Seq(S), NEW r \in Seq(S), Len(r) = Len(s) + Len(t),
         \A i \in 1..Len(s) : r[i] = s[i], \A i \in 1..Len(t) : r[Len(s) + i] = t[i]
  PROVE  s \o t = r
<1>1. /\ s \o t \in Seq(S) /\ Len(s \o t) = Len(s) + Len(t)
      /\ \A i \in 1..Len(s) + Len(t) : (s \o t)[i] = IF i <= Len(s) THEN s[i] ELSE t[i - Len(s)]
  BY ConcatProperties
<1>2. \A i \in 1..Len(r) : (s \o t)[i] = r[i]
  <2> SUFFICES ASSUME NEW i \in 1..Len(r)
               PROVE  (s \o t)[i] = r[i]
    OBVIOUS
  <2>1. CASE i <= Len(s)
    BY <1>1, <2>1
  <2>2. CASE i > Len(s)
    <3>1. PICK j \in 1..Len(t) : i = Len(s) + j
      <4>1. i - Len(s) \in 1..Len(t) /\ i = Len(s) + (i - Len(s))
        BY <2>2
      <4> QED BY <4>1
    <3>2. i - Len(s) = j
      BY <3>1
    <3>3. (s \o t)[i] = t[j]
      BY <1>1, <2>2, <3>2
    <3> QED BY <3>1, <3>3
  <2> QED BY <2>1, <2>2
<1> QED BY <1>1, <1>2, SeqEqual

LEMMA AppendIs ==
  ASSUME NEW S, NEW s \in Seq(S), NEW r \in Seq(S), NEW e \in S, Len(r) = Len(s) + 1, r[Len(r)] = e,
         \A i \in 1..Len(s) : r[i] = s[i]
  PROVE  Append(s, e) = r
  BY SeqEqual

\* Two steps before the rest of a place that begins with them.
LEMMA PutBefore ==
  ASSUME NEW S, NEW a \in S, NEW b \in S, NEW q \in Seq(S), q # <<>>, Rest(q) # <<>>, Step(q) = a, Step(Rest(q)) = b
  PROVE  <<a, b>> \o Rest(Rest(q)) = q
<1>1. Rest(Rest(q)) = Tail(Tail(q)) /\ Tail(q) # <<>> /\ q[1] = a /\ Tail(q)[1] = b
  BY DEF Rest, Step
<1>2. /\ Tail(q) \in Seq(S) /\ Tail(Tail(q)) \in Seq(S) /\ Len(q) \in Nat /\ Len(q) >= 2 /\ q[2] = b
      /\ Len(Tail(Tail(q))) = Len(q) - 2 /\ \A i \in 1..Len(q) - 2 : Tail(Tail(q))[i] = q[i + 2]
  BY <1>1
<1> DEFINE s == <<a, b>>
           t == Tail(Tail(q))
<1>3. s \in Seq(S) /\ Len(s) = 2 /\ s[1] = a /\ s[2] = b
  OBVIOUS
<1>4. \A i \in 1..2 : i = 1 \/ i = 2
  OBVIOUS
<1>5. t \in Seq(S) /\ Len(q) = 2 + Len(t) /\ \A i \in 1..Len(t) : q[2 + i] = t[i]
  BY <1>2
<1> HIDE DEF s, t
<1>6. Len(q) = Len(s) + Len(t) /\ (\A i \in 1..Len(s) : q[i] = s[i]) /\ \A i \in 1..Len(t) : q[Len(s) + i] = t[i]
  BY <1>1, <1>2, <1>3, <1>4, <1>5
<1>7. s \o t = q
  BY <1>3, <1>5, <1>6, Concatenated
<1> QED BY <1>1, <1>7 DEF s, t

\* A list that has to be downloaded puts two steps before the rest.
LEMMA ListedIs ==
  ASSUME NEW p \in FriendPlaces, Step(p) = "listed"
  PROVE  LET q == <<"selectFriends", "storeFriends">> \o Rest(p)
         IN q \in FriendPlaces /\ q # <<>> /\ Step(q) = "selectFriends" /\ Call(q) = Call(p)
<1> DEFINE a == "selectFriends"
           b == "storeFriends"
<1>1. a \in Words /\ b \in Words
  BY DEF Words
<1>2. ASSUME NEW q \in FriendPlaces, q # <<>>, Rest(q) # <<>>, Step(q) = a, Step(Rest(q)) = b
      PROVE  <<a, b>> \o Rest(Rest(q)) = q
  <2>1. q \in Seq(Words)
    BY PlacesTyped
  <2> HIDE DEF a, b
  <2> QED BY <1>1, <1>2, <2>1, PutBefore
<1>3. ASSUME p = S1
      PROVE  LET q == <<a, b>> \o Rest(p) IN q \in FriendPlaces /\ q # <<>> /\ Step(q) = a /\ Call(q) = Call(p)
  <2>1. /\ S2 # <<>> /\ Rest(S2) # <<>> /\ Step(S2) = a /\ Step(Rest(S2)) = b
        /\ Rest(Rest(S2)) = Rest(p) /\ Call(S2) = Call(p)
    BY <1>3, SendPlacesAre
  <2>2. S2 \in FriendPlaces
    BY GroupsAre DEF SendPlaces
  <2> HIDE DEF a, b
  <2>3. <<a, b>> \o Rest(p) = S2
    BY <1>2, <2>1, <2>2
  <2> QED BY <2>1, <2>2, <2>3
<1>4. ASSUME p = K3
      PROVE  LET q == <<a, b>> \o Rest(p) IN q \in FriendPlaces /\ q # <<>> /\ Step(q) = a /\ Call(q) = Call(p)
  <2>1. /\ K4 # <<>> /\ Rest(K4) # <<>> /\ Step(K4) = a /\ Step(Rest(K4)) = b
        /\ Rest(Rest(K4)) = Rest(p) /\ Call(K4) = Call(p)
    BY <1>4, AcceptPlacesAre
  <2>2. K4 \in FriendPlaces
    BY GroupsAre DEF AcceptPlaces
  <2> HIDE DEF a, b
  <2>3. <<a, b>> \o Rest(p) = K4
    BY <1>2, <2>1, <2>2
  <2> QED BY <2>1, <2>2, <2>3
<1>5. ASSUME p = U1
      PROVE  LET q == <<a, b>> \o Rest(p) IN q \in FriendPlaces /\ q # <<>> /\ Step(q) = a /\ Call(q) = Call(p)
  <2>1. /\ U2 # <<>> /\ Rest(U2) # <<>> /\ Step(U2) = a /\ Step(Rest(U2)) = b
        /\ Rest(Rest(U2)) = Rest(p) /\ Call(U2) = Call(p)
    BY <1>5, RemovePlacesAre
  <2>2. U2 \in FriendPlaces
    BY GroupsAre DEF RemovePlaces
  <2> HIDE DEF a, b
  <2>3. <<a, b>> \o Rest(p) = U2
    BY <1>2, <2>1, <2>2
  <2> QED BY <2>1, <2>2, <2>3
<1>6. ASSUME p = L1
      PROVE  LET q == <<a, b>> \o Rest(p) IN q \in FriendPlaces /\ q # <<>> /\ Step(q) = a /\ Call(q) = Call(p)
  <2>1. /\ L2 # <<>> /\ Rest(L2) # <<>> /\ Step(L2) = a /\ Step(Rest(L2)) = b
        /\ Rest(Rest(L2)) = Rest(p) /\ Call(L2) = Call(p)
    BY <1>6, ListPlacesAre
  <2>2. L2 \in FriendPlaces
    BY GroupsAre DEF ListPlaces
  <2> HIDE DEF a, b
  <2>3. <<a, b>> \o Rest(p) = L2
    BY <1>2, <2>1, <2>2
  <2> QED BY <2>1, <2>2, <2>3
<1>7. ASSUME p = F1
      PROVE  LET q == <<a, b>> \o Rest(p) IN q \in FriendPlaces /\ q # <<>> /\ Step(q) = a /\ Call(q) = Call(p)
  <2>1. /\ F2 # <<>> /\ Rest(F2) # <<>> /\ Step(F2) = a /\ Step(Rest(F2)) = b
        /\ Rest(Rest(F2)) = Rest(p) /\ Call(F2) = Call(p)
    BY <1>7, CallFriendPlacesAre
  <2>2. F2 \in FriendPlaces
    BY GroupsAre DEF CallPlaces
  <2> HIDE DEF a, b
  <2>3. <<a, b>> \o Rest(p) = F2
    BY <1>2, <2>1, <2>2
  <2> QED BY <2>1, <2>2, <2>3
<1>8. ASSUME p = O1
      PROVE  LET q == <<a, b>> \o Rest(p) IN q \in FriendPlaces /\ q # <<>> /\ Step(q) = a /\ Call(q) = Call(p)
  <2>1. /\ O2 # <<>> /\ Rest(O2) # <<>> /\ Step(O2) = a /\ Step(Rest(O2)) = b
        /\ Rest(Rest(O2)) = Rest(p) /\ Call(O2) = Call(p)
    BY <1>8, CreatePlacesAre
  <2>2. O2 \in FriendPlaces
    BY GroupsAre DEF CreatePlaces
  <2> HIDE DEF a, b
  <2>3. <<a, b>> \o Rest(p) = O2
    BY <1>2, <2>1, <2>2
  <2> QED BY <2>1, <2>2, <2>3
<1>9. p \in {S1, K3, U1, L1, F1, O1}
  BY WhereIs
<1> QED BY <1>3, <1>4, <1>5, <1>6, <1>7, <1>8, <1>9

LEMMA AskedIs ==
  ASSUME NEW p \in FriendPlaces, Step(p) = "asked"
  PROVE  LET q == <<"selectRequests", "storeRequests">> \o Rest(p)
         IN q \in FriendPlaces /\ q # <<>> /\ Step(q) = "selectRequests" /\ Call(q) = Call(p)
<1> DEFINE a == "selectRequests"
           b == "storeRequests"
<1>1. a \in Words /\ b \in Words
  BY DEF Words
<1>2. p = Q1
  BY WhereIs
<1>3. /\ Q2 # <<>> /\ Rest(Q2) # <<>> /\ Step(Q2) = a /\ Step(Rest(Q2)) = b
      /\ Rest(Rest(Q2)) = Rest(p) /\ Call(Q2) = Call(p)
  BY <1>2, AskPlacesAre
<1>4. Q2 \in FriendPlaces
  BY GroupsAre DEF AskPlaces
<1>5. Q2 \in Seq(Words)
  BY <1>4, PlacesTyped
<1> HIDE DEF a, b
<1>6. <<a, b>> \o Rest(p) = Q2
  BY <1>1, <1>3, <1>5, PutBefore
<1>7. LET q == <<a, b>> \o Rest(p) IN q \in FriendPlaces /\ q # <<>> /\ Step(q) = a /\ Call(q) = Call(p)
  BY <1>3, <1>4, <1>6
<1> QED BY <1>7 DEF a, b

\* A call left for the step behind end.
After(p, end) ==
    LET ends == {i \in DOMAIN p : p[i] = end}
        first == CHOOSE i \in ends : \A j \in ends : i <= j
    IN IF ends = {} THEN <<p[Len(p)]>> ELSE SubSeq(p, first + 1, Len(p))

LEMMA AfterIs ==
  ASSUME NEW S, NEW p \in Seq(S), NEW u \in Seq(S), NEW end, NEW k \in 1..Len(p),
         p[k] = end /\ (\A j \in 1..(k - 1) : p[j] # end),
         Len(u) = Len(p) - k /\ (\A i \in 1..Len(u) : u[i] = p[k + i])
  PROVE  After(p, end) = u
<1> DEFINE ends == {i \in DOMAIN p : p[i] = end}
<1>1. k \in ends /\ \A j \in ends : k <= j
  OBVIOUS
<1>2. \A i \in ends : (\A j \in ends : i <= j) => i = k
  BY <1>1
<1>3. (CHOOSE i \in ends : \A j \in ends : i <= j) = k
  BY <1>1, <1>2
<1>4. SubSeq(p, k + 1, Len(p)) = u
  <2> DEFINE m == k + 1
             n == Len(p)
  <2>1. m \in Int /\ n \in Int /\ n - m + 1 = Len(u) /\ (m <= n \/ Len(u) = 0)
    OBVIOUS
  <2>2. \A i \in m..n : p[i] \in S
    OBVIOUS
  <2>3. \A i \in 1..Len(u) : p[m + i - 1] = u[i]
    OBVIOUS
  <2> HIDE DEF m, n
  <2>4. /\ SubSeq(p, m, n) \in Seq(S)
        /\ Len(SubSeq(p, m, n)) = IF m <= n THEN n - m + 1 ELSE 0
        /\ \A i \in 1..(n - m + 1) : SubSeq(p, m, n)[i] = p[m + i - 1]
    BY <2>1, <2>2, SubSeqProperties
  <2>5. Len(SubSeq(p, m, n)) = Len(u)
    BY <2>1, <2>4
  <2>6. \A i \in 1..Len(u) : SubSeq(p, m, n)[i] = u[i]
    BY <2>1, <2>3, <2>4
  <2>7. SubSeq(p, m, n) = u
    BY <2>4, <2>5, <2>6, SeqEqual
  <2> QED BY <2>7 DEF m, n
<1> QED BY <1>1, <1>3, <1>4 DEF After

\* A count that fails goes on behind the INSERT.
LEMMA CountLeaves ==
  ASSUME NEW p \in FriendPlaces, Step(p) \in {"sameRow", "sentRows", "incomingRows"}
  PROVE  After(p, "insertRequest") = S10
<1>1. S6 \in Seq(Words) /\ S7 \in Seq(Words) /\ S8 \in Seq(Words) /\ S10 \in Seq(Words)
  BY PlacesTyped, GroupsAre DEF SendPlaces
<1>2. After(S6, "insertRequest") = S10
  <2>1. 4 \in 1..Len(S6) /\ Len(S10) = Len(S6) - 4
    BY DEF S6, S10
  <2>2. S6[4] = "insertRequest" /\ (\A j \in 1..(4 - 1) : S6[j] # "insertRequest")
    BY DEF S6
  <2>3. \A i \in 1..Len(S10) : S10[i] = S6[4 + i]
    BY DEF S6, S10
  <2>4. PICK k, end, p0, u : k = 4 /\ end = "insertRequest" /\ p0 = S6 /\ u = S10
    OBVIOUS
  <2>5. /\ k \in 1..Len(p0) /\ p0 \in Seq(Words) /\ u \in Seq(Words)
        /\ p0[k] = end /\ (\A j \in 1..(k - 1) : p0[j] # end)
        /\ Len(u) = Len(p0) - k /\ (\A i \in 1..Len(u) : u[i] = p0[k + i])
    BY <1>1, <2>1, <2>2, <2>3, <2>4
  <2>6. After(p0, end) = u
    BY <2>5, AfterIs
  <2> QED BY <2>4, <2>6
<1>3. After(S7, "insertRequest") = S10
  <2>1. 3 \in 1..Len(S7) /\ Len(S10) = Len(S7) - 3
    BY DEF S7, S10
  <2>2. S7[3] = "insertRequest" /\ (\A j \in 1..(3 - 1) : S7[j] # "insertRequest")
    BY DEF S7
  <2>3. \A i \in 1..Len(S10) : S10[i] = S7[3 + i]
    BY DEF S7, S10
  <2>4. PICK k, end, p0, u : k = 3 /\ end = "insertRequest" /\ p0 = S7 /\ u = S10
    OBVIOUS
  <2>5. /\ k \in 1..Len(p0) /\ p0 \in Seq(Words) /\ u \in Seq(Words)
        /\ p0[k] = end /\ (\A j \in 1..(k - 1) : p0[j] # end)
        /\ Len(u) = Len(p0) - k /\ (\A i \in 1..Len(u) : u[i] = p0[k + i])
    BY <1>1, <2>1, <2>2, <2>3, <2>4
  <2>6. After(p0, end) = u
    BY <2>5, AfterIs
  <2> QED BY <2>4, <2>6
<1>4. After(S8, "insertRequest") = S10
  <2>1. 2 \in 1..Len(S8) /\ Len(S10) = Len(S8) - 2
    BY DEF S8, S10
  <2>2. S8[2] = "insertRequest" /\ (\A j \in 1..(2 - 1) : S8[j] # "insertRequest")
    BY DEF S8
  <2>3. \A i \in 1..Len(S10) : S10[i] = S8[2 + i]
    BY DEF S8, S10
  <2>4. PICK k, end, p0, u : k = 2 /\ end = "insertRequest" /\ p0 = S8 /\ u = S10
    OBVIOUS
  <2>5. /\ k \in 1..Len(p0) /\ p0 \in Seq(Words) /\ u \in Seq(Words)
        /\ p0[k] = end /\ (\A j \in 1..(k - 1) : p0[j] # end)
        /\ Len(u) = Len(p0) - k /\ (\A i \in 1..Len(u) : u[i] = p0[k + i])
    BY <1>1, <2>1, <2>2, <2>3, <2>4
  <2>6. After(p0, end) = u
    BY <2>5, AfterIs
  <2> QED BY <2>4, <2>6
<1>5. p \in {S6, S7, S8}
  BY WhereIs
<1> QED BY <1>2, <1>3, <1>4, <1>5

\* Where calls begin.
LEMMA FriendCallsBegin ==
  /\ Append(SendFriendRequest, "CreateFriendRequest") = S1
  /\ Append(AcceptFriendRequest, "AcceptFriendRequest") = K1
  /\ Append(RejectFriendRequest, "RejectFriendRequest") = J1
  /\ Append(CancelFriendRequest, "CancelFriendRequest") = X1
  /\ Append(RemoveFriend, "RemoveFriend") = U1
  /\ Append(GetFriendListInRange, "GetFriendList") = L1
  /\ Append(GetFriendRequestListInRange, "GetFriendRequestsList") = Q1
  /\ Append(IsFriend, "CallFriend") = F1
  /\ Append(AddConversation, "AddConversation") = O1
  /\ Append(DownloadConversationsFromRange, "GetConversations") = H1
<1>1. Append(SendFriendRequest, "CreateFriendRequest") = S1
  <2> DEFINE last == <<"cachedLimits", "sameRow", "sentRows", "incomingRows", "insertRequest", "cacheRequest">>
             all == <<"listed", "isFriend", "cachedLimits", "sameRow", "sentRows", "incomingRows", "insertRequest",
               "cacheRequest">>
  <2>1. IsFriend \in Seq(Words) /\ last \in Seq(Words) /\ all \in Seq(Words)
    BY DEF IsFriend, Words
  <2>2. IsFriend \o last = all
    <3>1. Len(all) = Len(IsFriend) + Len(last) /\ (\A i \in 1..Len(IsFriend) : all[i] = IsFriend[i])
      BY DEF IsFriend
    <3>2. \A i \in 1..Len(last) : all[Len(IsFriend) + i] = last[i]
      BY DEF IsFriend
    <3> HIDE DEF last, all
    <3> QED BY <2>1, <3>1, <3>2, Concatenated
  <2>3. Append(all, "CreateFriendRequest") = S1
    <3>1. Len(S1) = Len(all) + 1 /\ S1[Len(S1)] = "CreateFriendRequest" /\ S1 \in Seq(Words) /\ "CreateFriendRequest" \in Words
      BY DEF S1, Words
    <3>2. \A i \in 1..Len(all) : S1[i] = all[i]
      BY DEF S1
    <3> HIDE DEF last, all
    <3> QED BY <2>1, <3>1, <3>2, AppendIs
  <2>4. SendFriendRequest = IsFriend \o last
    BY DEF SendFriendRequest
  <2> HIDE DEF last, all
  <2> QED BY <2>2, <2>3, <2>4
<1>2. Append(AcceptFriendRequest, "AcceptFriendRequest") = K1
  <2> DEFINE last == <<"acceptRows", "eraseRequest", "addFriends">>
             both == <<"cachedRequest", "requestRow", "listed", "isFriend">>
             all == <<"cachedRequest", "requestRow", "listed", "isFriend", "acceptRows", "eraseRequest",
               "addFriends">>
  <2>1. DoesFriendRequestExist \in Seq(Words) /\ IsFriend \in Seq(Words) /\ last \in Seq(Words) /\ both \in Seq(Words) /\ all \in Seq(Words)
    BY DEF DoesFriendRequestExist, IsFriend, Words
  <2>2. DoesFriendRequestExist \o IsFriend = both
    <3>1. Len(both) = Len(DoesFriendRequestExist) + Len(IsFriend) /\ (\A i \in 1..Len(DoesFriendRequestExist) : both[i] = DoesFriendRequestExist[i])
      BY DEF DoesFriendRequestExist, IsFriend
    <3>2. \A i \in 1..Len(IsFriend) : both[Len(DoesFriendRequestExist) + i] = IsFriend[i]
      BY DEF DoesFriendRequestExist, IsFriend
    <3> HIDE DEF last, both, all
    <3> QED BY <2>1, <3>1, <3>2, Concatenated
  <2>3. both \o last = all
    <3>1. Len(all) = Len(both) + Len(last) /\ (\A i \in 1..Len(both) : all[i] = both[i])
      BY DEF DoesFriendRequestExist, IsFriend
    <3>2. \A i \in 1..Len(last) : all[Len(both) + i] = last[i]
      BY DEF DoesFriendRequestExist, IsFriend
    <3> HIDE DEF last, both, all
    <3> QED BY <2>1, <3>1, <3>2, Concatenated
  <2>4. Append(all, "AcceptFriendRequest") = K1
    <3>1. Len(K1) = Len(all) + 1 /\ K1[Len(K1)] = "AcceptFriendRequest" /\ K1 \in Seq(Words) /\ "AcceptFriendRequest" \in Words
      BY DEF K1, Words
    <3>2. \A i \in 1..Len(all) : K1[i] = all[i]
      BY DEF K1
    <3> HIDE DEF last, both, all
    <3> QED BY <2>1, <3>1, <3>2, AppendIs
  <2>5. AcceptFriendRequest = DoesFriendRequestExist \o IsFriend \o last
    BY DEF AcceptFriendRequest
  <2> HIDE DEF last, both, all
  <2> QED BY <2>2, <2>3, <2>4, <2>5
<1>3. Append(RejectFriendRequest, "RejectFriendRequest") = J1
  <2> DEFINE last == <<"deleteRequest", "eraseRequest">>
             all == <<"cachedRequest", "requestRow", "deleteRequest", "eraseRequest">>
  <2>1. DoesFriendRequestExist \in Seq(Words) /\ last \in Seq(Words) /\ all \in Seq(Words)
    BY DEF DoesFriendRequestExist, Words
  <2>2. DoesFriendRequestExist \o last = all
    <3>1. Len(all) = Len(DoesFriendRequestExist) + Len(last) /\ (\A i \in 1..Len(DoesFriendRequestExist) : all[i] = DoesFriendRequestExist[i])
      BY DEF DoesFriendRequestExist
    <3>2. \A i \in 1..Len(last) : all[Len(DoesFriendRequestExist) + i] = last[i]
      BY DEF DoesFriendRequestExist
    <3> HIDE DEF last, all
    <3> QED BY <2>1, <3>1, <3>2, Concatenated
  <2>3. Append(all, "RejectFriendRequest") = J1
    <3>1. Len(J1) = Len(all) + 1 /\ J1[Len(J1)] = "RejectFriendRequest" /\ J1 \in Seq(Words) /\ "RejectFriendRequest" \in Words
      BY DEF J1, Words
    <3>2. \A i \in 1..Len(all) : J1[i] = all[i]
      BY DEF J1
    <3> HIDE DEF last, all
    <3> QED BY <2>1, <3>1, <3>2, AppendIs
  <2>4. RejectFriendRequest = DoesFriendRequestExist \o last
    BY DEF RejectFriendRequest
  <2> HIDE DEF last, all
  <2> QED BY <2>2, <2>3, <2>4
<1>4. Append(CancelFriendRequest, "CancelFriendRequest") = X1
  <2> DEFINE last == <<"deleteRequest", "eraseRequest">>
             all == <<"cachedRequest", "requestRow", "deleteRequest", "eraseRequest">>
  <2>1. DoesFriendRequestExist \in Seq(Words) /\ last \in Seq(Words) /\ all \in Seq(Words)
    BY DEF DoesFriendRequestExist, Words
  <2>2. DoesFriendRequestExist \o last = all
    <3>1. Len(all) = Len(DoesFriendRequestExist) + Len(last) /\ (\A i \in 1..Len(DoesFriendRequestExist) : all[i] = DoesFriendRequestExist[i])
      BY DEF DoesFriendRequestExist
    <3>2. \A i \in 1..Len(last) : all[Len(DoesFriendRequestExist) + i] = last[i]
      BY DEF DoesFriendRequestExist
    <3> HIDE DEF last, all
    <3> QED BY <2>1, <3>1, <3>2, Concatenated
  <2>3. Append(all, "CancelFriendRequest") = X1
    <3>1. Len(X1) = Len(all) + 1 /\ X1[Len(X1)] = "CancelFriendRequest" /\ X1 \in Seq(Words) /\ "CancelFriendRequest" \in Words
      BY DEF X1, Words
    <3>2. \A i \in 1..Len(all) : X1[i] = all[i]
      BY DEF X1
    <3> HIDE DEF last, all
    <3> QED BY <2>1, <3>1, <3>2, AppendIs
  <2>4. CancelFriendRequest = DoesFriendRequestExist \o last
    BY DEF CancelFriendRequest
  <2> HIDE DEF last, all
  <2> QED BY <2>2, <2>3, <2>4
<1>5. Append(RemoveFriend, "RemoveFriend") = U1
  <2> DEFINE last == <<"deleteFriends", "eraseFriends">>
             all == <<"listed", "isFriend", "deleteFriends", "eraseFriends">>
  <2>1. IsFriend \in Seq(Words) /\ last \in Seq(Words) /\ all \in Seq(Words)
    BY DEF IsFriend, Words
  <2>2. IsFriend \o last = all
    <3>1. Len(all) = Len(IsFriend) + Len(last) /\ (\A i \in 1..Len(IsFriend) : all[i] = IsFriend[i])
      BY DEF IsFriend
    <3>2. \A i \in 1..Len(last) : all[Len(IsFriend) + i] = last[i]
      BY DEF IsFriend
    <3> HIDE DEF last, all
    <3> QED BY <2>1, <3>1, <3>2, Concatenated
  <2>3. Append(all, "RemoveFriend") = U1
    <3>1. Len(U1) = Len(all) + 1 /\ U1[Len(U1)] = "RemoveFriend" /\ U1 \in Seq(Words) /\ "RemoveFriend" \in Words
      BY DEF U1, Words
    <3>2. \A i \in 1..Len(all) : U1[i] = all[i]
      BY DEF U1
    <3> HIDE DEF last, all
    <3> QED BY <2>1, <3>1, <3>2, AppendIs
  <2>4. RemoveFriend = IsFriend \o last
    BY DEF RemoveFriend
  <2> HIDE DEF last, all
  <2> QED BY <2>2, <2>3, <2>4
<1>6. Append(GetFriendListInRange, "GetFriendList") = L1
  <2>1. GetFriendListInRange \in Seq(Words) /\ L1 \in Seq(Words) /\ "GetFriendList" \in Words
    BY DEF GetFriendListInRange, L1, Words
  <2>2. Len(L1) = Len(GetFriendListInRange) + 1 /\ L1[Len(L1)] = "GetFriendList"
    BY DEF GetFriendListInRange, L1
  <2>3. \A i \in 1..Len(GetFriendListInRange) : L1[i] = GetFriendListInRange[i]
    BY DEF GetFriendListInRange, L1
  <2> QED BY <2>1, <2>2, <2>3, AppendIs
<1>7. Append(GetFriendRequestListInRange, "GetFriendRequestsList") = Q1
  <2>1. GetFriendRequestListInRange \in Seq(Words) /\ Q1 \in Seq(Words) /\ "GetFriendRequestsList" \in Words
    BY DEF GetFriendRequestListInRange, Q1, Words
  <2>2. Len(Q1) = Len(GetFriendRequestListInRange) + 1 /\ Q1[Len(Q1)] = "GetFriendRequestsList"
    BY DEF GetFriendRequestListInRange, Q1
  <2>3. \A i \in 1..Len(GetFriendRequestListInRange) : Q1[i] = GetFriendRequestListInRange[i]
    BY DEF GetFriendRequestListInRange, Q1
  <2> QED BY <2>1, <2>2, <2>3, AppendIs
<1>8. Append(IsFriend, "CallFriend") = F1
  <2>1. IsFriend \in Seq(Words) /\ F1 \in Seq(Words) /\ "CallFriend" \in Words
    BY DEF IsFriend, F1, Words
  <2>2. Len(F1) = Len(IsFriend) + 1 /\ F1[Len(F1)] = "CallFriend"
    BY DEF IsFriend, F1
  <2>3. \A i \in 1..Len(IsFriend) : F1[i] = IsFriend[i]
    BY DEF IsFriend, F1
  <2> QED BY <2>1, <2>2, <2>3, AppendIs
<1>9. Append(AddConversation, "AddConversation") = O1
  <2> DEFINE all == <<"listed", "isFriend", "findConversation", "cacheConversation", "listConversation",
               "foundConversation", "insertConversation", "insertCaller", "insertOther",
               "cacheConversation", "listConversation">>
  <2>1. IsFriend \in Seq(Words) /\ GetOrCreateConversation \in Seq(Words) /\ all \in Seq(Words)
    BY DEF IsFriend, GetOrCreateConversation, Words
  <2>2. IsFriend \o GetOrCreateConversation = all
    <3>1. Len(all) = Len(IsFriend) + Len(GetOrCreateConversation) /\ (\A i \in 1..Len(IsFriend) : all[i] = IsFriend[i])
      BY DEF IsFriend, GetOrCreateConversation
    <3>2. \A i \in 1..Len(GetOrCreateConversation) : all[Len(IsFriend) + i] = GetOrCreateConversation[i]
      BY DEF IsFriend, GetOrCreateConversation
    <3> HIDE DEF all
    <3> QED BY <2>1, <3>1, <3>2, Concatenated
  <2>3. Append(all, "AddConversation") = O1
    <3>1. Len(O1) = Len(all) + 1 /\ O1[Len(O1)] = "AddConversation" /\ O1 \in Seq(Words) /\ "AddConversation" \in Words
      BY DEF O1, Words
    <3>2. \A i \in 1..Len(all) : O1[i] = all[i]
      BY DEF O1
    <3> HIDE DEF all
    <3> QED BY <2>1, <3>1, <3>2, AppendIs
  <2>4. AddConversation = IsFriend \o GetOrCreateConversation
    BY DEF AddConversation
  <2> HIDE DEF all
  <2> QED BY <2>2, <2>3, <2>4
<1>10. Append(DownloadConversationsFromRange, "GetConversations") = H1
  <2>1. DownloadConversationsFromRange \in Seq(Words) /\ H1 \in Seq(Words) /\ "GetConversations" \in Words
    BY DEF DownloadConversationsFromRange, H1, Words
  <2>2. Len(H1) = Len(DownloadConversationsFromRange) + 1 /\ H1[Len(H1)] = "GetConversations"
    BY DEF DownloadConversationsFromRange, H1
  <2>3. \A i \in 1..Len(DownloadConversationsFromRange) : H1[i] = DownloadConversationsFromRange[i]
    BY DEF DownloadConversationsFromRange, H1
  <2> QED BY <2>1, <2>2, <2>3, AppendIs
<1> QED BY <1>1, <1>2, <1>3, <1>4, <1>5, <1>6, <1>7, <1>8, <1>9, <1>10

(***************************************************************************)
(* How threads move.                                                       *)
(***************************************************************************)
LEMMA WhereThread ==
  ASSUME NEW th \in Threads, pc \in [Threads -> FriendPlaces]
  PROVE  /\ pc[th] \in FriendPlaces
         /\ Busy(th) <=> Doing(th) # "none"
         /\ Busy(th) <=> At(th) # "idle"
         /\ Busy(th) => Op(th) = Doing(th) /\ At(th) = Head(pc[th])
  BY GoesOn DEF Busy, Doing, At, Step, Call, Op

LEMMA AtStepIs ==
  ASSUME NEW th \in Threads, pc \in [Threads -> FriendPlaces], NEW x, AtStep(th, x)
  PROVE  At(th) = x /\ pc[th] # <<>> /\ pc[th] \in FriendPlaces /\ Step(pc[th]) = x /\ Call(pc[th]) = Doing(th) /\ Doing(th) # "none"
  BY WhereThread DEF AtStep, Busy, At, Doing

LEMMA MovedTo ==
  ASSUME NEW th \in Threads, pc \in [Threads -> FriendPlaces], NEW q \in FriendPlaces, pc' = [pc EXCEPT ![th] = q]
  PROVE  /\ pc' \in [Threads -> FriendPlaces]
         /\ At(th)' = Step(q) /\ Doing(th)' = Call(q)
         /\ \A o \in Threads \ {th} : At(o)' = At(o) /\ Doing(o)' = Doing(o)
  BY DEF At, Doing

LEMMA Advanced ==
  ASSUME NEW th \in Threads, pc \in [Threads -> FriendPlaces], NEW x, AtStep(th, x), x # Doing(th), Advance(th)
  PROVE  /\ Moves(th, Step(Rest(pc[th])))
         /\ Rest(pc[th]) \in FriendPlaces /\ Rest(pc[th]) # <<>> /\ Call(Rest(pc[th])) = Doing(th)
<1>1. At(th) = x /\ pc[th] # <<>> /\ pc[th] \in FriendPlaces /\ Call(pc[th]) = Doing(th) /\ Step(pc[th]) = x
  BY AtStepIs
<1>2. PICK q : q = Rest(pc[th])
  OBVIOUS
<1>3. q \in FriendPlaces /\ q # <<>> /\ Call(q) = Doing(th)
  BY <1>1, <1>2, GoesOn
<1>4. pc' = [pc EXCEPT ![th] = q]
  BY <1>1, <1>2 DEF Advance, Rest
<1>5. /\ pc' \in [Threads -> FriendPlaces]
      /\ At(th)' = Step(q) /\ Doing(th)' = Call(q)
      /\ \A o \in Threads \ {th} : At(o)' = At(o) /\ Doing(o)' = Doing(o)
  BY <1>3, <1>4, MovedTo
<1> QED BY <1>2, <1>3, <1>5 DEF Moves

LEMMA Returned ==
  ASSUME NEW th \in Threads, pc \in [Threads -> FriendPlaces], NEW x, AtStep(th, x), Return(th)
  PROVE  Moves(th, Doing(th))
<1>1. pc[th] # <<>> /\ pc[th] \in FriendPlaces /\ Call(pc[th]) = Doing(th)
  BY AtStepIs
<1>2. PICK q : q = Reply(Call(pc[th]))
  OBVIOUS
<1>3. q \in FriendPlaces /\ Step(q) = Doing(th) /\ Call(q) = Doing(th)
  BY <1>1, <1>2, ToTheEnd
<1>4. pc' = [pc EXCEPT ![th] = q]
  BY <1>1, <1>2 DEF Return, Reply, Call, Op
<1>5. /\ pc' \in [Threads -> FriendPlaces]
      /\ At(th)' = Step(q) /\ Doing(th)' = Call(q)
      /\ \A o \in Threads \ {th} : At(o)' = At(o) /\ Doing(o)' = Doing(o)
  BY <1>3, <1>4, MovedTo
<1> QED BY <1>3, <1>5 DEF Moves

LEMMA SkippedOne ==
  ASSUME NEW th \in Threads, pc \in [Threads -> FriendPlaces], NEW x, AtStep(th, x), Skip(th, 1)
  PROVE  Advance(th)
<1>1. pc[th] # <<>> /\ pc[th] \in FriendPlaces
  BY AtStepIs
<1>2. pc[th] \in Seq(Words)
  BY <1>1, PlacesTyped
<1>3. SubSeq(pc[th], 1 + 1, Len(pc[th])) = Tail(pc[th])
  BY <1>1, <1>2, Skipped DEF Rest
<1> QED BY <1>3 DEF Skip, Advance

LEMMA SkippedTwo ==
  ASSUME NEW th \in Threads, pc \in [Threads -> FriendPlaces], NEW x, AtStep(th, x), x # Doing(th),
         Step(Rest(pc[th])) # Doing(th), Skip(th, 2)
  PROVE  Moves(th, Step(Rest(Rest(pc[th]))))
<1>1. At(th) = x /\ pc[th] # <<>> /\ pc[th] \in FriendPlaces /\ Call(pc[th]) = Doing(th) /\ Step(pc[th]) = x
  BY AtStepIs
<1>2. PICK p, r, q : p = pc[th] /\ r = Rest(p) /\ q = Rest(r)
  OBVIOUS
<1>3. r \in FriendPlaces /\ r # <<>> /\ Call(r) = Doing(th)
  BY <1>1, <1>2, GoesOn
<1>4. q \in FriendPlaces /\ q # <<>> /\ Call(q) = Doing(th)
  BY <1>1, <1>2, <1>3, GoesOn
<1>5. p \in Seq(Words)
  BY <1>1, <1>2, PlacesTyped
<1>6. SubSeq(p, 3, Len(p)) = q
  BY <1>1, <1>2, <1>3, <1>5, Skipped
<1>7. pc' = [pc EXCEPT ![th] = q]
  <2>1. 2 + 1 = 3
    OBVIOUS
  <2> QED BY <1>2, <1>6, <2>1 DEF Skip
<1>8. /\ pc' \in [Threads -> FriendPlaces]
      /\ At(th)' = Step(q) /\ Doing(th)' = Call(q)
      /\ \A o \in Threads \ {th} : At(o)' = At(o) /\ Doing(o)' = Doing(o)
  BY <1>4, <1>7, MovedTo
<1> QED BY <1>2, <1>4, <1>8 DEF Moves

LEMMA Left ==
  ASSUME NEW th \in Threads, pc \in [Threads -> FriendPlaces], NEW x, AtStep(th, x),
         x \in {"sameRow", "sentRows", "incomingRows"}, Leave(th, "insertRequest")
  PROVE  Moves(th, "cacheRequest")
<1>1. pc[th] # <<>> /\ pc[th] \in FriendPlaces /\ Call(pc[th]) = Doing(th) /\ Step(pc[th]) = x
  BY AtStepIs
<1>2. PICK p : p = pc[th]
  OBVIOUS
<1>3. After(p, "insertRequest") = S10
  BY <1>1, <1>2, CountLeaves
<1>4. pc' = [pc EXCEPT ![th] = After(p, "insertRequest")]
  BY <1>2 DEF Leave, After, Op
<1>5. S10 \in FriendPlaces /\ Step(S10) = "cacheRequest" /\ Call(S10) = "CreateFriendRequest"
  BY SendPlacesAre, GroupsAre DEF SendPlaces
<1>6. Call(p) = "CreateFriendRequest"
  BY <1>1, <1>2, WhatFor
<1>7. /\ pc' \in [Threads -> FriendPlaces]
      /\ At(th)' = Step(S10) /\ Doing(th)' = Call(S10)
      /\ \A o \in Threads \ {th} : At(o)' = At(o) /\ Doing(o)' = Doing(o)
  BY <1>3, <1>4, <1>5, MovedTo
<1> QED BY <1>1, <1>2, <1>5, <1>6, <1>7 DEF Moves

LEMMA ListAsked ==
  ASSUME NEW th \in Threads, pc \in [Threads -> FriendPlaces], HasFriendListForUserId(th)
  PROVE  \/ fl[th].me \in listed /\ Moves(th, Step(Rest(pc[th])))
         \/ Moves(th, "selectFriends")
<1>1. /\ AtStep(th, "listed")
      /\ pc' = [pc EXCEPT ![th] = IF fl[th].me \in listed THEN Tail(@) ELSE <<"selectFriends", "storeFriends">> \o Tail(@)]
  BY DEF HasFriendListForUserId
<1>2. pc[th] # <<>> /\ pc[th] \in FriendPlaces /\ Call(pc[th]) = Doing(th) /\ Step(pc[th]) = "listed"
  BY <1>1, AtStepIs
<1>3. Doing(th) # "listed"
  BY <1>2, WhatFor
<1>4. CASE fl[th].me \in listed
  BY <1>1, <1>3, <1>4, Advanced DEF Advance
<1>5. CASE fl[th].me \notin listed
  BY <1>1, <1>2, <1>5, ListedIs, MovedTo DEF Rest, Moves
<1> QED BY <1>4, <1>5

LEMMA RequestsAsked ==
  ASSUME NEW th \in Threads, pc \in [Threads -> FriendPlaces], HasFriendRequestListForUserId(th)
  PROVE  Moves(th, Step(Rest(pc[th]))) \/ Moves(th, "selectRequests")
<1>1. /\ AtStep(th, "asked")
      /\ pc' = [pc EXCEPT ![th] = IF fl[th].me \in asked THEN Tail(@) ELSE <<"selectRequests", "storeRequests">> \o Tail(@)]
  BY DEF HasFriendRequestListForUserId
<1>2. pc[th] # <<>> /\ pc[th] \in FriendPlaces /\ Call(pc[th]) = Doing(th) /\ Step(pc[th]) = "asked"
  BY <1>1, AtStepIs
<1>3. Doing(th) # "asked"
  BY <1>2, WhatFor
<1>4. CASE fl[th].me \in asked
  BY <1>1, <1>3, <1>4, Advanced DEF Advance
<1>5. CASE fl[th].me \notin asked
  BY <1>1, <1>2, <1>5, AskedIs, MovedTo DEF Rest, Moves
<1> QED BY <1>4, <1>5

\* A step on, or to the reply.
LEMMA AdvancedIf ==
  ASSUME NEW th \in Threads, pc \in [Threads -> FriendPlaces], NEW x, AtStep(th, x), x # Doing(th), NEW cond, AdvanceIf(th, cond)
  PROVE  (cond /\ Moves(th, Step(Rest(pc[th])))) \/ (~cond /\ Moves(th, Doing(th)))
  BY Advanced, Returned DEF AdvanceIf

(***************************************************************************)
(* What a step of one thread leaves alone.                                 *)
(***************************************************************************)
\* A step within a call: nothing that was doubted is trusted again.
Stepped(th) ==
    /\ \A o \in Threads : Doing(o)' = Doing(o) /\ fl'[o].me = fl[o].me /\ fl'[o].other = fl[o].other
    /\ \A o \in Threads \ {th} : At(o)' = At(o) /\ fl'[o] = fl[o]
    /\ doubted \subseteq doubted' /\ doubled \subseteq doubled' /\ partial \subseteq partial'

LEMMA CallsSame ==
  ASSUME NEW th \in Threads, Stepped(th)
  PROVE  \A o \in Threads : Couple(o)' = Couple(o) /\ Writes(o)' = Writes(o) /\ Target(o)' = Target(o)
  BY DEF Stepped, Couple, Writes, Target

LEMMA Frame ==
  ASSUME NEW th \in Threads, Alone, \A o \in Threads : About(o), Stepped(th)
  PROVE  Alone' /\ \A o \in Threads : About(o)'
  BY CallsSame DEF Alone, Stepped, About

LEMMA DownloadsStayAlone ==
  ASSUME NEW th \in Threads, DownloadsAlone, Stepped(th),
         At(th)' \in {"storeFriends", "storeRequests"} => At(th)' = At(th)
  PROVE  DownloadsAlone'
  BY CallsSame DEF DownloadsAlone, Stepped

\* Rows of other couples are as they were.
RowsKept(th) ==
    \A p \in Pairs : {p[1], p[2]} # Couple(th) \/ ~Writes(th) =>
        friend_requests'[p] = friend_requests[p] /\ friend_list'[p] = friend_list[p]

LEMMA RowsBetweenKept ==
  ASSUME NEW th \in Threads, RowsKept(th), NEW u \in Users, NEW v \in Users, u # v, {u, v} # Couple(th) \/ ~Writes(th)
  PROVE  RowsBetween(u, v)' = RowsBetween(u, v) /\ friend_requests'[<<u, v>>] = friend_requests[<<u, v>>]
  BY DEF Pairs, RowsKept, RowsBetween

LEMMA CallerIs ==
  ASSUME NEW th \in Threads, pc \in [Threads -> FriendPlaces], About(th), At(th) # "idle"
  PROVE  fl[th].me \in Users /\ fl[th].other \in Users /\ Doing(th) # "none"
  BY WhereThread, FriendsAssumption DEF About

LEMMA CoupleIs ==
  ASSUME NEW th \in Threads, pc \in [Threads -> FriendPlaces], About(th), Writes(th)
  PROVE  /\ fl[th].me \in Users /\ fl[th].other \in Users /\ fl[th].me # fl[th].other
         /\ <<fl[th].me, fl[th].other>> \in Pairs /\ <<fl[th].other, fl[th].me>> \in Pairs
         /\ Target(th) \in {<<fl[th].me, fl[th].other>>, <<fl[th].other, fl[th].me>>} /\ Target(th) \in Pairs
         /\ {Target(th)[1], Target(th)[2]} = Couple(th)
         /\ Doing(th) # "none"
  BY FriendsAssumption DEF Writes, FriendWriters, About, Pairs, Target, Couple

LEMMA OthersDownload ==
  ASSUME NEW th \in Threads, pc \in [Threads -> FriendPlaces], FriendTypes, DownloadsAlone,
         \A o \in Threads : About(o), Stepped(th), RowsKept(th), NEW o \in Threads \ {th}, Downloads(o)
  PROVE  Downloads(o)'
<1>1. /\ At(o)' = At(o) /\ fl'[o] = fl[o] /\ doubted \subseteq doubted' /\ partial \subseteq partial'
  BY DEF Stepped
<1>2. PICK me, friends, requests : me = fl[o].me /\ friends = fl[o].friends /\ requests = fl[o].requests
  OBVIOUS
<1>3. ASSUME At(o) = "storeFriends", me \notin partial', NEW v \in Users, me # v, {me, v} \notin doubted'
      PROVE  friends[v] = RowsBetween(me, v)'
  <2>1. me \in Users
    BY <1>2, <1>3, CallerIs
  <2>2. friends[v] = RowsBetween(me, v)
    BY <1>1, <1>2, <1>3 DEF Downloads
  <2>3. {me, v} # Couple(th) \/ ~Writes(th)
    BY <1>1, <1>2, <1>3 DEF DownloadsAlone
  <2>4. RowsBetween(me, v)' = RowsBetween(me, v)
    BY <1>3, <2>1, <2>3, RowsBetweenKept
  <2> QED BY <2>2, <2>4
<1>4. ASSUME At(o) = "storeRequests", NEW p \in requests
      PROVE  me \in {p[1], p[2]} /\ ({p[1], p[2]} \notin doubted' => friend_requests'[p] > 0)
  BY <1>1, <1>2, <1>4 DEF Downloads, FriendTypes, FriendCallType, DownloadsAlone, RowsKept
<1> QED BY <1>1, <1>2, <1>3, <1>4, Zenon DEF Downloads

\* Steps whose claims about a couple only a call that writes of it makes.
WriterSteps == {"cacheRequest", "sentRows", "incomingRows", "insertRequest", "acceptRows", "eraseFriends"}

LEMMA WritersAre ==
  ASSUME NEW th \in Threads, pc \in [Threads -> FriendPlaces]
  PROVE  /\ At(th) \in WriterSteps => Writes(th)
         /\ At(th) = "eraseRequest" => Writes(th)
         /\ Doing(th) = "AcceptFriendRequest" => Writes(th)
         /\ At(th) = "acceptRows" => Doing(th) = "AcceptFriendRequest"
  BY WhatFor DEF At, Doing, Writes, FriendWriters, WriterSteps

LEMMA OthersTrust ==
  ASSUME NEW th \in Threads, pc \in [Threads -> FriendPlaces], Alone, doubted \subseteq doubled,
         \A o \in Threads : About(o), Stepped(th), RowsKept(th), listed \subseteq listed',
         NEW o \in Threads \ {th}, Trusted(o)
  PROVE  Trusted(o)'
<1>1. /\ At(o)' = At(o) /\ fl'[o] = fl[o] /\ Doing(o)' = Doing(o) /\ doubted \subseteq doubted' /\ doubled \subseteq doubled'
  BY DEF Stepped
<1>2. Couple(o)' = Couple(o)
  BY CallsSame
<1>3. PICK me, other, found : me = fl[o].me /\ other = fl[o].other /\ found = fl[o].found
  OBVIOUS
<1>4. fl'[o].me = me /\ fl'[o].other = other /\ fl'[o].found = found
  BY <1>1, <1>3
<1>5. ASSUME Writes(o), Couple(o) \notin doubted
      PROVE  /\ friend_requests'[<<me, other>>] = friend_requests[<<me, other>>]
             /\ friend_requests'[<<other, me>>] = friend_requests[<<other, me>>]
             /\ RowsBetween(me, other)' = RowsBetween(me, other)
  <2>1. me \in Users /\ other \in Users /\ me # other /\ Couple(o) = {me, other} /\ {other, me} = {me, other}
    BY <1>3, <1>5, CoupleIs DEF Couple
  <2>2. {me, other} # Couple(th) \/ ~Writes(th)
    BY <1>5, <2>1 DEF Alone
  <2> QED BY <2>1, <2>2, RowsBetweenKept
<1>6. /\ At(o) = "isFriend" /\ Couple(o) \notin doubted => me \in listed
      /\ At(o) = "cacheRequest" /\ Couple(o) \notin doubted => friend_requests[<<me, other>>] > 0
      /\ At(o) \in {"sentRows", "incomingRows", "insertRequest"} /\ Couple(o) \notin doubted =>
             friend_requests[<<me, other>>] = 0
      /\ At(o) = "acceptRows" => found
      /\ At(o) = "acceptRows" /\ Couple(o) \notin doubled => RowsBetween(me, other) = 0
      /\ At(o) = "eraseFriends" /\ Couple(o) \notin doubted => RowsBetween(me, other) = 0
      /\ Doing(o) = "AcceptFriendRequest" /\ found /\ Couple(o) \notin doubted
           /\ At(o) \in {"requestRow", "listed", "selectFriends", "storeFriends", "isFriend", "acceptRows"} =>
             friend_requests[<<me, other>>] + friend_requests[<<other, me>>] > 0
  BY <1>3, Zenon DEF Trusted
<1>7. /\ At(o) \in {"cacheRequest", "sentRows", "incomingRows", "insertRequest", "acceptRows", "eraseFriends"} => Writes(o)
      /\ Doing(o) = "AcceptFriendRequest" => Writes(o)
  BY WritersAre DEF WriterSteps
<1>8. Couple(o) \notin doubted' => Couple(o) \notin doubted
  BY <1>1
<1>9. Couple(o) \notin doubled' => Couple(o) \notin doubled /\ Couple(o) \notin doubted
  BY <1>1
<1>10. At(o) = "isFriend" /\ Couple(o) \notin doubted' => me \in listed'
  BY <1>6, <1>8
<1>11. At(o) = "cacheRequest" /\ Couple(o) \notin doubted' => friend_requests'[<<me, other>>] > 0
  BY <1>5, <1>6, <1>7, <1>8
<1>12. At(o) \in {"sentRows", "incomingRows", "insertRequest"} /\ Couple(o) \notin doubted' => friend_requests'[<<me, other>>] = 0
  BY <1>5, <1>6, <1>7, <1>8
<1>13. At(o) = "acceptRows" => found
  BY <1>6
<1>14. At(o) = "acceptRows" /\ Couple(o) \notin doubled' => RowsBetween(me, other)' = 0
  BY <1>5, <1>6, <1>7, <1>9
<1>15. At(o) = "eraseFriends" /\ Couple(o) \notin doubted' => RowsBetween(me, other)' = 0
  BY <1>5, <1>6, <1>7, <1>8
<1>16. Doing(o) = "AcceptFriendRequest" /\ found /\ Couple(o) \notin doubted'
         /\ At(o) \in {"requestRow", "listed", "selectFriends", "storeFriends", "isFriend", "acceptRows"} =>
           friend_requests'[<<me, other>>] + friend_requests'[<<other, me>>] > 0
  BY <1>5, <1>6, <1>7, <1>8
<1> QED BY <1>1, <1>2, <1>4, <1>10, <1>11, <1>12, <1>13, <1>14, <1>15, <1>16, Zenon DEF Trusted

(***************************************************************************)
(* Steps that change neither table nor cache.                              *)
(***************************************************************************)
LEMMA StepKeeps ==
  ASSUME FriendsInv, NEW th \in Threads, Stepped(th), RowsKept(th), listed \subseteq listed',
         FriendTypes', DownloadsAlone', RequestsAgree', FriendsAgree', OneFriendship', Downloads(th)', Trusted(th)'
  PROVE  FriendsInv'
  BY Frame, OthersDownload, OthersTrust DEF FriendsInv, CallInv, FriendTypes

LEMMA StepIs ==
  ASSUME FriendTypes, NEW th \in Threads, NEW s, Moves(th, s),
         \/ fl' = fl
         \/ \E rec : fl' = [fl EXCEPT ![th] = rec] /\ rec.me = fl[th].me /\ rec.other = fl[th].other,
         doubted \subseteq doubted', doubled \subseteq doubled', partial \subseteq partial'
  PROVE  Stepped(th) /\ At(th)' = s
  BY DEF FriendTypes, Moves, Stepped

LEMMA OneFriendshipStays ==
  ASSUME OneFriendship, doubled \subseteq doubled', friend_requests' = friend_requests, friend_list' = friend_list
  PROVE  OneFriendship'
  BY DEF OneFriendship, RowsBetween

LEMMA RequestsStay ==
  ASSUME NEW th \in Threads, RequestsAgree, Stepped(th), friend_requests' = friend_requests, FriendRequests' = FriendRequests,
         At(th) = "eraseRequest" => At(th)' = "eraseRequest"
  PROVE  RequestsAgree'
  BY CallsSame DEF RequestsAgree, Stepped, Erasing

\* Who owes Friends what, once th has gone on.
LEMMA OwingStays ==
  ASSUME NEW th \in Threads, Stepped(th), NEW u, NEW v,
         \/ Couple(th) # {u, v}
         \/ /\ Doing(th) = "AcceptFriendRequest" =>
                  (At(th) \in {"eraseRequest", "addFriends"} <=> At(th)' \in {"eraseRequest", "addFriends"})
            /\ At(th) = "eraseFriends" => At(th)' = "eraseFriends"
  PROVE  Owed(u, v)' = Owed(u, v) /\ (Removing(u, v) => Removing(u, v)')
  BY CallsSame DEF Stepped, Adding, Removing, Owed

LEMMA FriendsStay ==
  ASSUME NEW th \in Threads, FriendsAgree, Stepped(th), friend_list' = friend_list, listed' = listed, Friends' = Friends,
         \/ Couple(th) \in doubted'
         \/ /\ Doing(th) = "AcceptFriendRequest" =>
                  (At(th) \in {"eraseRequest", "addFriends"} <=> At(th)' \in {"eraseRequest", "addFriends"})
            /\ At(th) = "eraseFriends" => At(th)' = "eraseFriends"
  PROVE  FriendsAgree'
  BY OwingStays DEF FriendsAgree, Stepped, RowsBetween

\* A step that changes neither table nor cache, from no step that has to change one.
LEMMA QuietFriendStep ==
  ASSUME FriendsInv, NEW th \in Threads, Stepped(th), FriendTypes', friend_requests' = friend_requests, friend_list' = friend_list,
         FriendRequests' = FriendRequests, listed' = listed, Friends' = Friends,
         At(th) \notin {"eraseRequest", "addFriends", "eraseFriends"},
         Couple(th) \in doubted' \/ At(th)' \notin {"eraseRequest", "addFriends"} \/ Doing(th) # "AcceptFriendRequest",
         DownloadsAlone', Downloads(th)', Trusted(th)'
  PROVE  FriendsInv'
  BY RequestsStay, FriendsStay, OneFriendshipStays, StepKeeps DEF FriendsInv, RowsKept, Stepped

LEMMA TypesStay ==
  ASSUME FriendTypes, pc' \in [Threads -> FriendPlaces], UNCHANGED friendVars
  PROVE  FriendTypes'
  BY DEF friendVars, friendTables, friendCaches, friendDoubts, FriendTypes

\* Steps of AcceptFriendRequest from which it relies on a request being there.
PendingSteps == {"requestRow", "listed", "selectFriends", "storeFriends", "isFriend", "acceptRows"}

LEMMA TrustedAfter ==
  ASSUME NEW th \in Threads, Stepped(th), friend_requests' = friend_requests, fl'[th].found = fl[th].found, Trusted(th),
         At(th)' \notin WriterSteps,
         At(th)' = "isFriend" => fl[th].me \in listed' \/ Couple(th) \in doubted',
         At(th)' \in PendingSteps => At(th) \in PendingSteps
  PROVE  Trusted(th)'
  BY CallsSame DEF Stepped, Trusted, PendingSteps, WriterSteps

LEMMA NothingDownloaded ==
  ASSUME NEW th \in Threads, At(th)' \notin {"storeFriends", "storeRequests"}
  PROVE  Downloads(th)'
BY DEF Downloads

\* A step of FriendsInv, taken apart.
LEMMA InvIs ==
  ASSUME FriendsInv, NEW th \in Threads
  PROVE  /\ FriendTypes /\ Alone /\ DownloadsAlone /\ RequestsAgree /\ FriendsAgree /\ OneFriendship
         /\ About(th) /\ Downloads(th) /\ Trusted(th)
         /\ pc \in [Threads -> FriendPlaces] /\ doubted \subseteq doubled
BY DEF FriendsInv, CallInv, FriendTypes

\* A step that changes pc alone.
LEMMA MoveKeeps ==
  ASSUME FriendsInv, NEW th \in Threads, NEW s, Moves(th, s), UNCHANGED friendVars,
         At(th) \notin {"eraseRequest", "addFriends", "eraseFriends"},
         s \notin {"eraseRequest", "addFriends", "storeFriends", "storeRequests"},
         Trusted(th)'
  PROVE  FriendsInv'
  BY InvIs, StepIs, TypesStay, DownloadsStayAlone, NothingDownloaded, QuietFriendStep DEF
     friendVars, friendTables, friendCaches, friendDoubts, Moves

LEMMA HasFriendListKeeps ==
  ASSUME FriendsInv, NEW th \in Threads, HasFriendListForUserId(th)
  PROVE  FriendsInv'
<1>1. AtStep(th, "listed") /\ UNCHANGED friendVars
  BY DEF HasFriendListForUserId
<1>2. FriendTypes /\ Trusted(th) /\ pc \in [Threads -> FriendPlaces]
  BY InvIs
<1>3. At(th) = "listed" /\ Step(pc[th]) = "listed" /\ pc[th] \in FriendPlaces
  BY <1>1, <1>2, AtStepIs
<1>4. PICK s : Moves(th, s) /\ s \in {"isFriend", "GetFriendList", "selectFriends"} /\ (s = "isFriend" => fl[th].me \in listed)
  BY <1>2, <1>3, WhatNext, ListAsked
<1>5. friend_requests' = friend_requests /\ listed' = listed /\ fl' = fl /\ doubted' = doubted /\ doubled' = doubled /\ partial' = partial
  BY <1>1 DEF friendVars, friendTables, friendCaches, friendDoubts
<1>6. Stepped(th) /\ At(th)' = s
  BY <1>2, <1>4, <1>5, StepIs
<1>7. Trusted(th)'
  BY <1>2, <1>3, <1>4, <1>5, <1>6, TrustedAfter DEF WriterSteps, PendingSteps
<1> QED BY <1>1, <1>3, <1>4, <1>7, MoveKeeps

LEMMA HasRequestListKeeps ==
  ASSUME FriendsInv, NEW th \in Threads, HasFriendRequestListForUserId(th)
  PROVE  FriendsInv'
<1>1. AtStep(th, "asked") /\ UNCHANGED friendVars
  BY DEF HasFriendRequestListForUserId
<1>2. FriendTypes /\ Trusted(th) /\ pc \in [Threads -> FriendPlaces]
  BY InvIs
<1>3. At(th) = "asked" /\ Step(pc[th]) = "asked" /\ pc[th] \in FriendPlaces
  BY <1>1, <1>2, AtStepIs
<1>4. PICK s : Moves(th, s) /\ s \in {"GetFriendRequestsList", "selectRequests"}
  BY <1>2, <1>3, WhatNext, RequestsAsked
<1>5. friend_requests' = friend_requests /\ fl' = fl /\ doubted' = doubted /\ doubled' = doubled /\ partial' = partial
  BY <1>1 DEF friendVars, friendTables, friendDoubts
<1>6. Stepped(th) /\ At(th)' = s
  BY <1>2, <1>4, <1>5, StepIs
<1>7. Trusted(th)'
  BY <1>2, <1>4, <1>5, <1>6, TrustedAfter DEF WriterSteps, PendingSteps
<1> QED BY <1>1, <1>3, <1>4, <1>7, MoveKeeps

LEMMA CheckCachedLimitsKeeps ==
  ASSUME FriendsInv, NEW th \in Threads, CheckCachedLimits(th)
  PROVE  FriendsInv'
  BY InvIs, AtStepIs, WhatNext, WhatFor, AdvancedIf, StepIs, TrustedAfter, MoveKeeps DEF
     CheckCachedLimits, friendVars, friendTables, friendDoubts, WriterSteps, PendingSteps

\* The one call that writes of a couple nobody doubts.
LEMMA Sole ==
  ASSUME pc \in [Threads -> FriendPlaces], Alone, NEW th \in Threads, Writes(th), Couple(th) \notin doubted,
         NEW u, NEW v, Couple(th) = {u, v}
  PROVE  /\ \A t \in Threads \ {th} : ~(Writes(t) /\ Couple(t) = {u, v})
         /\ Adding(u, v) <=> Doing(th) = "AcceptFriendRequest" /\ At(th) \in {"eraseRequest", "addFriends"}
         /\ Removing(u, v) <=> At(th) = "eraseFriends"
  BY WritersAre DEF Alone, WriterSteps, Adding, Removing

\* What the friends of the caller are worth while only he writes of the couple.
LEMMA ListIsRight ==
  ASSUME FriendsInv, NEW th \in Threads, Writes(th), Couple(th) \notin doubted, fl[th].me \in listed, fl[th].me \notin partial,
         At(th) \notin {"eraseRequest", "addFriends", "eraseFriends"}
  PROVE  Friends[fl[th].me][fl[th].other] = RowsBetween(fl[th].me, fl[th].other)
<1>1. /\ FriendTypes /\ Alone /\ FriendsAgree /\ About(th) /\ pc \in [Threads -> FriendPlaces]
  BY InvIs
<1>2. PICK me, other : me = fl[th].me /\ other = fl[th].other
  OBVIOUS
<1>3. me \in Users /\ other \in Users /\ me # other /\ Couple(th) = {me, other}
  BY <1>1, <1>2, CoupleIs DEF Couple
<1>4. ~Adding(me, other) /\ ~Removing(me, other)
  BY <1>1, <1>3, Sole
<1>5. Friends[me][other] + Owed(me, other) = RowsBetween(me, other) \/ Removing(me, other)
  BY <1>1, <1>2, <1>3 DEF FriendsAgree
<1>6. Owed(me, other) = 0
  BY <1>4 DEF Owed
<1>7. Friends[me][other] \in Nat
  BY <1>1, <1>3 DEF FriendTypes
<1> QED BY <1>2, <1>4, <1>5, <1>6, <1>7

LEMMA CheckIsFriendKeeps ==
  ASSUME FriendsInv, NEW th \in Threads, CheckIsFriend(th)
  PROVE  FriendsInv'
<1> DEFINE friend == Friends[fl[th].me][fl[th].other] > 0
<1>1. /\ AtStep(th, "isFriend")
      /\ doubled' = IF fl[th].me \in partial THEN doubled \cup {Couple(th)} ELSE doubled
      /\ AdvanceIf(th, CASE Doing(th) = "CreateFriendRequest" -> ~friend
                         [] Doing(th) = "AcceptFriendRequest" -> fl[th].found /\ ~friend
                         [] OTHER -> friend)
  BY InvIs, WhereThread DEF CheckIsFriend, AtStep
<1>2. /\ friend_requests' = friend_requests /\ friend_list' = friend_list /\ listed' = listed /\ Friends' = Friends
      /\ asked' = asked /\ FriendRequests' = FriendRequests /\ fl' = fl /\ doubted' = doubted
      /\ partial' = partial /\ friend_faults' = friend_faults
  BY DEF CheckIsFriend, friendTables, friendCaches
<1>3. FriendTypes /\ Trusted(th) /\ About(th) /\ DownloadsAlone /\ pc \in [Threads -> FriendPlaces] /\ doubted \subseteq doubled
  BY InvIs
<1>4. At(th) = "isFriend" /\ Step(pc[th]) = "isFriend" /\ pc[th] \in FriendPlaces /\ Call(pc[th]) = Doing(th)
  BY <1>1, <1>3, AtStepIs
<1>5. Doing(th) \in {"CreateFriendRequest", "AcceptFriendRequest", "RemoveFriend", "CallFriend", "AddConversation"}
  BY <1>4, WhatFor
<1>6. PICK s : /\ Moves(th, s)
               /\ s \in {"cachedLimits", "acceptRows", "deleteFriends", "CallFriend", "findConversation"} \/ s = Doing(th)
               /\ s = "acceptRows" => Doing(th) = "AcceptFriendRequest" /\ fl[th].found /\ ~friend
  <2>1. PICK cond, q : /\ AdvanceIf(th, cond) /\ q = Step(Rest(pc[th]))
                       /\ Doing(th) = "AcceptFriendRequest" /\ cond => fl[th].found /\ ~friend
    BY <1>1
  <2>2. /\ q \in {"cachedLimits", "acceptRows", "deleteFriends", "CallFriend", "findConversation"}
        /\ q = "acceptRows" => Doing(th) = "AcceptFriendRequest"
    BY <1>4, <1>5, <2>1, WhatNext
  <2>3. (cond /\ Moves(th, q)) \/ (~cond /\ Moves(th, Doing(th)))
    BY <1>1, <1>3, <1>5, <2>1, AdvancedIf
  <2> HIDE DEF friend
  <2> QED BY <1>5, <2>1, <2>2, <2>3
<1>7. doubled \subseteq doubled'
  BY <1>1
<1>8. Stepped(th) /\ At(th)' = s
  BY <1>2, <1>3, <1>6, <1>7, StepIs
<1>9. FriendTypes'
  BY <1>2, <1>3, <1>6, <1>7 DEF Moves, FriendTypes
<1>10. s \notin {"eraseRequest", "addFriends", "storeFriends", "storeRequests", "eraseFriends", "cacheRequest", "sentRows",
                "incomingRows", "insertRequest"}
  BY <1>5, <1>6
<1>11. DownloadsAlone' /\ Downloads(th)'
  BY <1>3, <1>8, <1>10, DownloadsStayAlone, NothingDownloaded
<1>12. Trusted(th)'
  <2>1. CASE s # "acceptRows"
    BY <1>2, <1>3, <1>5, <1>6, <1>8, <1>10, <2>1, TrustedAfter DEF WriterSteps, PendingSteps
  <2>2. CASE s = "acceptRows"
    BY <1>1, <1>2, <1>3, <1>4, <1>6, <1>7, <1>8, <2>2, CallsSame, CoupleIs, ListIsRight DEF Stepped,
       Writes, FriendWriters, Trusted, FriendTypes, RowsBetween
  <2> QED BY <2>1, <2>2
<1>13. At(th) \notin {"eraseRequest", "addFriends", "eraseFriends"} /\ At(th)' \notin {"eraseRequest", "addFriends"}
  BY <1>4, <1>8, <1>10
<1> QED BY <1>2, <1>8, <1>9, <1>11, <1>12, <1>13, QuietFriendStep

(***************************************************************************)
(* Checks before a table is written.                                       *)
(***************************************************************************)
LEMMA Doubting ==
  ASSUME NEW couples, Doubt(couples), doubted \subseteq doubled
  PROVE  doubted \subseteq doubted' /\ doubled \subseteq doubled' /\ doubted' \subseteq doubled' /\ couples \subseteq doubted'
BY DEF Doubt

LEMMA Faulting ==
  ASSUME FriendTypes, FriendFault
  PROVE  friend_faults' \in 0..MaxFriendFaults
BY FriendsAssumption DEF FriendTypes, FriendFault

LEMMA TrustedInDoubt ==
  ASSUME NEW th \in Threads, Stepped(th), Couple(th) \in doubted', doubted' \subseteq doubled', At(th)' # "acceptRows"
  PROVE  Trusted(th)'
  BY CallsSame DEF Trusted

LEMMA NothingTrusted ==
  ASSUME NEW th \in Threads, At(th)' \notin WriterSteps, At(th)' \notin PendingSteps
  PROVE  Trusted(th)'
BY DEF Trusted, WriterSteps, PendingSteps

\* A step that changes pc, the local variables and what is doubted.
LEMMA CheckKeeps ==
  ASSUME FriendsInv, NEW th \in Threads, NEW s, Moves(th, s),
         friend_requests' = friend_requests, friend_list' = friend_list, listed' = listed, Friends' = Friends,
         asked' = asked, FriendRequests' = FriendRequests,
         \/ fl' = fl
         \/ \E rec \in FriendCallType : fl' = [fl EXCEPT ![th] = rec] /\ rec.me = fl[th].me /\ rec.other = fl[th].other,
         doubted \subseteq doubted', doubled \subseteq doubled', doubted' \subseteq doubled',
         partial \subseteq partial', partial' \subseteq Users, friend_faults' \in 0..MaxFriendFaults,
         At(th) \notin {"eraseRequest", "addFriends", "eraseFriends"},
         Couple(th) \in doubted' \/ s \notin {"eraseRequest", "addFriends"} \/ Doing(th) # "AcceptFriendRequest",
         Stepped(th) => (DownloadsAlone' /\ Downloads(th)') \/ s \notin {"storeFriends", "storeRequests"},
         Stepped(th) => Trusted(th)'
  PROVE  FriendsInv'
<1>1. FriendTypes /\ DownloadsAlone
  BY InvIs
<1>2. Stepped(th) /\ At(th)' = s
  BY <1>1, StepIs
<1>3. fl' \in [Threads -> FriendCallType]
  BY <1>1 DEF FriendTypes
<1>4. pc' \in [Threads -> FriendPlaces]
  BY DEF Moves
<1>5. FriendTypes'
  BY <1>1, <1>3, <1>4 DEF FriendTypes
<1>6. DownloadsAlone' /\ Downloads(th)'
  BY <1>1, <1>2, DownloadsStayAlone, NothingDownloaded
<1> QED BY <1>2, <1>5, <1>6, QuietFriendStep

LEMMA CountKeeps ==
  ASSUME FriendsInv, NEW th \in Threads, NEW step \in {"sameRow", "sentRows", "incomingRows"}, NEW passes,
         Count(th, step, passes),
         step = "sameRow" /\ passes => friend_requests[<<fl[th].me, fl[th].other>>] = 0
  PROVE  FriendsInv'
<1>1. FriendTypes /\ Trusted(th) /\ pc \in [Threads -> FriendPlaces] /\ doubted \subseteq doubled
  BY InvIs
<1>2. /\ AtStep(th, step) /\ friend_requests' = friend_requests /\ friend_list' = friend_list /\ listed' = listed
      /\ Friends' = Friends /\ asked' = asked /\ FriendRequests' = FriendRequests /\ fl' = fl
  BY DEF Count, friendTables, friendCaches
<1>3. At(th) = step /\ Step(pc[th]) = step /\ pc[th] \in FriendPlaces /\ Call(pc[th]) = Doing(th)
  BY <1>1, <1>2, AtStepIs
<1>4. Doing(th) = "CreateFriendRequest"
  BY <1>3, WhatFor
<1>5. CASE AdvanceIf(th, passes) /\ UNCHANGED friendDoubts
  <2>1. doubted' = doubted /\ doubled' = doubled /\ partial' = partial /\ friend_faults' = friend_faults
    BY <1>5 DEF friendDoubts
  <2>2. Step(Rest(pc[th])) \in {"sentRows", "incomingRows", "insertRequest"}
    BY <1>3, WhatNext
  <2>3. PICK s : Moves(th, s) /\ s \in {"sentRows", "incomingRows", "insertRequest", "CreateFriendRequest"}
                 /\ (s # "CreateFriendRequest" => passes)
    BY <1>1, <1>2, <1>4, <1>5, <2>2, AdvancedIf
  <2>4. Stepped(th) /\ At(th)' = s
    BY <1>1, <1>2, <2>1, <2>3, StepIs
  <2>5. Trusted(th)'
    BY <1>1, <1>2, <1>3, <1>4, <2>1, <2>3, <2>4, NothingTrusted, CallsSame DEF WriterSteps,
       PendingSteps, Trusted, Stepped
  <2>6. partial' \subseteq Users /\ friend_faults' \in 0..MaxFriendFaults
    BY <1>1, <2>1 DEF FriendTypes
  <2> QED BY <1>1, <1>2, <1>3, <2>1, <2>3, <2>5, <2>6, CheckKeeps
<1>6. CASE Leave(th, "insertRequest") /\ FriendFault /\ Doubt({Couple(th)}) /\ UNCHANGED partial
  <2>1. Moves(th, "cacheRequest")
    BY <1>1, <1>2, <1>6, Left
  <2>2. doubted \subseteq doubted' /\ doubled \subseteq doubled' /\ doubted' \subseteq doubled' /\ Couple(th) \in doubted'
    BY <1>1, <1>6, Doubting
  <2>3. partial' = partial
    BY <1>6
  <2>4. Stepped(th) /\ At(th)' = "cacheRequest"
    BY <1>1, <1>2, <2>1, <2>2, <2>3, StepIs
  <2>5. Trusted(th)'
    BY <2>2, <2>4, TrustedInDoubt
  <2>6. partial' \subseteq Users /\ friend_faults' \in 0..MaxFriendFaults
    BY <1>1, <1>6, <2>3, Faulting DEF FriendTypes
  <2>7. At(th) \notin {"eraseRequest", "addFriends", "eraseFriends"}
    BY <1>3
  <2> QED BY <1>1, <1>2, <2>1, <2>2, <2>3, <2>5, <2>6, <2>7, CheckKeeps
<1> QED BY <1>5, <1>6 DEF Count

LEMMA CountsKeep ==
  ASSUME FriendsInv, NEW th \in Threads, CountSameRow(th) \/ CountSentRows(th) \/ CountIncomingRows(th)
  PROVE  FriendsInv'
  BY CountKeeps DEF CountSameRow, CountSentRows, CountIncomingRows

\* An answer to what the caller has asked himself rests on the row while nobody else writes.
LEMMA CachedIsThere ==
  ASSUME FriendsInv, NEW th \in Threads, Writes(th), Couple(th) \notin doubted, At(th) # "eraseRequest",
         <<fl[th].me, fl[th].other>> \in FriendRequests
  PROVE  friend_requests[<<fl[th].me, fl[th].other>>] > 0
<1>1. RequestsAgree /\ Alone /\ About(th) /\ pc \in [Threads -> FriendPlaces] /\ \A t \in Threads : About(t)
  BY InvIs DEF FriendsInv, CallInv
<1>2. PICK p : p = <<fl[th].me, fl[th].other>> /\ {p[1], p[2]} = Couple(th) /\ p \in FriendRequests
  BY DEF Couple
<1>3. SUFFICES ASSUME Erasing(p)
               PROVE  FALSE
  BY <1>1, <1>2 DEF RequestsAgree
<1>4. PICK t \in Threads : At(t) = "eraseRequest" /\ Target(t) = p
  BY <1>3 DEF Erasing
<1>5. Writes(t)
  BY <1>1, <1>4, WritersAre
<1>6. {Target(t)[1], Target(t)[2]} = Couple(t)
  BY <1>1, <1>5, CoupleIs
<1> QED BY <1>1, <1>2, <1>4, <1>5, <1>6 DEF Alone

LEMMA FindCachedKeeps ==
  ASSUME FriendsInv, NEW th \in Threads, FindCachedRequest(th)
  PROVE  FriendsInv'
<1> DEFINE found == <<fl[th].me, fl[th].other>> \in FriendRequests
<1>1. FriendTypes /\ Trusted(th) /\ About(th) /\ pc \in [Threads -> FriendPlaces] /\ doubted \subseteq doubled
  BY InvIs
<1>2. /\ AtStep(th, "cachedRequest") /\ friend_requests' = friend_requests /\ friend_list' = friend_list /\ listed' = listed
      /\ Friends' = Friends /\ asked' = asked /\ FriendRequests' = FriendRequests
      /\ doubted' = doubted /\ doubled' = doubled /\ partial' = partial /\ friend_faults' = friend_faults
  BY DEF FindCachedRequest, friendTables, friendCaches, friendDoubts
<1>3. fl' = [fl EXCEPT ![th].found = found] /\ Skip(th, IF found THEN 2 ELSE 1)
  BY DEF FindCachedRequest
<1>4. At(th) = "cachedRequest" /\ Step(pc[th]) = "cachedRequest" /\ pc[th] \in FriendPlaces /\ Call(pc[th]) = Doing(th)
      /\ pc[th] # <<>>
  BY <1>1, <1>2, AtStepIs
<1>5. Doing(th) \in {"AcceptFriendRequest", "RejectFriendRequest", "CancelFriendRequest"}
  BY <1>4, WhatFor
<1>6. PICK s : /\ Moves(th, s) /\ s \in {"requestRow", "listed", "deleteRequest"}
               /\ s # "requestRow" => found
  BY <1>1, <1>2, <1>3, <1>4, <1>5, WhatNext, GoesOn, SkippedTwo, SkippedOne, Advanced DEF Step
<1>7. PICK rec \in FriendCallType : /\ rec = [fl[th] EXCEPT !.found = found] /\ fl' = [fl EXCEPT ![th] = rec]
                                    /\ rec.me = fl[th].me /\ rec.other = fl[th].other /\ rec.found = found
  <2>1. fl[th] \in FriendCallType /\ found \in BOOLEAN
    BY <1>1 DEF FriendTypes
  <2>2. PICK rec : rec = [fl[th] EXCEPT !.found = found]
    OBVIOUS
  <2> HIDE DEF found
  <2>3. rec \in FriendCallType /\ rec.me = fl[th].me /\ rec.other = fl[th].other /\ rec.found = found
    BY <2>1, <2>2 DEF FriendCallType
  <2> QED BY <1>3, <2>2, <2>3
<1>8. fl'[th].found = found
  BY <1>1, <1>7 DEF FriendTypes
<1>9. Stepped(th) /\ At(th)' = s
  BY <1>1, <1>2, <1>6, <1>7, StepIs
<1>10. Couple(th)' = Couple(th) /\ Doing(th)' = Doing(th) /\ fl'[th].me = fl[th].me /\ fl'[th].other = fl[th].other
  BY <1>9, CallsSame DEF Stepped
<1>11. Trusted(th)'
  <2>1. s \notin WriterSteps /\ s # "isFriend"
    BY <1>6 DEF WriterSteps
  <2>2. Writes(th)
    BY <1>5 DEF Writes, FriendWriters
  <2>3. PICK me, other : me = fl[th].me /\ other = fl[th].other
    OBVIOUS
  <2>4. ASSUME found, Couple(th) \notin doubted
        PROVE  friend_requests[<<me, other>>] + friend_requests[<<other, me>>] > 0
    BY <1>1, <1>4, <2>2, <2>3, <2>4, CachedIsThere, CoupleIs DEF FriendTypes
  <2> HIDE DEF found
  <2> QED BY <1>2, <1>8, <1>9, <1>10, <2>1, <2>3, <2>4 DEF Trusted, WriterSteps
<1>12. partial' \subseteq Users /\ friend_faults' \in 0..MaxFriendFaults
  BY <1>1, <1>2 DEF FriendTypes
<1>13. At(th) \notin {"eraseRequest", "addFriends", "eraseFriends"}
  BY <1>4
<1> HIDE DEF found
<1> QED BY <1>1, <1>2, <1>6, <1>7, <1>11, <1>12, <1>13, CheckKeeps

LEMMA FindRowKeeps ==
  ASSUME FriendsInv, NEW th \in Threads, FindRequestRow(th)
  PROVE  FriendsInv'
<1>1. FriendTypes /\ About(th) /\ pc \in [Threads -> FriendPlaces] /\ doubted \subseteq doubled
  BY InvIs
<1>2. /\ AtStep(th, "requestRow") /\ friend_requests' = friend_requests /\ friend_list' = friend_list /\ listed' = listed
      /\ Friends' = Friends /\ asked' = asked /\ FriendRequests' = FriendRequests
      /\ doubted' = doubted /\ doubled' = doubled /\ partial' = partial /\ friend_faults' = friend_faults
  BY DEF FindRequestRow, friendTables, friendCaches, friendDoubts
<1>3. At(th) = "requestRow" /\ Step(pc[th]) = "requestRow" /\ pc[th] \in FriendPlaces /\ Call(pc[th]) = Doing(th)
  BY <1>1, <1>2, AtStepIs
<1>4. Doing(th) \in {"AcceptFriendRequest", "RejectFriendRequest", "CancelFriendRequest"}
  BY <1>3, WhatFor
<1>5. Writes(th)
  BY <1>4 DEF Writes, FriendWriters
<1>6. PICK me, other : me = fl[th].me /\ other = fl[th].other
  OBVIOUS
<1>7. friend_requests[<<me, other>>] \in Nat /\ friend_requests[<<other, me>>] \in Nat
  BY <1>1, <1>5, <1>6, CoupleIs DEF FriendTypes
<1>8. PICK found \in BOOLEAN : /\ found => friend_requests[<<other, me>>] > 0
                               /\ fl' = [fl EXCEPT ![th].found = found]
                               /\ AdvanceIf(th, found \/ Op(th) = "AcceptFriendRequest")
  BY <1>6 DEF FindRequestRow
<1>9. PICK s : Moves(th, s) /\ s \in {"listed", "deleteRequest", Doing(th)}
  BY <1>1, <1>2, <1>3, <1>4, <1>8, WhatNext, AdvancedIf
<1>10. PICK rec \in FriendCallType : /\ fl' = [fl EXCEPT ![th] = rec]
                                     /\ rec.me = fl[th].me /\ rec.other = fl[th].other /\ rec.found = found
  <2>1. fl[th] \in FriendCallType
    BY <1>1 DEF FriendTypes
  <2>2. PICK rec : rec = [fl[th] EXCEPT !.found = found]
    OBVIOUS
  <2>3. rec \in FriendCallType /\ rec.me = fl[th].me /\ rec.other = fl[th].other /\ rec.found = found
    BY <2>1, <2>2 DEF FriendCallType
  <2> QED BY <1>8, <2>2, <2>3
<1>11. fl'[th].found = found
  BY <1>1, <1>10 DEF FriendTypes
<1>12. Stepped(th) /\ At(th)' = s
  BY <1>1, <1>2, <1>9, <1>10, StepIs
<1>13. Couple(th)' = Couple(th) /\ Doing(th)' = Doing(th) /\ fl'[th].me = fl[th].me /\ fl'[th].other = fl[th].other
  BY <1>12, CallsSame DEF Stepped
<1>14. Trusted(th)'
  BY <1>2, <1>4, <1>6, <1>7, <1>8, <1>9, <1>11, <1>12, <1>13 DEF WriterSteps, Trusted
<1>15. partial' \subseteq Users /\ friend_faults' \in 0..MaxFriendFaults
  BY <1>1, <1>2 DEF FriendTypes
<1>16. /\ At(th) \notin {"eraseRequest", "addFriends", "eraseFriends"}
       /\ s \notin {"eraseRequest", "addFriends", "storeFriends", "storeRequests"}
  BY <1>3, <1>4, <1>9
<1> QED BY <1>1, <1>2, <1>9, <1>10, <1>14, <1>15, <1>16, CheckKeeps

LEMMA OnlyDoubtful ==
  ASSUME pc \in [Threads -> FriendPlaces], NEW th \in Threads, NEW u, NEW o \in Threads \ {th}, Writes(o), u \in Couple(o)
  PROVE  Couple(o) \in BeingWritten(th, u)
  BY WhereThread DEF Writes, FriendWriters, BeingWritten

LEMMA SelectFriendsKeeps ==
  ASSUME FriendsInv, NEW th \in Threads, SelectFriends(th)
  PROVE  FriendsInv'
<1>1. FriendTypes /\ Trusted(th) /\ About(th) /\ DownloadsAlone /\ pc \in [Threads -> FriendPlaces] /\ doubted \subseteq doubled
  BY InvIs
<1>2. /\ AtStep(th, "selectFriends") /\ friend_requests' = friend_requests /\ friend_list' = friend_list /\ listed' = listed
      /\ Friends' = Friends /\ asked' = asked /\ FriendRequests' = FriendRequests
  BY DEF SelectFriends, friendTables, friendCaches
<1>3. At(th) = "selectFriends" /\ Step(pc[th]) = "selectFriends" /\ pc[th] \in FriendPlaces /\ Call(pc[th]) = Doing(th)
      /\ pc[th] # <<>>
  BY <1>1, <1>2, AtStepIs
<1>4. Doing(th) \in {"CreateFriendRequest", "AcceptFriendRequest", "RemoveFriend", "GetFriendList", "CallFriend",
                     "AddConversation"}
  BY <1>3, WhatFor
<1>5. PICK q : q = Rest(pc[th]) /\ q \in FriendPlaces /\ q # <<>> /\ Call(q) = Doing(th) /\ Step(q) = "storeFriends"
  BY <1>3, WhatNext, GoesOn DEF Step
<1>6. PICK me : me = fl[th].me /\ me \in Users
  BY <1>1, <1>3, CallerIs
<1>7. At(th) \notin {"eraseRequest", "addFriends", "eraseFriends"} /\ "selectFriends" # Doing(th) /\ Step(q) # Doing(th)
  BY <1>3, <1>4, <1>5
<1>8. Advance(th) => Moves(th, "storeFriends")
  BY <1>1, <1>2, <1>5, <1>7, Advanced
<1>9. CASE /\ fl' = [fl EXCEPT ![th].friends = [v \in Users |-> RowsBetween(me, v)]]
           /\ Doubt(BeingWritten(th, me))
           /\ Advance(th)
           /\ partial' = partial /\ friend_faults' = friend_faults
  <2>1. PICK friends : friends = [v \in Users |-> RowsBetween(me, v)]
    OBVIOUS
  <2>2. friends \in [Users -> Nat]
    <3>1. \A v \in Users : RowsBetween(me, v) \in Nat
      BY <1>1, <1>6 DEF RowsBetween, FriendTypes, Pairs
    <3> QED BY <2>1, <3>1
  <2>3. PICK rec \in FriendCallType : /\ fl' = [fl EXCEPT ![th] = rec] /\ rec.friends = friends
                                      /\ rec.me = fl[th].me /\ rec.other = fl[th].other /\ rec.found = fl[th].found
    <3>1. fl[th] \in FriendCallType
      BY <1>1 DEF FriendTypes
    <3>2. PICK rec : rec = [fl[th] EXCEPT !.friends = friends]
      OBVIOUS
    <3>3. rec \in FriendCallType /\ rec.friends = friends /\ rec.me = fl[th].me /\ rec.other = fl[th].other /\ rec.found = fl[th].found
      BY <2>2, <3>1, <3>2 DEF FriendCallType
    <3> QED BY <1>9, <2>1, <3>2, <3>3
  <2>4. /\ doubted \subseteq doubted' /\ doubled \subseteq doubled' /\ doubted' \subseteq doubled'
        /\ BeingWritten(th, me) \subseteq doubted'
    BY <1>1, <1>9, Doubting
  <2>5. Stepped(th) /\ At(th)' = "storeFriends"
    BY <1>1, <1>8, <1>9, <2>3, <2>4, StepIs
  <2>6. fl'[th].found = fl[th].found /\ fl'[th].friends = friends /\ fl'[th].me = me
    BY <1>1, <1>6, <2>3 DEF FriendTypes
  <2>7. Trusted(th)'
    BY <1>1, <1>2, <1>3, <2>5, <2>6, TrustedAfter DEF WriterSteps, PendingSteps
  <2>8. DownloadsAlone'
    BY <1>1, <1>6, <1>9, <2>4, <2>5, CallsSame, OnlyDoubtful DEF DownloadsAlone, Stepped
  <2>9. Downloads(th)'
    BY <1>2, <2>1, <2>5, <2>6 DEF RowsBetween, Downloads
  <2>10. partial' \subseteq Users /\ friend_faults' \in 0..MaxFriendFaults /\ partial \subseteq partial'
    BY <1>1, <1>9 DEF FriendTypes
  <2> QED BY <1>2, <1>7, <1>8, <1>9, <2>3, <2>4, <2>7, <2>8, <2>9, <2>10, CheckKeeps
<1>10. CASE FriendFault /\ Doubt({Couple(th)}) /\ Skip(th, 2) /\ fl' = fl /\ partial' = partial
  BY <1>1, <1>2, <1>5, <1>7, <1>10, Doubting, WhatNext, SkippedTwo, StepIs, TrustedInDoubt,
     Faulting, CheckKeeps DEF FriendTypes
<1>11. CASE FriendFault /\ Doubt({Couple(th)}) /\ Advance(th) /\ partial' = partial \cup {me} /\ fl' = fl
  BY <1>1, <1>2, <1>6, <1>7, <1>8, <1>11, Doubting, Faulting, StepIs, TrustedInDoubt, CallsSame,
     CheckKeeps DEF FriendTypes, Downloads, DownloadsAlone, Stepped
<1> QED BY <1>6, <1>9, <1>10, <1>11 DEF SelectFriends

LEMMA SelectRequestsKeeps ==
  ASSUME FriendsInv, NEW th \in Threads, SelectRequests(th)
  PROVE  FriendsInv'
<1>1. FriendTypes /\ Trusted(th) /\ About(th) /\ DownloadsAlone /\ pc \in [Threads -> FriendPlaces] /\ doubted \subseteq doubled
  BY InvIs
<1>2. /\ AtStep(th, "selectRequests") /\ friend_requests' = friend_requests /\ friend_list' = friend_list /\ listed' = listed
      /\ Friends' = Friends /\ asked' = asked /\ FriendRequests' = FriendRequests
      /\ partial' = partial /\ friend_faults' = friend_faults
  BY DEF SelectRequests, friendTables, friendCaches
<1>3. At(th) = "selectRequests" /\ Step(pc[th]) = "selectRequests" /\ pc[th] \in FriendPlaces /\ Call(pc[th]) = Doing(th)
      /\ pc[th] # <<>>
  BY <1>1, <1>2, AtStepIs
<1>4. Doing(th) = "GetFriendRequestsList"
  BY <1>3, WhatFor
<1>5. PICK q : q = Rest(pc[th]) /\ q \in FriendPlaces /\ q # <<>> /\ Call(q) = Doing(th) /\ Step(q) = "storeRequests"
  BY <1>3, WhatNext, GoesOn DEF Step
<1>6. PICK me : me = fl[th].me
  OBVIOUS
<1>7. At(th) \notin {"eraseRequest", "addFriends", "eraseFriends"} /\ "selectRequests" # Doing(th) /\ Step(q) # Doing(th)
  BY <1>3, <1>4, <1>5
<1>8. partial' \subseteq Users /\ friend_faults' \in 0..MaxFriendFaults /\ partial \subseteq partial'
  BY <1>1, <1>2 DEF FriendTypes
<1>9. CASE /\ fl' = [fl EXCEPT ![th].requests = {p \in Pairs : me \in {p[1], p[2]} /\ friend_requests[p] > 0}]
           /\ Doubt(BeingWritten(th, me))
           /\ Advance(th)
  <2>1. PICK requests : requests = {p \in Pairs : me \in {p[1], p[2]} /\ friend_requests[p] > 0}
    OBVIOUS
  <2>2. PICK rec \in FriendCallType : /\ fl' = [fl EXCEPT ![th] = rec] /\ rec.requests = requests
                                      /\ rec.me = fl[th].me /\ rec.other = fl[th].other /\ rec.found = fl[th].found
    <3>1. fl[th] \in FriendCallType
      BY <1>1 DEF FriendTypes
    <3>2. PICK rec : rec = [fl[th] EXCEPT !.requests = requests]
      OBVIOUS
    <3>3. requests \in SUBSET Pairs
      BY <2>1
    <3>4. /\ rec \in FriendCallType /\ rec.requests = requests /\ rec.me = fl[th].me /\ rec.other = fl[th].other
          /\ rec.found = fl[th].found
      BY <3>1, <3>2, <3>3 DEF FriendCallType
    <3> QED BY <1>9, <2>1, <3>2, <3>4
  <2>3. /\ doubted \subseteq doubted' /\ doubled \subseteq doubled' /\ doubted' \subseteq doubled'
        /\ BeingWritten(th, me) \subseteq doubted'
    BY <1>1, <1>9, Doubting
  <2>4. Moves(th, "storeRequests")
    BY <1>1, <1>2, <1>5, <1>7, <1>9, Advanced
  <2>5. Stepped(th) /\ At(th)' = "storeRequests"
    BY <1>1, <1>8, <2>2, <2>3, <2>4, StepIs
  <2>6. fl'[th].found = fl[th].found /\ fl'[th].requests = requests /\ fl'[th].me = me
    BY <1>1, <1>6, <2>2 DEF FriendTypes
  <2>7. Trusted(th)'
    BY <2>5, NothingTrusted DEF WriterSteps, PendingSteps
  <2>8. DownloadsAlone'
    BY <1>1, <1>2, <1>6, <2>3, <2>5, CallsSame, OnlyDoubtful DEF DownloadsAlone, Stepped
  <2>9. Downloads(th)'
    BY <1>2, <2>1, <2>5, <2>6 DEF Downloads
  <2> QED BY <1>2, <1>7, <1>8, <2>2, <2>3, <2>4, <2>7, <2>8, <2>9, CheckKeeps
<1>10. CASE Skip(th, 2) /\ fl' = fl /\ doubted' = doubted /\ doubled' = doubled
  BY <1>1, <1>2, <1>5, <1>7, <1>8, <1>10, WhatNext, SkippedTwo, StepIs, NothingTrusted, CheckKeeps
     DEF WriterSteps, PendingSteps
<1> QED BY <1>6, <1>9, <1>10 DEF SelectRequests

(***************************************************************************)
(* Steps that write a table or a cache.                                    *)
(***************************************************************************)
\* The types of what such a step leaves alone.
LEMMA FriendTypesKept ==
  ASSUME FriendTypes, NEW th \in Threads, NEW s, Moves(th, s),
         friend_requests' \in [Pairs -> Nat], friend_list' \in [Pairs -> Nat], listed' \subseteq Users,
         Friends' \in [Users -> [Users -> Nat]], asked' \subseteq Users, FriendRequests' \subseteq Pairs,
         fl' \in [Threads -> FriendCallType], doubted' \subseteq doubled', partial' \subseteq Users,
         friend_faults' \in 0..MaxFriendFaults
  PROVE  FriendTypes'
BY DEF FriendTypes, Moves

\* Who was erasing goes on erasing.
LEMMA ErasingStays ==
  ASSUME NEW th \in Threads, Stepped(th), NEW p, Erasing(p), At(th) # "eraseRequest" \/ Target(th) # p
  PROVE  Erasing(p)'
  BY CallsSame DEF Erasing, Stepped

LEMMA StoreFriendsKeeps ==
  ASSUME FriendsInv, NEW th \in Threads, StoreFriends(th)
  PROVE  FriendsInv'
<1>1. /\ FriendTypes /\ Trusted(th) /\ About(th) /\ Downloads(th) /\ DownloadsAlone /\ RequestsAgree /\ FriendsAgree
      /\ OneFriendship /\ pc \in [Threads -> FriendPlaces] /\ doubted \subseteq doubled
  BY InvIs
<1>2. PICK me, friends : me = fl[th].me /\ friends = fl[th].friends
  OBVIOUS
<1>3. /\ AtStep(th, "storeFriends") /\ friend_requests' = friend_requests /\ friend_list' = friend_list
      /\ listed' = listed \cup {me} /\ asked' = asked /\ FriendRequests' = FriendRequests
      /\ doubted' = doubted /\ doubled' = doubled /\ partial' = partial /\ friend_faults' = friend_faults
      /\ Advance(th)
  BY <1>2 DEF StoreFriends, friendTables, friendDoubts
<1>4. Friends' = [Friends EXCEPT ![me] = friends] /\ fl' = [fl EXCEPT ![th].friends = NoFriends]
  BY <1>2 DEF StoreFriends
<1>5. At(th) = "storeFriends" /\ Step(pc[th]) = "storeFriends" /\ pc[th] \in FriendPlaces /\ Call(pc[th]) = Doing(th)
  BY <1>1, <1>3, AtStepIs
<1>6. me \in Users
  BY <1>1, <1>2, <1>5, CallerIs
<1>7. PICK s : Moves(th, s) /\ s \in {"isFriend", "GetFriendList"}
  BY <1>1, <1>3, <1>5, WhatNext, WhatFor, Advanced
<1>8. PICK rec \in FriendCallType : /\ fl' = [fl EXCEPT ![th] = rec] /\ rec.me = fl[th].me /\ rec.other = fl[th].other
                                    /\ rec.found = fl[th].found
  <2>1. fl[th] \in FriendCallType
    BY <1>1 DEF FriendTypes
  <2>2. PICK rec : rec = [fl[th] EXCEPT !.friends = NoFriends]
    OBVIOUS
  <2>3. NoFriends \in [Users -> Nat]
    BY DEF NoFriends
  <2>4. rec \in FriendCallType /\ rec.me = fl[th].me /\ rec.other = fl[th].other /\ rec.found = fl[th].found
    BY <2>1, <2>2, <2>3 DEF FriendCallType
  <2> QED BY <1>4, <2>2, <2>4
<1>9. Stepped(th) /\ At(th)' = s
  BY <1>1, <1>3, <1>7, <1>8, StepIs
<1>10. friends \in [Users -> Nat]
  BY <1>1, <1>2 DEF FriendTypes, FriendCallType
<1>11. FriendTypes'
  BY <1>1, <1>3, <1>4, <1>6, <1>7, <1>8, <1>10, FriendTypesKept DEF FriendTypes
<1>12. RowsKept(th)
  BY <1>3 DEF RowsKept
<1>13. DownloadsAlone' /\ Downloads(th)'
  BY <1>1, <1>7, <1>9, DownloadsStayAlone, NothingDownloaded
<1>14. RequestsAgree' /\ OneFriendship'
  BY <1>1, <1>3, <1>5, <1>9, RequestsStay, OneFriendshipStays
<1>15. FriendsAgree'
  <2> SUFFICES ASSUME NEW u \in Users, NEW v \in Users, u # v, {u, v} \notin doubted', u \in listed' \ partial'
               PROVE  Friends'[u][v] + Owed(u, v)' = RowsBetween(u, v)' \/ Removing(u, v)'
    BY DEF FriendsAgree
  <2>1. RowsBetween(u, v)' = RowsBetween(u, v)
    BY <1>3 DEF RowsBetween
  <2>2. Owed(u, v)' = Owed(u, v) /\ (Removing(u, v) => Removing(u, v)')
    BY <1>5, <1>7, <1>9, OwingStays
  <2>3. CASE u # me
    BY <1>1, <1>3, <1>4, <2>1, <2>2, <2>3 DEF FriendsAgree, FriendTypes
  <2>4. CASE u = me
    <3>1. friends[v] = RowsBetween(me, v)
      BY <1>1, <1>2, <1>3, <1>5, <2>4 DEF Downloads
    <3>2. ~Adding(u, v)
      BY <1>1, <1>2, <1>3, <1>5, <2>4, WritersAre DEF Adding, DownloadsAlone
    <3>3. Friends'[u][v] = friends[v]
      BY <1>1, <1>4, <1>6, <2>4 DEF FriendTypes
    <3>4. friends[v] \in Nat
      BY <1>10
    <3>5. Owed(u, v)' = 0
      BY <2>2, <3>2 DEF Owed
    <3>6. Friends'[u][v] + 0 = RowsBetween(u, v)'
      BY <2>1, <2>4, <3>1, <3>3, <3>4
    <3> QED BY <3>5, <3>6
  <2> QED BY <2>3, <2>4
<1>16. Trusted(th)'
  BY <1>1, <1>2, <1>3, <1>5, <1>7, <1>8, <1>9, TrustedAfter DEF FriendTypes, WriterSteps,
     PendingSteps
<1>17. listed \subseteq listed'
  BY <1>3
<1> QED BY <1>9, <1>11, <1>12, <1>13, <1>14, <1>15, <1>16, <1>17, StepKeeps

LEMMA InsertRequestKeeps ==
  ASSUME FriendsInv, NEW th \in Threads, InsertRequest(th)
  PROVE  FriendsInv'
<1>1. /\ FriendTypes /\ Trusted(th) /\ About(th) /\ DownloadsAlone /\ RequestsAgree /\ FriendsAgree
      /\ OneFriendship /\ pc \in [Threads -> FriendPlaces] /\ doubted \subseteq doubled
  BY InvIs
<1>2. /\ AtStep(th, "insertRequest") /\ friend_list' = friend_list /\ listed' = listed /\ Friends' = Friends
      /\ asked' = asked /\ FriendRequests' = FriendRequests /\ fl' = fl /\ Advance(th)
  BY DEF InsertRequest, friendCaches
<1>3. At(th) = "insertRequest" /\ Step(pc[th]) = "insertRequest" /\ pc[th] \in FriendPlaces /\ Call(pc[th]) = Doing(th)
  BY <1>1, <1>2, AtStepIs
<1>4. Doing(th) = "CreateFriendRequest"
  BY <1>3, WhatFor
<1>5. Moves(th, "cacheRequest")
  BY <1>1, <1>2, <1>3, <1>4, WhatNext, Advanced
<1>6. Writes(th)
  BY <1>4 DEF Writes, FriendWriters
<1>7. PICK me, other, row : me = fl[th].me /\ other = fl[th].other /\ row = <<me, other>>
  OBVIOUS
<1>8. row \in Pairs /\ Couple(th) = {row[1], row[2]} /\ friend_requests[row] \in Nat
  BY <1>1, <1>6, <1>7, CoupleIs DEF Couple, FriendTypes
<1>9. CASE friend_requests' = [friend_requests EXCEPT ![row] = @ + 1] /\ UNCHANGED friendDoubts
  <2>1. doubted' = doubted /\ doubled' = doubled /\ partial' = partial /\ friend_faults' = friend_faults
    BY <1>9 DEF friendDoubts
  <2>2. Stepped(th) /\ At(th)' = "cacheRequest"
    BY <1>1, <1>2, <1>5, <2>1, StepIs
  <2>3. /\ friend_requests' \in [Pairs -> Nat] /\ friend_requests'[row] = friend_requests[row] + 1
        /\ \A p \in Pairs : p # row => friend_requests'[p] = friend_requests[p]
    BY <1>1, <1>8, <1>9 DEF FriendTypes
  <2>4. FriendTypes'
    BY <1>1, <1>2, <1>5, <2>1, <2>3, FriendTypesKept DEF FriendTypes
  <2>5. RowsKept(th)
    BY <1>2, <1>6, <1>8, <2>3 DEF RowsKept
  <2>6. DownloadsAlone' /\ Downloads(th)'
    BY <1>1, <2>2, DownloadsStayAlone, NothingDownloaded
  <2>7. FriendsAgree'
    BY <1>1, <1>2, <1>3, <1>4, <2>2, FriendsStay
  <2>8. RequestsAgree'
    BY <1>1, <1>2, <1>3, <1>8, <2>1, <2>2, <2>3, ErasingStays DEF RequestsAgree, FriendTypes
  <2>9. Couple(th) \notin doubted => friend_requests[row] = 0
    BY <1>1, <1>3, <1>7 DEF Trusted
  <2>10. OneFriendship'
    <3> SUFFICES ASSUME NEW p \in Pairs, {p[1], p[2]} \notin doubled
                 PROVE  RowsBetween(p[1], p[2])' <= 1 /\ friend_requests'[p] <= 1
      BY <2>1 DEF OneFriendship
    <3>1. RowsBetween(p[1], p[2]) <= 1 /\ friend_requests[p] <= 1
      BY <1>1 DEF OneFriendship
    <3>2. RowsBetween(p[1], p[2])' = RowsBetween(p[1], p[2])
      BY <1>2 DEF RowsBetween
    <3>3. CASE p = row
      BY <1>1, <1>8, <2>3, <2>9, <3>1, <3>2, <3>3
    <3>4. CASE p # row
      BY <2>3, <3>1, <3>2, <3>4
    <3> QED BY <3>3, <3>4
  <2>11. Trusted(th)'
    BY <1>2, <1>7, <1>8, <2>2, <2>3 DEF Trusted
  <2>12. listed \subseteq listed'
    BY <1>2
  <2> QED BY <2>2, <2>4, <2>5, <2>6, <2>7, <2>8, <2>10, <2>11, <2>12, StepKeeps
<1>10. CASE FriendFault /\ Doubt({Couple(th)}) /\ friend_requests' = friend_requests /\ partial' = partial
  BY <1>1, <1>2, <1>3, <1>5, <1>10, Doubting, StepIs, TrustedInDoubt, Faulting, CheckKeeps DEF
     FriendTypes
<1> QED BY <1>7, <1>9, <1>10 DEF InsertRequest

LEMMA CacheRequestKeeps ==
  ASSUME FriendsInv, NEW th \in Threads, CacheRequest(th)
  PROVE  FriendsInv'
<1>1. /\ FriendTypes /\ Trusted(th) /\ About(th) /\ DownloadsAlone /\ RequestsAgree /\ FriendsAgree
      /\ OneFriendship /\ pc \in [Threads -> FriendPlaces] /\ doubted \subseteq doubled
  BY InvIs
<1>2. PICK me, other, row : me = fl[th].me /\ other = fl[th].other /\ row = <<me, other>>
  OBVIOUS
<1>3. /\ AtStep(th, "cacheRequest") /\ friend_requests' = friend_requests /\ friend_list' = friend_list /\ listed' = listed
      /\ Friends' = Friends /\ asked' = asked \cup {me} /\ FriendRequests' = FriendRequests \cup {row} /\ fl' = fl
      /\ doubted' = doubted /\ doubled' = doubled /\ partial' = partial /\ friend_faults' = friend_faults /\ Advance(th)
  BY <1>2 DEF CacheRequest, friendTables, friendDoubts
<1>4. At(th) = "cacheRequest" /\ Step(pc[th]) = "cacheRequest" /\ pc[th] \in FriendPlaces /\ Call(pc[th]) = Doing(th)
  BY <1>1, <1>3, AtStepIs
<1>5. Doing(th) = "CreateFriendRequest"
  BY <1>4, WhatFor
<1>6. Moves(th, "CreateFriendRequest")
  BY <1>1, <1>3, <1>4, <1>5, WhatNext, Advanced
<1>7. Writes(th)
  BY <1>5 DEF Writes, FriendWriters
<1>8. row \in Pairs /\ Couple(th) = {row[1], row[2]} /\ me \in Users
  BY <1>1, <1>2, <1>7, CoupleIs DEF Couple
<1>9. Stepped(th) /\ At(th)' = "CreateFriendRequest"
  BY <1>1, <1>3, <1>6, StepIs
<1>10. FriendTypes'
  BY <1>1, <1>3, <1>6, <1>8, FriendTypesKept DEF FriendTypes
<1>11. RowsKept(th)
  BY <1>3 DEF RowsKept
<1>12. DownloadsAlone' /\ Downloads(th)'
  BY <1>1, <1>9, DownloadsStayAlone, NothingDownloaded
<1>13. OneFriendship' /\ Trusted(th)'
  BY <1>1, <1>3, <1>9, OneFriendshipStays, NothingTrusted DEF WriterSteps, PendingSteps
<1>14. FriendsAgree'
  BY <1>1, <1>3, <1>4, <1>5, <1>9, FriendsStay
<1>15. RequestsAgree'
  BY <1>1, <1>2, <1>3, <1>4, <1>8, <1>9, ErasingStays DEF RequestsAgree, Trusted
<1>16. listed \subseteq listed'
  BY <1>3
<1> QED BY <1>9, <1>10, <1>11, <1>12, <1>13, <1>14, <1>15, <1>16, StepKeeps

LEMMA StoreRequestsKeeps ==
  ASSUME FriendsInv, NEW th \in Threads, StoreRequests(th)
  PROVE  FriendsInv'
<1>1. /\ FriendTypes /\ Trusted(th) /\ About(th) /\ Downloads(th) /\ DownloadsAlone /\ RequestsAgree /\ FriendsAgree
      /\ OneFriendship /\ pc \in [Threads -> FriendPlaces] /\ doubted \subseteq doubled
  BY InvIs
<1>2. PICK requests : requests = fl[th].requests
  OBVIOUS
<1>3. /\ AtStep(th, "storeRequests") /\ friend_requests' = friend_requests /\ friend_list' = friend_list /\ listed' = listed
      /\ Friends' = Friends /\ asked' = asked \cup {p[1] : p \in requests} /\ FriendRequests' = FriendRequests \cup requests
      /\ doubted' = doubted /\ doubled' = doubled /\ partial' = partial /\ friend_faults' = friend_faults /\ Advance(th)
  BY <1>2 DEF StoreRequests, friendTables, friendDoubts
<1>4. fl' = [fl EXCEPT ![th].requests = {}]
  BY DEF StoreRequests
<1>5. At(th) = "storeRequests" /\ Step(pc[th]) = "storeRequests" /\ pc[th] \in FriendPlaces /\ Call(pc[th]) = Doing(th)
  BY <1>1, <1>3, AtStepIs
<1>6. Doing(th) = "GetFriendRequestsList"
  BY <1>5, WhatFor
<1>7. Moves(th, "GetFriendRequestsList")
  BY <1>1, <1>3, <1>5, <1>6, WhatNext, Advanced
<1>8. PICK rec \in FriendCallType : fl' = [fl EXCEPT ![th] = rec] /\ rec.me = fl[th].me /\ rec.other = fl[th].other
  <2>1. fl[th] \in FriendCallType
    BY <1>1 DEF FriendTypes
  <2>2. PICK rec : rec = [fl[th] EXCEPT !.requests = {}]
    OBVIOUS
  <2>3. rec \in FriendCallType /\ rec.me = fl[th].me /\ rec.other = fl[th].other
    BY <2>1, <2>2 DEF FriendCallType
  <2> QED BY <1>4, <2>2, <2>3
<1>9. Stepped(th) /\ At(th)' = "GetFriendRequestsList"
  BY <1>1, <1>3, <1>7, <1>8, StepIs
<1>10. requests \subseteq Pairs
  BY <1>1, <1>2 DEF FriendTypes, FriendCallType
<1>11. FriendTypes'
  BY <1>1, <1>3, <1>7, <1>8, <1>10, FriendTypesKept DEF FriendTypes, Pairs
<1>12. RowsKept(th)
  BY <1>3 DEF RowsKept
<1>13. DownloadsAlone' /\ Downloads(th)'
  BY <1>1, <1>9, DownloadsStayAlone, NothingDownloaded
<1>14. OneFriendship' /\ Trusted(th)'
  BY <1>1, <1>3, <1>9, OneFriendshipStays, NothingTrusted DEF WriterSteps, PendingSteps
<1>15. FriendsAgree'
  BY <1>1, <1>3, <1>5, <1>6, <1>9, FriendsStay
<1>16. RequestsAgree'
  BY <1>1, <1>2, <1>3, <1>5, <1>9, ErasingStays DEF RequestsAgree, Downloads
<1>17. listed \subseteq listed'
  BY <1>3
<1> QED BY <1>9, <1>11, <1>12, <1>13, <1>14, <1>15, <1>16, <1>17, StepKeeps

LEMMA AnsweredIs ==
  ASSUME NEW th \in Threads, pc \in [Threads -> FriendPlaces], Doing(th) # "none"
  PROVE  Answered(th) = Target(th)
  BY WhereThread DEF Answered, Target

\* After the row of a request is gone, or is believed to be, its entry is erased.
LEMMA RowGone ==
  ASSUME NEW th \in Threads, pc \in [Threads -> FriendPlaces], FriendTypes, RequestsAgree, Stepped(th), FriendRequests' = FriendRequests,
         At(th) # "eraseRequest", At(th)' = "eraseRequest",
         \A p \in Pairs : p # Target(th) => friend_requests'[p] = friend_requests[p]
  PROVE  RequestsAgree'
  BY CallsSame, ErasingStays DEF RequestsAgree, Stepped, FriendTypes, Erasing

LEMMA DeleteRequestKeeps ==
  ASSUME FriendsInv, NEW th \in Threads, DeleteRequest(th)
  PROVE  FriendsInv'
<1>1. /\ FriendTypes /\ Trusted(th) /\ About(th) /\ DownloadsAlone /\ RequestsAgree /\ FriendsAgree
      /\ OneFriendship /\ pc \in [Threads -> FriendPlaces] /\ doubted \subseteq doubled
  BY InvIs
<1>2. /\ AtStep(th, "deleteRequest") /\ listed' = listed /\ Friends' = Friends /\ asked' = asked
      /\ FriendRequests' = FriendRequests /\ fl' = fl /\ Advance(th)
  BY DEF DeleteRequest, Execute, friendCaches
<1>3. At(th) = "deleteRequest" /\ Step(pc[th]) = "deleteRequest" /\ pc[th] \in FriendPlaces /\ Call(pc[th]) = Doing(th)
  BY <1>1, <1>2, AtStepIs
<1>4. Doing(th) \in {"RejectFriendRequest", "CancelFriendRequest"}
  BY <1>3, WhatFor
<1>5. Moves(th, "eraseRequest")
  BY <1>1, <1>2, <1>3, <1>4, WhatNext, Advanced
<1>6. Writes(th)
  BY <1>4 DEF Writes, FriendWriters
<1>7. PICK row : row = Target(th) /\ row = Answered(th) /\ row \in Pairs /\ Couple(th) = {row[1], row[2]}
  BY <1>1, <1>4, <1>6, CoupleIs, AnsweredIs
<1>8. friend_list' = friend_list
  BY DEF DeleteRequest, Execute, friendTables
<1>9. CASE friend_requests' = [friend_requests EXCEPT ![row] = 0] /\ UNCHANGED friendDoubts
  <2>1. doubted' = doubted /\ doubled' = doubled /\ partial' = partial /\ friend_faults' = friend_faults
    BY <1>9 DEF friendDoubts
  <2>2. Stepped(th) /\ At(th)' = "eraseRequest"
    BY <1>1, <1>2, <1>5, <2>1, StepIs
  <2>3. /\ friend_requests' \in [Pairs -> Nat] /\ friend_requests'[row] = 0
        /\ \A p \in Pairs : p # row => friend_requests'[p] = friend_requests[p]
    BY <1>1, <1>7, <1>9 DEF FriendTypes
  <2>4. FriendTypes'
    BY <1>1, <1>2, <1>5, <1>8, <2>1, <2>3, FriendTypesKept DEF FriendTypes
  <2>5. RowsKept(th)
    BY <1>6, <1>7, <1>8, <2>3 DEF RowsKept
  <2>6. DownloadsAlone' /\ Downloads(th)' /\ Trusted(th)'
    BY <1>1, <2>2, DownloadsStayAlone, NothingDownloaded, NothingTrusted DEF WriterSteps, PendingSteps
  <2>7. FriendsAgree'
    BY <1>1, <1>2, <1>3, <1>4, <1>8, <2>2, FriendsStay
  <2>8. RequestsAgree'
    BY <1>1, <1>2, <1>3, <1>7, <2>2, <2>3, RowGone
  <2>9. OneFriendship'
    BY <1>1, <1>8, <2>1, <2>3 DEF OneFriendship, RowsBetween
  <2>10. listed \subseteq listed'
    BY <1>2
  <2> QED BY <2>2, <2>4, <2>5, <2>6, <2>7, <2>8, <2>9, <2>10, StepKeeps
<1>10. CASE FriendFault /\ Doubt({Couple(th)}) /\ friend_requests' = friend_requests /\ partial' = partial
  BY <1>1, <1>2, <1>3, <1>5, <1>8, <1>10, Doubting, StepIs, TrustedInDoubt, Faulting, CheckKeeps DEF
     FriendTypes
<1>11. \/ friend_requests' = [friend_requests EXCEPT ![row] = 0] /\ UNCHANGED friendDoubts
       \/ FriendFault /\ Doubt({Couple(th)}) /\ friend_requests' = friend_requests /\ partial' = partial
  BY <1>7 DEF DeleteRequest, Execute, friendTables
<1> QED BY <1>9, <1>10, <1>11

LEMMA EraseRequestKeeps ==
  ASSUME FriendsInv, NEW th \in Threads, EraseRequest(th)
  PROVE  FriendsInv'
<1>1. /\ FriendTypes /\ Trusted(th) /\ About(th) /\ DownloadsAlone /\ RequestsAgree /\ FriendsAgree
      /\ OneFriendship /\ pc \in [Threads -> FriendPlaces] /\ doubted \subseteq doubled
  BY InvIs
<1>2. /\ AtStep(th, "eraseRequest") /\ friend_requests' = friend_requests /\ friend_list' = friend_list /\ listed' = listed
      /\ Friends' = Friends /\ asked' = asked /\ FriendRequests' = FriendRequests \ {Answered(th)} /\ fl' = fl
      /\ doubted' = doubted /\ doubled' = doubled /\ partial' = partial /\ friend_faults' = friend_faults /\ Advance(th)
  BY DEF EraseRequest, friendTables, friendDoubts
<1>3. At(th) = "eraseRequest" /\ Step(pc[th]) = "eraseRequest" /\ pc[th] \in FriendPlaces /\ Call(pc[th]) = Doing(th)
  BY <1>1, <1>2, AtStepIs
<1>4. Doing(th) \in {"AcceptFriendRequest", "RejectFriendRequest", "CancelFriendRequest"}
  BY <1>3, WhatFor
<1>5. PICK s : Moves(th, s) /\ s = IF Doing(th) = "AcceptFriendRequest" THEN "addFriends" ELSE Doing(th)
  BY <1>1, <1>2, <1>3, <1>4, WhatNext, Advanced
<1>6. Writes(th)
  BY <1>4 DEF Writes, FriendWriters
<1>7. Answered(th) = Target(th)
  BY <1>1, <1>4, AnsweredIs
<1>8. Stepped(th) /\ At(th)' = s
  BY <1>1, <1>2, <1>5, StepIs
<1>9. FriendTypes'
  BY <1>1, <1>2, <1>5, FriendTypesKept DEF FriendTypes
<1>10. RowsKept(th)
  BY <1>2 DEF RowsKept
<1>11. DownloadsAlone' /\ Downloads(th)' /\ Trusted(th)'
  BY <1>1, <1>4, <1>5, <1>8, DownloadsStayAlone, NothingDownloaded, NothingTrusted DEF WriterSteps,
     PendingSteps
<1>12. OneFriendship'
  BY <1>1, <1>2, OneFriendshipStays
<1>13. FriendsAgree'
  BY <1>1, <1>2, <1>3, <1>5, <1>8, FriendsStay
<1>14. RequestsAgree'
  BY <1>1, <1>2, <1>7, <1>8, ErasingStays DEF RequestsAgree
<1>15. listed \subseteq listed'
  BY <1>2
<1> QED BY <1>8, <1>9, <1>10, <1>11, <1>12, <1>13, <1>14, <1>15, StepKeeps

LEMMA SoleAfter ==
  ASSUME pc \in [Threads -> FriendPlaces], Alone, NEW th \in Threads, Writes(th), Couple(th) \notin doubted, Stepped(th),
         NEW u, NEW v, Couple(th) = {u, v}
  PROVE  /\ Adding(u, v)' <=> Doing(th) = "AcceptFriendRequest" /\ At(th)' \in {"eraseRequest", "addFriends"}
         /\ Removing(u, v)' <=> At(th)' = "eraseFriends"
<1>1. \A t \in Threads \ {th} : ~(Writes(t) /\ Couple(t) = {u, v})
  BY Sole
<1>2. \A t \in Threads : Doing(t)' = Doing(t) /\ Couple(t)' = Couple(t)
  BY CallsSame DEF Stepped
<1>3. \A t \in Threads \ {th} : At(t)' = At(t)
  BY DEF Stepped
<1>4. \A t \in Threads : (Doing(t) = "AcceptFriendRequest" => Writes(t)) /\ (At(t) = "eraseFriends" => Writes(t))
  BY WritersAre DEF WriterSteps
<1>5. Adding(u, v)' <=> Doing(th) = "AcceptFriendRequest" /\ At(th)' \in {"eraseRequest", "addFriends"}
  BY <1>1, <1>2, <1>4 DEF Adding
<1>6. Removing(u, v)' <=> At(th)' = "eraseFriends"
  BY <1>1, <1>2, <1>3, <1>4 DEF Removing
<1> QED BY <1>5, <1>6

\* A step that writes of its couple only: what is cached of other couples is as right as it was.
LEMMA OthersAgree ==
  ASSUME NEW th \in Threads, FriendsInv, Stepped(th), Writes(th), FriendTypes', RowsKept(th),
         NEW u \in Users, NEW v \in Users, u # v, {u, v} # Couple(th), {u, v} \notin doubted', u \in listed, u \notin partial',
         Friends'[u][v] = Friends[u][v]
  PROVE  Friends'[u][v] + Owed(u, v)' = RowsBetween(u, v)' \/ Removing(u, v)'
  BY InvIs, OwingStays, RowsBetweenKept DEF Stepped, FriendsAgree

LEMMA AcceptRowsKeeps ==
  ASSUME FriendsInv, NEW th \in Threads, AcceptRows(th)
  PROVE  FriendsInv'
<1>1. /\ FriendTypes /\ Trusted(th) /\ About(th) /\ Alone /\ DownloadsAlone /\ RequestsAgree /\ FriendsAgree
      /\ OneFriendship /\ pc \in [Threads -> FriendPlaces] /\ doubted \subseteq doubled
  BY InvIs
<1>2. /\ AtStep(th, "acceptRows") /\ listed' = listed /\ Friends' = Friends /\ asked' = asked
      /\ FriendRequests' = FriendRequests /\ fl' = fl /\ Advance(th)
  BY DEF AcceptRows, Execute, friendCaches
<1>3. At(th) = "acceptRows" /\ Step(pc[th]) = "acceptRows" /\ pc[th] \in FriendPlaces /\ Call(pc[th]) = Doing(th)
  BY <1>1, <1>2, AtStepIs
<1>4. Doing(th) = "AcceptFriendRequest"
  BY <1>3, WhatFor
<1>5. Moves(th, "eraseRequest")
  BY <1>1, <1>2, <1>3, <1>4, WhatNext, Advanced
<1>6. Writes(th)
  BY <1>4 DEF Writes, FriendWriters
<1>7. PICK me, other, row : /\ me = fl[th].me /\ other = fl[th].other /\ row = <<other, me>>
                            /\ row = Target(th) /\ row = Answered(th) /\ row \in Pairs /\ Couple(th) = {me, other}
                            /\ me \in Users /\ other \in Users /\ me # other /\ Couple(th) = {row[1], row[2]}
  <2>1. PICK me, other, row : me = fl[th].me /\ other = fl[th].other /\ row = <<other, me>>
    OBVIOUS
  <2>2. row = Target(th) /\ row = Answered(th)
    BY <1>1, <1>4, <2>1, AnsweredIs DEF Target
  <2>3. /\ fl[th].me \in Users /\ fl[th].other \in Users /\ fl[th].me # fl[th].other
        /\ <<fl[th].other, fl[th].me>> \in Pairs
    BY <1>1, <1>6, CoupleIs
  <2>4. Couple(th) = {me, other} /\ row[1] = other /\ row[2] = me
    BY <2>1 DEF Couple
  <2> QED BY <2>1, <2>2, <2>3, <2>4
<1>8. CASE /\ friend_list' = [friend_list EXCEPT ![row] = @ + 1]
           /\ friend_requests' = [friend_requests EXCEPT ![row] = 0]
           /\ UNCHANGED friendDoubts
  <2>1. doubted' = doubted /\ doubled' = doubled /\ partial' = partial /\ friend_faults' = friend_faults
    BY <1>8 DEF friendDoubts
  <2>2. Stepped(th) /\ At(th)' = "eraseRequest"
    BY <1>1, <1>2, <1>5, <2>1, StepIs
  <2>3. /\ friend_requests' \in [Pairs -> Nat] /\ friend_requests'[row] = 0
        /\ \A p \in Pairs : p # row => friend_requests'[p] = friend_requests[p]
    BY <1>1, <1>7, <1>8 DEF FriendTypes
  <2>4. /\ friend_list' \in [Pairs -> Nat] /\ friend_list'[row] = friend_list[row] + 1
        /\ \A p \in Pairs : p # row => friend_list'[p] = friend_list[p]
    <3>1. friend_list' = [friend_list EXCEPT ![row] = @ + 1]
      BY <1>8
    <3>2. friend_list \in [Pairs -> Nat] /\ row \in Pairs
      BY <1>1, <1>7 DEF FriendTypes
    <3> QED BY <3>1, <3>2
  <2>5. FriendTypes'
    BY <1>1, <1>2, <1>5, <2>1, <2>3, <2>4, FriendTypesKept DEF FriendTypes
  <2>6. RowsKept(th)
    BY <1>6, <1>7, <2>3, <2>4 DEF RowsKept
  <2>7. DownloadsAlone' /\ Downloads(th)' /\ Trusted(th)'
    BY <1>1, <2>2, DownloadsStayAlone, NothingDownloaded, NothingTrusted DEF WriterSteps, PendingSteps
  <2>8. RequestsAgree'
    BY <1>1, <1>2, <1>3, <1>7, <2>2, <2>3, RowGone
  <2>9. \A u, v \in Users : {u, v} = {me, other} /\ u # v =>
            RowsBetween(u, v) \in Nat /\ RowsBetween(u, v)' = RowsBetween(u, v) + 1
    <3>1. <<me, other>> \in Pairs /\ <<me, other>> # row
      BY <1>7 DEF Pairs
    <3>2. friend_list'[<<me, other>>] = friend_list[<<me, other>>] /\ friend_list'[<<other, me>>] = friend_list[<<other, me>>] + 1
      BY <1>7, <2>4, <3>1
    <3>3. friend_list[<<me, other>>] \in Nat /\ friend_list[<<other, me>>] \in Nat
      BY <1>1, <1>7, <3>1 DEF FriendTypes
    <3>4. /\ RowsBetween(me, other) \in Nat /\ RowsBetween(me, other)' = RowsBetween(me, other) + 1
          /\ RowsBetween(other, me) \in Nat /\ RowsBetween(other, me)' = RowsBetween(other, me) + 1
      BY <1>7, <3>2, <3>3 DEF RowsBetween
    <3>5. \A u, v \in Users : {u, v} = {me, other} /\ u # v => (u = me /\ v = other) \/ (u = other /\ v = me)
      OBVIOUS
    <3> QED BY <3>4, <3>5
  <2>10. FriendsAgree'
    <3> SUFFICES ASSUME NEW u \in Users, NEW v \in Users, u # v, {u, v} \notin doubted', u \in listed' \ partial'
                 PROVE  Friends'[u][v] + Owed(u, v)' = RowsBetween(u, v)' \/ Removing(u, v)'
      BY DEF FriendsAgree
    <3>1. CASE {u, v} # Couple(th)
      BY <1>2, <1>6, <2>2, <2>5, <2>6, <3>1, OthersAgree
    <3>2. CASE {u, v} = Couple(th)
      <4>1. Couple(th) \notin doubted /\ {u, v} = {me, other} /\ u \in listed \ partial
        BY <1>2, <1>7, <2>1, <3>2
      <4>2. ~Adding(u, v) /\ ~Removing(u, v) /\ Adding(u, v)'
        BY <1>1, <1>3, <1>4, <1>6, <2>2, <3>2, <4>1, Sole, SoleAfter
      <4>3. Friends[u][v] + 0 = RowsBetween(u, v)
        BY <1>1, <3>2, <4>1, <4>2 DEF FriendsAgree, Owed
      <4>4. Owed(u, v)' = 1
        BY <4>2 DEF Owed
      <4>5. RowsBetween(u, v) \in Nat /\ RowsBetween(u, v)' = RowsBetween(u, v) + 1
        BY <2>9, <4>1
      <4>6. Friends[u][v] \in Nat /\ Friends'[u][v] = Friends[u][v]
        BY <1>1, <1>2 DEF FriendTypes
      <4> QED BY <4>3, <4>4, <4>5, <4>6
    <3> QED BY <3>1, <3>2
  <2>11. OneFriendship'
    <3> SUFFICES ASSUME NEW p \in Pairs, {p[1], p[2]} \notin doubled
                 PROVE  RowsBetween(p[1], p[2])' <= 1 /\ friend_requests'[p] <= 1
      BY <2>1 DEF OneFriendship
    <3>1. RowsBetween(p[1], p[2]) <= 1 /\ friend_requests[p] <= 1
      BY <1>1 DEF OneFriendship
    <3>2. friend_requests'[p] = friend_requests[p] \/ friend_requests'[p] = 0
      BY <2>3
    <3>3. p[1] \in Users /\ p[2] \in Users /\ p[1] # p[2]
      BY DEF Pairs
    <3>4. CASE {p[1], p[2]} # Couple(th)
      <4>1. RowsBetween(p[1], p[2])' = RowsBetween(p[1], p[2])
        BY <2>6, <3>3, <3>4, RowsBetweenKept
      <4> QED BY <3>1, <3>2, <4>1
    <3>5. CASE {p[1], p[2]} = Couple(th)
      <4>1. RowsBetween(me, other) = 0
        BY <1>1, <1>3, <1>7, <3>5 DEF Trusted
      <4>2. RowsBetween(p[1], p[2]) = RowsBetween(me, other)
        <5>1. (p[1] = me /\ p[2] = other) \/ (p[1] = other /\ p[2] = me)
          BY <1>7, <3>3, <3>5
        <5>2. RowsBetween(other, me) = RowsBetween(me, other)
          <6>1. friend_list[<<me, other>>] \in Nat /\ friend_list[<<other, me>>] \in Nat
            BY <1>1, <1>7 DEF FriendTypes, Pairs
          <6> QED BY <1>7, <6>1 DEF RowsBetween
        <5> QED BY <5>1, <5>2
      <4>3. RowsBetween(p[1], p[2])' = RowsBetween(p[1], p[2]) + 1
        BY <1>7, <2>9, <3>3, <3>5
      <4> QED BY <3>1, <3>2, <4>1, <4>2, <4>3
    <3> QED BY <3>4, <3>5
  <2>12. listed \subseteq listed'
    BY <1>2
  <2> QED BY <2>2, <2>5, <2>6, <2>7, <2>8, <2>10, <2>11, <2>12, StepKeeps
<1>9. CASE FriendFault /\ Doubt({Couple(th)}) /\ friend_list' = friend_list /\ friend_requests' = friend_requests /\ partial' = partial
  BY <1>1, <1>2, <1>3, <1>5, <1>9, Doubting, StepIs, TrustedInDoubt, Faulting, CheckKeeps DEF
     FriendTypes
<1>10. \/ /\ friend_list' = [friend_list EXCEPT ![row] = @ + 1] /\ friend_requests' = [friend_requests EXCEPT ![row] = 0]
          /\ UNCHANGED friendDoubts
       \/ FriendFault /\ Doubt({Couple(th)}) /\ friend_list' = friend_list /\ friend_requests' = friend_requests /\ partial' = partial
  BY <1>7 DEF AcceptRows, Execute, friendTables
<1> QED BY <1>8, <1>9, <1>10

LEMMA AddFriendsKeeps ==
  ASSUME FriendsInv, NEW th \in Threads, AddFriends(th)
  PROVE  FriendsInv'
<1>1. /\ FriendTypes /\ Trusted(th) /\ About(th) /\ Alone /\ DownloadsAlone /\ RequestsAgree /\ FriendsAgree
      /\ OneFriendship /\ pc \in [Threads -> FriendPlaces] /\ doubted \subseteq doubled
  BY InvIs
<1>2. PICK me, other : me = fl[th].me /\ other = fl[th].other
  OBVIOUS
<1>3. /\ AtStep(th, "addFriends") /\ friend_requests' = friend_requests /\ friend_list' = friend_list
      /\ listed' = listed \cup {me, other} /\ partial' = partial \cup ({me, other} \ listed)
      /\ asked' = asked /\ FriendRequests' = FriendRequests /\ fl' = fl
      /\ doubted' = doubted /\ doubled' = doubled /\ friend_faults' = friend_faults /\ Advance(th)
  BY <1>2 DEF AddFriends, friendTables
<1>4. Friends' = [Friends EXCEPT ![me][other] = @ + 1, ![other][me] = @ + 1]
  BY <1>2 DEF AddFriends
<1>5. At(th) = "addFriends" /\ Step(pc[th]) = "addFriends" /\ pc[th] \in FriendPlaces /\ Call(pc[th]) = Doing(th)
  BY <1>1, <1>3, AtStepIs
<1>6. Doing(th) = "AcceptFriendRequest"
  BY <1>5, WhatFor
<1>7. Moves(th, "AcceptFriendRequest")
  BY <1>1, <1>3, <1>5, <1>6, WhatNext, Advanced
<1>8. Writes(th)
  BY <1>6 DEF Writes, FriendWriters
<1>9. me \in Users /\ other \in Users /\ me # other /\ Couple(th) = {me, other}
  BY <1>1, <1>2, <1>8, CoupleIs DEF Couple
<1>10. Stepped(th) /\ At(th)' = "AcceptFriendRequest"
  BY <1>1, <1>3, <1>7, StepIs
<1>11. /\ Friends' \in [Users -> [Users -> Nat]]
       /\ \A u, v \in Users : {u, v} # {me, other} => Friends'[u][v] = Friends[u][v]
       /\ Friends'[me][other] = Friends[me][other] + 1 /\ Friends'[other][me] = Friends[other][me] + 1
  <2>1. Friends \in [Users -> [Users -> Nat]]
    BY <1>1 DEF FriendTypes
  <2>2. Friends[me] \in [Users -> Nat] /\ Friends[other] \in [Users -> Nat]
    BY <1>9, <2>1
  <2>3. PICK ofMe, ofOther : /\ ofMe = [Friends[me] EXCEPT ![other] = @ + 1]
                             /\ ofOther = [Friends[other] EXCEPT ![me] = @ + 1]
    OBVIOUS
  <2>4. /\ ofMe \in [Users -> Nat] /\ ofMe[other] = Friends[me][other] + 1
        /\ \A v \in Users : v # other => ofMe[v] = Friends[me][v]
    BY <1>9, <2>2, <2>3
  <2>5. /\ ofOther \in [Users -> Nat] /\ ofOther[me] = Friends[other][me] + 1
        /\ \A v \in Users : v # me => ofOther[v] = Friends[other][v]
    BY <1>9, <2>2, <2>3
  <2>6. Friends' = [Friends EXCEPT ![me] = ofMe, ![other] = ofOther]
    BY <1>4, <1>9, <2>1, <2>3
  <2>7. /\ Friends' \in [Users -> [Users -> Nat]] /\ Friends'[me] = ofMe /\ Friends'[other] = ofOther
        /\ \A u \in Users \ {me, other} : Friends'[u] = Friends[u]
    BY <1>9, <2>1, <2>4, <2>5, <2>6
  <2>8. \A u, v \in Users : {u, v} # {me, other} => (u = me => v # other) /\ (u = other => v # me)
    OBVIOUS
  <2> QED BY <1>9, <2>4, <2>5, <2>7, <2>8
<1>12. FriendTypes'
  BY <1>1, <1>3, <1>7, <1>9, <1>11, FriendTypesKept DEF FriendTypes
<1>13. RowsKept(th)
  BY <1>3 DEF RowsKept
<1>14. DownloadsAlone' /\ Downloads(th)' /\ Trusted(th)'
  BY <1>1, <1>10, DownloadsStayAlone, NothingDownloaded, NothingTrusted DEF WriterSteps, PendingSteps
<1>15. RequestsAgree' /\ OneFriendship'
  BY <1>1, <1>3, <1>5, <1>10, RequestsStay, OneFriendshipStays
<1>16. FriendsAgree'
  <2> SUFFICES ASSUME NEW u \in Users, NEW v \in Users, u # v, {u, v} \notin doubted', u \in listed' \ partial'
               PROVE  Friends'[u][v] + Owed(u, v)' = RowsBetween(u, v)' \/ Removing(u, v)'
    BY DEF FriendsAgree
  <2>1. u \in listed
    BY <1>3
  <2>2. CASE {u, v} # Couple(th)
    BY <1>8, <1>9, <1>10, <1>11, <1>12, <1>13, <2>1, <2>2, OthersAgree
  <2>3. CASE {u, v} = Couple(th)
    <3>1. Couple(th) \notin doubted /\ u \in listed \ partial
      BY <1>3, <2>1, <2>3
    <3>2. Adding(u, v) /\ ~Removing(u, v) /\ ~Adding(u, v)'
      BY <1>1, <1>5, <1>6, <1>8, <1>10, <2>3, <3>1, Sole, SoleAfter
    <3>3. Friends[u][v] + 1 = RowsBetween(u, v)
      BY <1>1, <2>3, <3>1, <3>2 DEF FriendsAgree, Owed
    <3>4. Owed(u, v)' = 0
      BY <3>2 DEF Owed
    <3>5. RowsBetween(u, v)' = RowsBetween(u, v)
      BY <1>3 DEF RowsBetween
    <3>6. (u = me /\ v = other) \/ (u = other /\ v = me)
      BY <1>9, <2>3
    <3>7. Friends'[u][v] = Friends[u][v] + 1 /\ Friends[u][v] \in Nat
      BY <1>1, <1>9, <1>11, <3>6 DEF FriendTypes
    <3> QED BY <3>3, <3>4, <3>5, <3>7
  <2> QED BY <2>2, <2>3
<1>17. listed \subseteq listed'
  BY <1>3
<1> QED BY <1>10, <1>12, <1>13, <1>14, <1>15, <1>16, <1>17, StepKeeps

LEMMA DeleteFriendsKeeps ==
  ASSUME FriendsInv, NEW th \in Threads, DeleteFriends(th)
  PROVE  FriendsInv'
<1>1. /\ FriendTypes /\ Trusted(th) /\ About(th) /\ Alone /\ DownloadsAlone /\ RequestsAgree /\ FriendsAgree
      /\ OneFriendship /\ pc \in [Threads -> FriendPlaces] /\ doubted \subseteq doubled
  BY InvIs
<1>2. /\ AtStep(th, "deleteFriends") /\ friend_requests' = friend_requests /\ listed' = listed /\ Friends' = Friends
      /\ asked' = asked /\ FriendRequests' = FriendRequests /\ fl' = fl
  BY DEF DeleteFriends, friendCaches
<1>3. At(th) = "deleteFriends" /\ Step(pc[th]) = "deleteFriends" /\ pc[th] \in FriendPlaces /\ Call(pc[th]) = Doing(th)
  BY <1>1, <1>2, AtStepIs
<1>4. Doing(th) = "RemoveFriend"
  BY <1>3, WhatFor
<1>5. Advance(th) => Moves(th, "eraseFriends")
  BY <1>1, <1>2, <1>3, <1>4, WhatNext, Advanced
<1>6. Writes(th)
  BY <1>4 DEF Writes, FriendWriters
<1>7. PICK me, other : /\ me = fl[th].me /\ other = fl[th].other /\ me \in Users /\ other \in Users /\ me # other
                       /\ Couple(th) = {me, other}
  BY <1>1, <1>6, CoupleIs DEF Couple
<1>8. CASE friend_list' = [friend_list EXCEPT ![<<me, other>>] = 0, ![<<other, me>>] = 0] /\ Advance(th) /\ UNCHANGED friendDoubts
  <2>1. doubted' = doubted /\ doubled' = doubled /\ partial' = partial /\ friend_faults' = friend_faults
    BY <1>8 DEF friendDoubts
  <2>2. Stepped(th) /\ At(th)' = "eraseFriends"
    BY <1>1, <1>2, <1>5, <1>8, <2>1, StepIs
  <2>3. /\ friend_list' \in [Pairs -> Nat] /\ friend_list'[<<me, other>>] = 0 /\ friend_list'[<<other, me>>] = 0
        /\ \A p \in Pairs : p \notin {<<me, other>>, <<other, me>>} => friend_list'[p] = friend_list[p]
    BY <1>1, <1>7, <1>8 DEF Pairs, FriendTypes
  <2>4. FriendTypes'
    BY <1>1, <1>2, <1>5, <1>8, <2>1, <2>3, FriendTypesKept DEF FriendTypes
  <2>5. RowsKept(th)
    BY <1>2, <1>6, <1>7, <2>3 DEF RowsKept
  <2>6. RowsBetween(me, other)' = 0
    BY <2>3 DEF RowsBetween
  <2>7. RowsBetween(other, me)' = 0
    BY <2>3 DEF RowsBetween
  <2>8. DownloadsAlone' /\ Downloads(th)'
    BY <1>1, <2>2, DownloadsStayAlone, NothingDownloaded
  <2>9. Trusted(th)'
    BY <1>2, <1>7, <2>2, <2>6 DEF Trusted
  <2>10. RequestsAgree'
    BY <1>1, <1>2, <1>3, <2>2, RequestsStay
  <2>11. FriendsAgree'
    BY <1>2, <1>6, <2>2, <2>4, <2>5, OthersAgree, CallsSame DEF FriendsAgree, Removing
  <2>12. OneFriendship'
    BY <1>1, <1>2, <1>7, <2>1, <2>5, <2>6, <2>7, RowsBetweenKept DEF OneFriendship, Pairs
  <2>13. listed \subseteq listed'
    BY <1>2
  <2> QED BY <2>2, <2>4, <2>5, <2>8, <2>9, <2>10, <2>11, <2>12, <2>13, StepKeeps
<1>9. CASE FriendFault /\ Return(th) /\ doubted' = doubted /\ doubled' = doubled /\ friend_list' = friend_list /\ partial' = partial
  BY <1>1, <1>2, <1>3, <1>4, <1>9, Returned, StepIs, NothingTrusted, Faulting, CheckKeeps DEF
     WriterSteps, PendingSteps, FriendTypes
<1>10. CASE FriendFault /\ Advance(th) /\ Doubt({Couple(th)}) /\ friend_list' = friend_list /\ partial' = partial
  BY <1>1, <1>2, <1>3, <1>5, <1>10, Doubting, StepIs, TrustedInDoubt, Faulting, CheckKeeps DEF
     FriendTypes
<1> QED BY <1>7, <1>8, <1>9, <1>10 DEF DeleteFriends

LEMMA EraseFriendsKeeps ==
  ASSUME FriendsInv, NEW th \in Threads, EraseFriends(th)
  PROVE  FriendsInv'
<1>1. /\ FriendTypes /\ Trusted(th) /\ About(th) /\ Alone /\ DownloadsAlone /\ RequestsAgree /\ FriendsAgree
      /\ OneFriendship /\ pc \in [Threads -> FriendPlaces] /\ doubted \subseteq doubled
  BY InvIs
<1>2. PICK me, other : me = fl[th].me /\ other = fl[th].other
  OBVIOUS
<1>3. /\ AtStep(th, "eraseFriends") /\ friend_requests' = friend_requests /\ friend_list' = friend_list
      /\ listed' = listed /\ partial' = partial
      /\ asked' = asked /\ FriendRequests' = FriendRequests /\ fl' = fl
      /\ doubted' = doubted /\ doubled' = doubled /\ friend_faults' = friend_faults /\ Advance(th)
  BY DEF EraseFriends, friendTables, friendDoubts
<1>4. Friends' = [Friends EXCEPT ![me][other] = 0, ![other][me] = 0]
  BY <1>2 DEF EraseFriends
<1>5. At(th) = "eraseFriends" /\ Step(pc[th]) = "eraseFriends" /\ pc[th] \in FriendPlaces /\ Call(pc[th]) = Doing(th)
  BY <1>1, <1>3, AtStepIs
<1>6. Doing(th) = "RemoveFriend"
  BY <1>5, WhatFor
<1>7. Moves(th, "RemoveFriend")
  BY <1>1, <1>3, <1>5, <1>6, WhatNext, Advanced
<1>8. Writes(th)
  BY <1>6 DEF Writes, FriendWriters
<1>9. me \in Users /\ other \in Users /\ me # other /\ Couple(th) = {me, other}
  BY <1>1, <1>2, <1>8, CoupleIs DEF Couple
<1>10. Stepped(th) /\ At(th)' = "RemoveFriend"
  BY <1>1, <1>3, <1>7, StepIs
<1>11. /\ Friends' \in [Users -> [Users -> Nat]]
       /\ \A u, v \in Users : {u, v} # {me, other} => Friends'[u][v] = Friends[u][v]
       /\ Friends'[me][other] = 0 /\ Friends'[other][me] = 0
  BY <1>1, <1>4, <1>9 DEF FriendTypes
<1>12. FriendTypes'
  BY <1>1, <1>3, <1>7, <1>11, FriendTypesKept DEF FriendTypes
<1>13. RowsKept(th)
  BY <1>3 DEF RowsKept
<1>14. DownloadsAlone' /\ Downloads(th)' /\ Trusted(th)'
  BY <1>1, <1>10, DownloadsStayAlone, NothingDownloaded, NothingTrusted DEF WriterSteps, PendingSteps
<1>15. RequestsAgree' /\ OneFriendship'
  BY <1>1, <1>3, <1>5, <1>10, RequestsStay, OneFriendshipStays
<1>16. FriendsAgree'
  <2> SUFFICES ASSUME NEW u \in Users, NEW v \in Users, u # v, {u, v} \notin doubted', u \in listed' \ partial'
               PROVE  Friends'[u][v] + Owed(u, v)' = RowsBetween(u, v)' \/ Removing(u, v)'
    BY DEF FriendsAgree
  <2>1. CASE {u, v} # Couple(th)
    BY <1>3, <1>8, <1>9, <1>10, <1>11, <1>12, <1>13, <2>1, OthersAgree
  <2>2. CASE {u, v} = Couple(th)
    <3>1. Couple(th) \notin doubted
      BY <1>3, <2>2
    <3>2. ~Adding(u, v)'
      BY <1>1, <1>6, <1>8, <1>10, <2>2, <3>1, SoleAfter
    <3>3. Owed(u, v)' = 0
      BY <3>2 DEF Owed
    <3>4. (u = me /\ v = other) \/ (u = other /\ v = me)
      BY <1>9, <2>2
    <3>5. RowsBetween(me, other) = 0
      BY <1>1, <1>2, <1>5, <3>1 DEF Trusted
    <3>6. friend_list[<<me, other>>] \in Nat /\ friend_list[<<other, me>>] \in Nat
      BY <1>1, <1>9 DEF FriendTypes, Pairs
    <3>7. RowsBetween(u, v)' = 0
      BY <1>3, <1>9, <3>4, <3>5, <3>6 DEF RowsBetween
    <3>8. Friends'[u][v] = 0
      BY <1>11, <3>4
    <3> QED BY <3>3, <3>7, <3>8
  <2> QED BY <2>1, <2>2
<1>17. listed \subseteq listed'
  BY <1>3
<1> QED BY <1>10, <1>12, <1>13, <1>14, <1>15, <1>16, <1>17, StepKeeps

(***************************************************************************)
(* A call begins, or is answered.                                          *)
(***************************************************************************)
TurnSteps == {"idle", "listed", "cachedRequest", "asked", "selectConversations"}

Turns(th) ==
    /\ pc' \in [Threads -> FriendPlaces] /\ fl' \in [Threads -> FriendCallType]
    /\ \A o \in Threads \ {th} : At(o)' = At(o) /\ Doing(o)' = Doing(o) /\ fl'[o] = fl[o]
    /\ At(th)' \in TurnSteps /\ ~fl'[th].found

LEMMA OthersSame ==
  ASSUME NEW th \in Threads, Turns(th), NEW o \in Threads \ {th}
  PROVE  Couple(o)' = Couple(o) /\ Writes(o)' = Writes(o) /\ Target(o)' = Target(o) /\ About(o)' = About(o)
  BY DEF Turns, Couple, Target, Writes, About

LEMMA TurnKeeps ==
  ASSUME FriendsInv, NEW th \in Threads, Turns(th),
         friend_requests' = friend_requests, friend_list' = friend_list, listed' = listed, Friends' = Friends,
         asked' = asked, FriendRequests' = FriendRequests,
         doubted \subseteq doubted', doubled \subseteq doubled', doubted' \subseteq doubled',
         partial' = partial, friend_faults' = friend_faults,
         At(th) \notin {"eraseRequest", "addFriends", "eraseFriends"},
         About(th)',
         Writes(th)' => \A t \in Threads \ {th} :
             /\ Writes(t) /\ Couple(t) = Couple(th)' => Couple(th)' \in doubted'
             /\ At(t) \in {"storeFriends", "storeRequests"} /\ fl[t].me \in Couple(th)' => Couple(th)' \in doubted'
  PROVE  FriendsInv'
<1>1. /\ FriendTypes /\ Alone /\ DownloadsAlone /\ RequestsAgree /\ FriendsAgree /\ OneFriendship
      /\ pc \in [Threads -> FriendPlaces] /\ doubted \subseteq doubled
      /\ \A o \in Threads : About(o) /\ Downloads(o) /\ Trusted(o)
  BY InvIs DEF FriendsInv, CallInv
<1>2. FriendTypes'
  BY <1>1 DEF FriendTypes, Turns
<1>3. \A o \in Threads \ {th} : At(o)' = At(o) /\ Doing(o)' = Doing(o) /\ fl'[o] = fl[o]
  BY DEF Turns
<1>4. At(th)' \in TurnSteps
  BY DEF Turns
<1>5. Alone'
  BY <1>1, OthersSame DEF Alone
<1>6. DownloadsAlone'
  BY <1>1, <1>3, <1>4, OthersSame DEF DownloadsAlone, TurnSteps
<1>7. \A p : Erasing(p) => Erasing(p)'
  BY <1>3, OthersSame DEF Erasing
<1>8. RequestsAgree'
  BY <1>1, <1>7 DEF RequestsAgree
<1>9. \A u, v : (Adding(u, v)' <=> Adding(u, v)) /\ (Removing(u, v)' <=> Removing(u, v))
  BY <1>3, <1>4, OthersSame DEF TurnSteps, Adding, Removing
<1>10. \A u, v : RowsBetween(u, v)' = RowsBetween(u, v)
  BY DEF RowsBetween
<1>11. FriendsAgree'
  BY <1>1, <1>9, <1>10 DEF FriendsAgree, Owed
<1>12. OneFriendship'
  BY <1>1, OneFriendshipStays
<1>13. ASSUME NEW o \in Threads
       PROVE  CallInv(o)'
  <2>1. CASE o = th
    BY <1>4, <2>1 DEF Downloads, TurnSteps, Turns, Trusted, CallInv
  <2>2. CASE o # th
    BY <1>1, <1>3, <1>10, <2>2, OthersSame DEF Downloads, Trusted, CallInv
  <2> QED BY <2>1, <2>2
<1> QED BY <1>2, <1>5, <1>6, <1>8, <1>11, <1>12, <1>13 DEF FriendsInv

LEMMA NoCallTyped == NoFriendCall \in FriendCallType
BY DEF NoFriendCall, FriendCallType, NoFriends

LEMMA BeginKeeps ==
  ASSUME FriendsInv, NEW th \in Threads, NEW op, NEW steps, NEW a \in Callers, NEW b \in Callers,
         op \in FriendWriters => a # b, BeginFriendCall(th, op, steps, a, b),
         NEW q \in FriendPlaces, Append(steps, op) = q, Step(q) \in TurnSteps \ {"idle"}, Call(q) = op
  PROVE  FriendsInv'
<1>1. FriendTypes /\ pc \in [Threads -> FriendPlaces] /\ doubted \subseteq doubled
  BY InvIs
<1>2. PICK rec : rec = [NoFriendCall EXCEPT !.me = a, !.other = b]
  OBVIOUS
<1>3. fl' = [fl EXCEPT ![th] = rec]
  BY <1>2 DEF BeginFriendCall
<1>4. rec \in FriendCallType /\ rec.me = a /\ rec.other = b /\ ~rec.found
  BY <1>2, FriendsAssumption, NoCallTyped DEF NoFriendCall, FriendCallType
<1>5. /\ fl' \in [Threads -> FriendCallType] /\ fl'[th] = rec /\ \A o \in Threads \ {th} : fl'[o] = fl[o]
  BY <1>1, <1>3, <1>4 DEF FriendTypes
<1>6. ~Busy(th) /\ pc' = [pc EXCEPT ![th] = q]
  BY DEF BeginFriendCall, Enter
<1>7. /\ pc' \in [Threads -> FriendPlaces] /\ At(th)' = Step(q) /\ Doing(th)' = op
      /\ \A o \in Threads \ {th} : At(o)' = At(o) /\ Doing(o)' = Doing(o)
  BY <1>1, <1>6, MovedTo
<1>8. At(th) = "idle"
  BY <1>1, <1>6, WhereThread
<1>9. Turns(th)
  BY <1>4, <1>5, <1>7 DEF Turns
<1>10. /\ friend_requests' = friend_requests /\ friend_list' = friend_list /\ listed' = listed /\ Friends' = Friends
       /\ asked' = asked /\ FriendRequests' = FriendRequests /\ partial' = partial /\ friend_faults' = friend_faults
  BY DEF BeginFriendCall, friendTables, friendCaches
<1>11. Couple(th)' = {a, b} /\ About(th)'
  BY <1>4, <1>5, <1>7 DEF Couple, About, Writes
<1>12. doubted \subseteq doubted' /\ doubled \subseteq doubled' /\ doubted' \subseteq doubled'
  BY <1>1 DEF BeginFriendCall, Doubt
<1>13. ASSUME Writes(th)', NEW t \in Threads \ {th},
              \/ Writes(t) /\ Couple(t) = {a, b}
              \/ At(t) \in {"storeFriends", "storeRequests"} /\ fl[t].me \in {a, b}
       PROVE  {a, b} \in doubted'
  BY <1>1, <1>7, <1>13, WhereThread DEF Writes, FriendWriters, BeginFriendCall, Doubt, AtStep
<1>14. Writes(th)' => \A t \in Threads \ {th} :
           /\ Writes(t) /\ Couple(t) = Couple(th)' => Couple(th)' \in doubted'
           /\ At(t) \in {"storeFriends", "storeRequests"} /\ fl[t].me \in Couple(th)' => Couple(th)' \in doubted'
  BY <1>11, <1>13
<1> QED BY <1>8, <1>9, <1>10, <1>11, <1>12, <1>14, TurnKeeps

LEMMA FriendCallsKeep ==
  ASSUME FriendsInv, NEW th \in Threads, FriendCall(th)
  PROVE  FriendsInv'
<1>1. /\ {S1, K1, J1, X1, U1, L1, Q1} \subseteq FriendPlaces
      /\ Step(S1) = "listed" /\ Step(K1) = "cachedRequest" /\ Step(J1) = "cachedRequest" /\ Step(X1) = "cachedRequest"
      /\ Step(U1) = "listed" /\ Step(L1) = "listed" /\ Step(Q1) = "asked"
      /\ Call(S1) = "CreateFriendRequest" /\ Call(K1) = "AcceptFriendRequest" /\ Call(J1) = "RejectFriendRequest"
      /\ Call(X1) = "CancelFriendRequest" /\ Call(U1) = "RemoveFriend" /\ Call(L1) = "GetFriendList"
      /\ Call(Q1) = "GetFriendRequestsList"
  BY GroupsAre, SendPlacesAre, AcceptPlacesAre, RejectPlacesAre, CancelPlacesAre, RemovePlacesAre, ListPlacesAre, AskPlacesAre
     DEF SendPlaces, AcceptPlaces, RejectPlaces, CancelPlaces, RemovePlaces, ListPlaces, AskPlaces
<1>2. {"listed", "cachedRequest", "asked"} \subseteq TurnSteps \ {"idle"}
  BY DEF TurnSteps
<1>3. CASE \E a, b \in Callers : a # b /\ OnMessageReceived_CreateFriendRequest(th, a, b)
  BY <1>1, <1>2, <1>3, BeginKeeps, FriendCallsBegin DEF OnMessageReceived_CreateFriendRequest
<1>4. CASE \E a, b \in Callers : a # b /\ OnMessageReceived_AcceptFriendRequest(th, a, b)
  BY <1>1, <1>2, <1>4, BeginKeeps, FriendCallsBegin DEF OnMessageReceived_AcceptFriendRequest
<1>5. CASE \E a, b \in Callers : a # b /\ OnMessageReceived_RejectFriendRequest(th, a, b)
  BY <1>1, <1>2, <1>5, BeginKeeps, FriendCallsBegin DEF OnMessageReceived_RejectFriendRequest
<1>6. CASE \E a, b \in Callers : a # b /\ OnMessageReceived_CancelFriendRequest(th, a, b)
  BY <1>1, <1>2, <1>6, BeginKeeps, FriendCallsBegin DEF OnMessageReceived_CancelFriendRequest
<1>7. CASE \E a, b \in Callers : a # b /\ OnMessageReceived_RemoveFriend(th, a, b)
  BY <1>1, <1>2, <1>7, BeginKeeps, FriendCallsBegin DEF OnMessageReceived_RemoveFriend
<1>8. "GetFriendList" \notin FriendWriters /\ "GetFriendRequestsList" \notin FriendWriters
  BY DEF FriendWriters
<1>9. CASE \E a \in Callers : OnMessageReceived_GetFriendList(th, a)
  BY <1>1, <1>2, <1>8, <1>9, BeginKeeps, FriendCallsBegin DEF OnMessageReceived_GetFriendList
<1>10. CASE \E a \in Callers : OnMessageReceived_GetFriendRequestsList(th, a)
  BY <1>1, <1>2, <1>8, <1>10, BeginKeeps, FriendCallsBegin DEF OnMessageReceived_GetFriendRequestsList
<1> QED BY <1>3, <1>4, <1>5, <1>6, <1>7, <1>9, <1>10 DEF FriendCall

\* The answer to a call ends it.
LEMMA AnswerKeeps ==
  ASSUME FriendsInv, NEW th \in Threads, At(th) \notin {"eraseRequest", "addFriends", "eraseFriends"}, Finish(th),
         fl' = [fl EXCEPT ![th] = NoFriendCall],
         friend_requests' = friend_requests, friend_list' = friend_list, listed' = listed, Friends' = Friends,
         asked' = asked, FriendRequests' = FriendRequests,
         doubted' = doubted, doubled' = doubled, partial' = partial, friend_faults' = friend_faults
  PROVE  FriendsInv'
<1>1. FriendTypes /\ pc \in [Threads -> FriendPlaces] /\ doubted \subseteq doubled
  BY InvIs
<1>2. PICK rec \in FriendCallType : rec = NoFriendCall /\ ~rec.found
  BY NoCallTyped DEF NoFriendCall
<1>3. /\ fl' \in [Threads -> FriendCallType] /\ fl'[th] = rec /\ \A o \in Threads \ {th} : fl'[o] = fl[o]
  BY <1>1, <1>2 DEF FriendTypes
<1>4. PICK q : q = <<>> /\ q \in FriendPlaces /\ Step(q) = "idle" /\ Call(q) = "none"
  BY DEF FriendPlaces, Step, Call
<1>5. /\ pc' \in [Threads -> FriendPlaces] /\ At(th)' = Step(q) /\ Doing(th)' = Call(q)
      /\ \A o \in Threads \ {th} : At(o)' = At(o) /\ Doing(o)' = Doing(o)
  BY <1>1, <1>4, MovedTo DEF Finish
<1>6. Turns(th)
  BY <1>2, <1>3, <1>4, <1>5 DEF Turns, TurnSteps
<1>7. ~Writes(th)' /\ About(th)'
  BY <1>4, <1>5 DEF Writes, About, FriendWriters
<1> QED BY <1>1, <1>6, <1>7, TurnKeeps

LEMMA FriendReplyKeeps ==
  ASSUME FriendsInv, NEW th \in Threads, FriendReply(th)
  PROVE  FriendsInv'
  BY InvIs, WhereThread, AnswerKeeps DEF FriendReply, FriendOps, FriendWriters, friendTables,
     friendCaches, friendDoubts

\* Before the first call, and after a restart, whatever the tables hold.
LEMMA NothingYet ==
  ASSUME friend_requests' \in [Pairs -> Nat], friend_list' \in [Pairs -> Nat], pc' = Idle, listed' = {},
         Friends' = [u \in Users |-> NoFriends], asked' = {}, FriendRequests' = {}, fl' = [th \in Threads |-> NoFriendCall],
         doubted' = {}, partial' = {}, friend_faults' \in 0..MaxFriendFaults, OneFriendship'
  PROVE  FriendsInv'
<1>1. <<>> \in FriendPlaces /\ Step(<<>>) = "idle" /\ Call(<<>>) = "none"
  BY DEF FriendPlaces, Step, Call
<1>2. pc' \in [Threads -> FriendPlaces]
  BY <1>1 DEF Idle
<1>3. ASSUME NEW th \in Threads
      PROVE  At(th)' = "idle" /\ Doing(th)' = "none" /\ ~Writes(th)'
  BY <1>1 DEF Idle, At, Doing, Writes, FriendWriters
<1>4. FriendTypes'
  BY <1>2, NoCallTyped DEF NoFriends, FriendTypes
<1>5. Alone'
  BY <1>3 DEF Alone
<1>6. DownloadsAlone'
  BY <1>3 DEF DownloadsAlone
<1>7. RequestsAgree' /\ FriendsAgree'
  BY DEF RequestsAgree, FriendsAgree
<1>8. \A th \in Threads : CallInv(th)'
  BY <1>3 DEF CallInv, About, Downloads, Trusted
<1> QED BY <1>4, <1>5, <1>6, <1>7, <1>8 DEF FriendsInv

LEMMA FriendRestartKeeps ==
  ASSUME FriendsInv, FriendsRestart
  PROVE  FriendsInv'
  BY OneFriendshipStays, NothingYet DEF FriendsInv, FriendsRestart, friendTables, FriendTypes

(***************************************************************************)
(* The friends of a backend.                                               *)
(***************************************************************************)
LEMMA FriendStepKeeps ==
  ASSUME FriendsInv, NEW th \in Threads, FriendStep(th)
  PROVE  FriendsInv'
<1>1. CASE HasFriendListForUserId(th) \/ SelectFriends(th) \/ StoreFriends(th) \/ CheckIsFriend(th)
  BY <1>1, HasFriendListKeeps, SelectFriendsKeeps, StoreFriendsKeeps, CheckIsFriendKeeps
<1>2. CASE CheckCachedLimits(th) \/ CountSameRow(th) \/ CountSentRows(th) \/ CountIncomingRows(th)
  BY <1>2, CheckCachedLimitsKeeps, CountsKeep
<1>3. CASE InsertRequest(th) \/ CacheRequest(th) \/ FindCachedRequest(th) \/ FindRequestRow(th)
  BY <1>3, InsertRequestKeeps, CacheRequestKeeps, FindCachedKeeps, FindRowKeeps
<1>4. CASE AcceptRows(th) \/ DeleteRequest(th) \/ EraseRequest(th) \/ AddFriends(th)
  BY <1>4, AcceptRowsKeeps, DeleteRequestKeeps, EraseRequestKeeps, AddFriendsKeeps
<1>5. CASE DeleteFriends(th) \/ EraseFriends(th) \/ HasFriendRequestListForUserId(th)
  BY <1>5, DeleteFriendsKeeps, EraseFriendsKeeps, HasRequestListKeeps
<1>6. CASE SelectRequests(th) \/ StoreRequests(th) \/ FriendReply(th)
  BY <1>6, SelectRequestsKeeps, StoreRequestsKeeps, FriendReplyKeeps
<1> QED BY <1>1, <1>2, <1>3, <1>4, <1>5, <1>6, Zenon DEF FriendStep

LEMMA FriendsKeep ==
  ASSUME FriendsInv, FriendsNext
  PROVE  FriendsInv'
BY FriendStepKeeps, FriendCallsKeep, FriendRestartKeeps DEF FriendsNext

\* The tables a backend starts on.
LEMMA StartsAgreed ==
  ASSUME NEW friends \in SUBSET Pairs, NEW requests \in SUBSET Pairs, FriendsStart(friends, requests), pc = Idle,
         \A p, q \in friends : p = q
  PROVE  FriendsInv
<1>1. /\ friend_list = [p \in Pairs |-> IF p \in friends THEN 1 ELSE 0]
      /\ friend_requests = [p \in Pairs |-> IF p \in requests THEN 1 ELSE 0]
      /\ listed = {} /\ Friends = [u \in Users |-> NoFriends] /\ asked = {} /\ FriendRequests = {}
      /\ fl = [th \in Threads |-> NoFriendCall] /\ doubted = {} /\ doubled = {} /\ partial = {} /\ friend_faults = 0
  BY DEF FriendsStart
<1>2. <<>> \in FriendPlaces /\ Step(<<>>) = "idle" /\ Call(<<>>) = "none"
  BY DEF FriendPlaces, Step, Call
<1>3. pc \in [Threads -> FriendPlaces]
  BY <1>2 DEF Idle
<1>4. ASSUME NEW th \in Threads
      PROVE  At(th) = "idle" /\ Doing(th) = "none" /\ ~Writes(th)
  BY <1>2 DEF Idle, At, Doing, Writes, FriendWriters
<1>5. FriendTypes
  BY <1>1, <1>3, NoCallTyped, FriendsAssumption DEF NoFriends, FriendTypes
<1>6. Alone
  BY <1>4 DEF Alone
<1>7. DownloadsAlone
  BY <1>4 DEF DownloadsAlone
<1>8. RequestsAgree /\ FriendsAgree
  BY <1>1 DEF RequestsAgree, FriendsAgree
<1>9. \A th \in Threads : CallInv(th)
  BY <1>4 DEF CallInv, About, Downloads, Trusted
<1>10. OneFriendship
  BY <1>1 DEF OneFriendship, Pairs, RowsBetween
<1> QED BY <1>5, <1>6, <1>7, <1>8, <1>9, <1>10 DEF FriendsInv

LEMMA FriendsBegin ==
  ASSUME FriendsInit, pc = Idle
  PROVE  FriendsInv
<1>1. CASE FriendsStart({}, {})
  BY <1>1, StartsAgreed
<1>2. CASE \E p \in Pairs : FriendsStart({p}, {}) \/ FriendsStart({}, {p})
  BY <1>2, StartsAgreed
<1> QED BY <1>1, <1>2 DEF FriendsInit

\* Nothing moves.
LEMMA FriendsRest ==
  ASSUME FriendsInv, UNCHANGED <<pc, friendVars>>
  PROVE  FriendsInv'
<1>1. /\ friend_requests' = friend_requests /\ friend_list' = friend_list /\ listed' = listed /\ Friends' = Friends
      /\ asked' = asked /\ FriendRequests' = FriendRequests /\ fl' = fl /\ doubted' = doubted /\ doubled' = doubled
      /\ partial' = partial /\ friend_faults' = friend_faults /\ pc' = pc
  BY DEF friendVars, friendTables, friendCaches, friendDoubts
<1>2. FriendTypes' = FriendTypes
  BY <1>1 DEF FriendTypes
<1>3. \A th : At(th)' = At(th) /\ Doing(th)' = Doing(th)
  BY <1>1 DEF At, Doing
<1>4. \A th : Couple(th)' = Couple(th) /\ Writes(th)' = Writes(th) /\ Target(th)' = Target(th)
  BY <1>1, <1>3 DEF Couple, Writes, Target
<1>5. Alone' = Alone /\ DownloadsAlone' = DownloadsAlone
  BY <1>1, <1>3, <1>4 DEF Alone, DownloadsAlone
<1>6. \A u, v : RowsBetween(u, v)' = RowsBetween(u, v)
  BY <1>1 DEF RowsBetween
<1>7. \A u, v : Owed(u, v)' = Owed(u, v) /\ Removing(u, v)' = Removing(u, v)
  BY <1>3, <1>4 DEF Owed, Adding, Removing
<1>8. \A p : Erasing(p)' = Erasing(p)
  BY <1>3, <1>4 DEF Erasing
<1>9. RequestsAgree' = RequestsAgree
  BY <1>1, <1>8 DEF RequestsAgree
<1>10. FriendsAgree' = FriendsAgree
  BY <1>1, <1>6, <1>7 DEF FriendsAgree
<1>11. OneFriendship' = OneFriendship
  BY <1>1, <1>6 DEF OneFriendship
<1>12. ASSUME NEW th \in Threads
       PROVE  CallInv(th)' = CallInv(th)
  BY <1>1, <1>3, <1>4, <1>6 DEF About, Downloads, Trusted, CallInv
<1> QED BY <1>2, <1>5, <1>9, <1>10, <1>11, <1>12 DEF FriendsInv

LEMMA FriendsAlways == FriendsSpec => []FriendsInv
<1>1. FriendsInit /\ pc = Idle => FriendsInv
  BY FriendsBegin
<1>2. FriendsInv /\ [FriendsNext]_<<pc, friendVars>> => FriendsInv'
  BY FriendsKeep, FriendsRest
<1> QED BY <1>1, <1>2, PTL DEF FriendsSpec

LEMMA FriendsAreConsistent ==
  ASSUME FriendsInv
  PROVE  FriendsConsistent
<1>1. /\ FriendTypes /\ RequestsAgree /\ FriendsAgree /\ OneFriendship /\ pc \in [Threads -> FriendPlaces]
      /\ \A th \in Threads : About(th)
  BY DEF FriendsInv, CallInv, FriendTypes
<1>2. FriendsTypeOK
  BY <1>1 DEF FriendTypes, FriendCallType, FriendsTypeOK
<1>3. FriendCachesAgree
  <2> SUFFICES ASSUME NEW p \in Pairs, {p[1], p[2]} \notin doubted, ~WritingOf(p[1], p[2])
               PROVE  /\ p \in FriendRequests => friend_requests[p] > 0
                      /\ p[1] \in listed \ partial => Friends[p[1]][p[2]] = RowsBetween(p[1], p[2])
    BY DEF FriendCachesAgree
  <2>1. \A th \in Threads : Writes(th) => Couple(th) # {p[1], p[2]}
    BY <1>1, WhereThread DEF Writes, FriendWriters, WritingOf
  <2>2. \A th \in Threads :
            /\ At(th) \in {"eraseRequest", "eraseFriends"} => Writes(th)
            /\ Doing(th) = "AcceptFriendRequest" => Writes(th)
    BY <1>1, WritersAre DEF WriterSteps
  <2>3. ~Erasing(p)
    BY <1>1, <2>1, <2>2, CoupleIs DEF Erasing
  <2>4. ~Adding(p[1], p[2])
    BY <2>1, <2>2 DEF Adding
  <2>5. ~Removing(p[1], p[2])
    BY <2>1, <2>2 DEF Removing
  <2>6. p[1] \in Users /\ p[2] \in Users /\ p[1] # p[2]
    BY DEF Pairs
  <2>7. p \in FriendRequests => friend_requests[p] > 0
    BY <1>1, <2>3 DEF RequestsAgree
  <2>8. ASSUME p[1] \in listed \ partial
        PROVE  Friends[p[1]][p[2]] = RowsBetween(p[1], p[2])
    <3>1. Friends[p[1]][p[2]] + Owed(p[1], p[2]) = RowsBetween(p[1], p[2])
      BY <1>1, <2>5, <2>6, <2>8 DEF FriendsAgree
    <3>2. Owed(p[1], p[2]) = 0
      BY <2>4 DEF Owed
    <3>3. Friends[p[1]][p[2]] \in Nat
      BY <1>1, <2>6 DEF FriendTypes
    <3> QED BY <3>1, <3>2, <3>3
  <2> QED BY <2>7, <2>8
<1> QED BY <1>1, <1>2, <1>3 DEF FriendsConsistent

\* Tables and caches of friends stay consistent, however many users and threads there are:
\* what is cached of a couple is in the tables once no call of FFriendListManager writes of it,
\* and a couple is friends by one row, unless calls of the couple overlapped or a statement failed.
THEOREM FriendsStayConsistent == FriendsSpec => []FriendsConsistent
<1>1. FriendsInv => FriendsConsistent
  BY FriendsAreConsistent
<1> QED BY <1>1, FriendsAlways, PTL

LEMMA RowsBeginOnRequest ==
  ASSUME FriendsInv, FriendsNext, NEW p \in Pairs, friend_list'[p] > friend_list[p], {p[1], p[2]} \notin doubted
  PROVE  friend_requests[p] + friend_requests[<<p[2], p[1]>>] > 0
<1>1. friend_list \in [Pairs -> Nat] /\ friend_requests \in [Pairs -> Nat] /\ pc \in [Threads -> FriendPlaces]
  BY DEF FriendsInv, FriendTypes
<1>2. friend_list' # friend_list
  BY <1>1
<1>3. PICK th \in Threads : AcceptRows(th) \/ DeleteFriends(th)
  <2>1. ~FriendsRestart
    BY <1>2 DEF FriendsRestart, friendTables
  <2>2. \A th \in Threads : ~FriendCall(th)
    <3>1. \A th, op, steps, a, b : ~BeginFriendCall(th, op, steps, a, b)
      BY <1>2, Zenon DEF BeginFriendCall, friendTables
    <3> QED BY <3>1, Zenon DEF FriendCall, OnMessageReceived_CreateFriendRequest, OnMessageReceived_AcceptFriendRequest,
       OnMessageReceived_RejectFriendRequest, OnMessageReceived_CancelFriendRequest, OnMessageReceived_RemoveFriend,
       OnMessageReceived_GetFriendList, OnMessageReceived_GetFriendRequestsList
  <2>3. PICK th \in Threads : FriendStep(th)
    BY <2>1, <2>2 DEF FriendsNext
  <2>4. ~(HasFriendListForUserId(th) \/ SelectFriends(th) \/ StoreFriends(th) \/ CheckIsFriend(th) \/ CheckCachedLimits(th))
    BY <1>2 DEF HasFriendListForUserId, SelectFriends, StoreFriends, CheckIsFriend, CheckCachedLimits, friendVars, friendTables
  <2>5. ~(CountSameRow(th) \/ CountSentRows(th) \/ CountIncomingRows(th) \/ InsertRequest(th) \/ CacheRequest(th))
    BY <1>2 DEF CountSameRow, CountSentRows, CountIncomingRows, Count, InsertRequest, CacheRequest, friendTables
  <2>6. ~(FindCachedRequest(th) \/ FindRequestRow(th) \/ DeleteRequest(th) \/ EraseRequest(th) \/ AddFriends(th) \/ EraseFriends(th))
    BY <1>2 DEF FindCachedRequest, FindRequestRow, DeleteRequest, Execute, EraseRequest, AddFriends, EraseFriends, friendTables
  <2>7. ~(HasFriendRequestListForUserId(th) \/ SelectRequests(th) \/ StoreRequests(th) \/ FriendReply(th))
    BY <1>2 DEF HasFriendRequestListForUserId, SelectRequests, StoreRequests, FriendReply, friendVars, friendTables
  <2>8. AcceptRows(th) \/ DeleteFriends(th)
    BY <2>3, <2>4, <2>5, <2>6, <2>7, Zenon DEF FriendStep
  <2> QED BY <2>8
<1>4. PICK me, other : me = fl[th].me /\ other = fl[th].other
  OBVIOUS
<1>5. AtStep(th, "acceptRows") \/ AtStep(th, "deleteFriends")
  BY <1>3 DEF AcceptRows, DeleteFriends
<1>6. /\ At(th) \in {"acceptRows", "deleteFriends"}
      /\ At(th) = "acceptRows" => Doing(th) = "AcceptFriendRequest"
      /\ At(th) = "deleteFriends" => Doing(th) = "RemoveFriend"
  BY <1>1, <1>5, AtStepIs, WhatFor
<1>7. Writes(th)
  BY <1>6 DEF Writes, FriendWriters
<1>8. About(th) /\ Trusted(th)
  BY InvIs
<1>9. me \in Users /\ other \in Users /\ me # other /\ <<me, other>> \in Pairs /\ <<other, me>> \in Pairs
  BY <1>1, <1>4, <1>7, <1>8, CoupleIs
<1>10. ~DeleteFriends(th)
  BY <1>1, <1>2, <1>4, <1>9 DEF DeleteFriends
<1>11. /\ friend_list' = [friend_list EXCEPT ![<<other, me>>] = @ + 1] /\ At(th) = "acceptRows"
  BY <1>1, <1>2, <1>3, <1>4, <1>6, <1>10, AtStepIs, AnsweredIs DEF AcceptRows, Target, Execute,
     friendTables
<1>12. p = <<other, me>>
  BY <1>1, <1>9, <1>11
<1>13. p[1] = other /\ p[2] = me /\ Couple(th) = {p[1], p[2]}
  BY <1>4, <1>12 DEF Couple
<1>14. friend_requests[<<me, other>>] + friend_requests[<<other, me>>] > 0
  BY <1>4, <1>6, <1>8, <1>11, <1>13 DEF Trusted
<1>15. friend_requests[<<me, other>>] \in Nat /\ friend_requests[<<other, me>>] \in Nat
  BY <1>1, <1>9
<1> QED BY <1>12, <1>13, <1>14, <1>15

\* A friendship begins only while a request between the two is pending, though
\* AcceptFriendRequest does not look at the row again once it, or a cached entry, was found.
THEOREM FriendshipsBeginOnRequest == FriendsSpec => FriendsOnRequest
<1> DEFINE OnRequest == \A p \in Pairs : friend_list'[p] > friend_list[p] /\ {p[1], p[2]} \notin doubted =>
               friend_requests[p] + friend_requests[<<p[2], p[1]>>] > 0
<1>1. FriendsInv /\ [FriendsNext]_<<pc, friendVars>> => [OnRequest]_friend_list
  BY RowsBeginOnRequest DEF friendVars, friendTables
<1> QED BY <1>1, FriendsAlways, PTL DEF FriendsSpec, FriendsOnRequest

(***************************************************************************)
(* The limits of requests.                                                 *)
(***************************************************************************)
\* Only a count goes on to a step that relies on it.
LEMMA OnlyCountsCount ==
  ASSUME NEW p \in FriendPlaces
  PROVE  /\ Step(Rest(p)) = "incomingRows" => Step(p) = "sentRows"
         /\ Step(Rest(p)) = "insertRequest" => Step(p) = "incomingRows"
         /\ Call(p) \notin {"incomingRows", "insertRequest"}
<1>0. Step(<<>>) = "idle"
  BY DEF Step
<1>1. CASE p \in SendPlaces
  BY <1>0, <1>1, SendPlacesAre DEF SendPlaces
<1>2. CASE p \in AcceptPlaces
  BY <1>0, <1>2, AcceptPlacesAre DEF AcceptPlaces
<1>3. CASE p \in RejectPlaces
  BY <1>0, <1>3, RejectPlacesAre DEF RejectPlaces
<1>4. CASE p \in CancelPlaces
  BY <1>0, <1>4, CancelPlacesAre DEF CancelPlaces
<1>5. CASE p \in RemovePlaces
  BY <1>0, <1>5, RemovePlacesAre DEF RemovePlaces
<1>6. CASE p \in ListPlaces
  BY <1>0, <1>6, ListPlacesAre DEF ListPlaces
<1>7. CASE p \in AskPlaces
  BY <1>0, <1>7, AskPlacesAre DEF AskPlaces
<1>8. CASE p \in CallPlaces
  BY <1>0, <1>8, CallFriendPlacesAre DEF CallPlaces
<1>9. CASE p \in CreatePlaces
  BY <1>0, <1>9, CreatePlacesAre DEF CreatePlaces
<1>10. CASE p \in LoadPlaces
  BY <1>0, <1>10, LoadPlacesAre DEF LoadPlaces
<1>11. CASE p = <<>>
  BY <1>11 DEF Step, Call, Rest
<1>12. QED
  BY <1>1, <1>2, <1>3, <1>4, <1>5, <1>6, <1>7, <1>8, <1>9, <1>10, <1>11 DEF FriendPlaces

LEMMA InRows ==
  ASSUME NEW S, NEW r
  PROVE  r \in RequestRows(S) <=> \E p \in S : \E k \in 1..friend_requests[p] : r = <<p, k>>
BY DEF RequestRows

\* Fewer requests, fewer rows.
LEMMA RowsShrink ==
  ASSUME NEW S \in SUBSET Pairs, friend_requests \in [Pairs -> Nat], friend_requests' \in [Pairs -> Nat],
         \A p \in Pairs : friend_requests'[p] <= friend_requests[p]
  PROVE  RequestRows(S)' \subseteq RequestRows(S)
  BY InRows DEF RequestRows

\* One more request is one more row at most.
LEMMA RowsGrow ==
  ASSUME NEW S \in SUBSET Pairs, friend_requests \in [Pairs -> Nat], IsFiniteSet(RequestRows(S)),
         NEW q \in Pairs, friend_requests' = [friend_requests EXCEPT ![q] = @ + 1]
  PROVE  /\ IsFiniteSet(RequestRows(S)')
         /\ Cardinality(RequestRows(S)') <= Cardinality(RequestRows(S)) + 1
         /\ q \notin S => RequestRows(S)' \subseteq RequestRows(S)
<1>1. PICK n \in Nat : n = friend_requests[q]
  OBVIOUS
<1>2. friend_requests'[q] = n + 1 /\ \A p \in Pairs \ {q} : friend_requests'[p] = friend_requests[p]
  BY <1>1
<1>3. ASSUME NEW r, r \in RequestRows(S)', r # <<q, n + 1>>
      PROVE  r \in RequestRows(S)
  BY <1>1, <1>2, <1>3, InRows DEF RequestRows
<1>4. RequestRows(S)' \subseteq RequestRows(S) \cup {<<q, n + 1>>}
  BY <1>3
<1>5. ASSUME q \notin S
      PROVE  RequestRows(S)' \subseteq RequestRows(S)
  BY <1>3, <1>5 DEF RequestRows
<1> DEFINE rows == RequestRows(S)
           more == rows \cup {<<q, n + 1>>}
<1>6. IsFiniteSet(more) /\ Cardinality(more) <= Cardinality(rows) + 1 /\ Cardinality(rows) \in Nat /\ Cardinality(more) \in Nat
  <2>1. IsFiniteSet(rows)
    OBVIOUS
  <2> HIDE DEF rows
  <2>2. IsFiniteSet(more) /\ Cardinality(more) = IF <<q, n + 1>> \in rows THEN Cardinality(rows) ELSE Cardinality(rows) + 1
    BY <2>1, FS_AddElement
  <2>3. Cardinality(rows) \in Nat
    BY <2>1, FS_CardinalityType
  <2> QED BY <2>2, <2>3
<1>7. IsFiniteSet(RequestRows(S)') /\ Cardinality(RequestRows(S)') <= Cardinality(more) /\ Cardinality(RequestRows(S)') \in Nat
  <2>1. PICK after : after = RequestRows(S)'
    OBVIOUS
  <2>2. after \subseteq more
    BY <1>4, <2>1
  <2> HIDE DEF more
  <2>3. IsFiniteSet(after) /\ Cardinality(after) <= Cardinality(more) /\ Cardinality(after) \in Nat
    BY <1>6, <2>2, FS_Subset, FS_CardinalityType
  <2> QED BY <2>1, <2>3
<1> QED BY <1>5, <1>6, <1>7

LEMMA LimitsAre ==
  ASSUME LimitsInv, NEW u \in Users
  PROVE  /\ IsFiniteSet(SentRows(u)) /\ IsFiniteSet(IncomingRows(u))
         /\ SentBy(u) = Cardinality(SentRows(u)) /\ IncomingTo(u) = Cardinality(IncomingRows(u))
         /\ SentBy(u) \in Nat /\ IncomingTo(u) \in Nat
         /\ IsFiniteSet(CountedSent(u)) /\ IsFiniteSet(CountedIncoming(u))
         /\ Cardinality(CountedSent(u)) \in 0..Cardinality(Threads) /\ Cardinality(CountedIncoming(u)) \in 0..Cardinality(Threads)
         /\ Cardinality(Threads) \in Nat /\ MaxSentRequests \in Nat /\ MaxIncomingRequests \in Nat
  BY FS_CardinalityType, FriendsAssumption, FS_Subset DEF LimitsInv, SentBy, IncomingTo, SentRows,
     IncomingRows, CountedSent, CountedIncoming

\* No more rows, and no more senders that rely on a count.
LEMMA LimitsStay ==
  ASSUME LimitsInv, NEW u \in Users,
         SentRows(u)' \subseteq SentRows(u), IncomingRows(u)' \subseteq IncomingRows(u)
  PROVE  /\ IsFiniteSet(SentRows(u)') /\ IsFiniteSet(IncomingRows(u)')
         /\ SentBy(u)' \in 0..SentBy(u) /\ IncomingTo(u)' \in 0..IncomingTo(u)
         /\ CountedSent(u)' \subseteq CountedSent(u) =>
                SentBy(u)' + Cardinality(CountedSent(u)') <= MaxSentRequests + Cardinality(Threads) - 1
         /\ CountedIncoming(u)' \subseteq CountedIncoming(u) =>
                IncomingTo(u)' + Cardinality(CountedIncoming(u)') <= MaxIncomingRequests + Cardinality(Threads) - 1
<1>1. /\ IsFiniteSet(SentRows(u)) /\ IsFiniteSet(IncomingRows(u))
      /\ SentBy(u) = Cardinality(SentRows(u)) /\ IncomingTo(u) = Cardinality(IncomingRows(u))
      /\ SentBy(u) \in Nat /\ IncomingTo(u) \in Nat
      /\ IsFiniteSet(CountedSent(u)) /\ IsFiniteSet(CountedIncoming(u))
      /\ Cardinality(CountedSent(u)) \in Nat /\ Cardinality(CountedIncoming(u)) \in Nat
      /\ Cardinality(Threads) \in Nat /\ MaxSentRequests \in Nat /\ MaxIncomingRequests \in Nat
  BY LimitsAre
<1>2. \A S, T : IsFiniteSet(S) /\ T \subseteq S => IsFiniteSet(T) /\ Cardinality(T) \in 0..Cardinality(S)
  BY FS_Subset, FS_CardinalityType
<1>3. SentBy(u)' = Cardinality(SentRows(u)') /\ IncomingTo(u)' = Cardinality(IncomingRows(u)')
  BY DEF SentBy, IncomingTo, SentRows, IncomingRows
<1>4. IsFiniteSet(SentRows(u)') /\ IsFiniteSet(IncomingRows(u)') /\ SentBy(u)' \in 0..SentBy(u) /\ IncomingTo(u)' \in 0..IncomingTo(u)
  BY <1>1, <1>2, <1>3
<1>5. /\ SentBy(u) + Cardinality(CountedSent(u)) <= MaxSentRequests + Cardinality(Threads) - 1
      /\ IncomingTo(u) + Cardinality(CountedIncoming(u)) <= MaxIncomingRequests + Cardinality(Threads) - 1
  BY DEF LimitsInv
<1>6. ASSUME CountedSent(u)' \subseteq CountedSent(u)
      PROVE  SentBy(u)' + Cardinality(CountedSent(u)') <= MaxSentRequests + Cardinality(Threads) - 1
  BY <1>1, <1>2, <1>4, <1>5, <1>6
<1>7. ASSUME CountedIncoming(u)' \subseteq CountedIncoming(u)
      PROVE  IncomingTo(u)' + Cardinality(CountedIncoming(u)') <= MaxIncomingRequests + Cardinality(Threads) - 1
  BY <1>1, <1>2, <1>4, <1>5, <1>7
<1> QED BY <1>4, <1>6, <1>7

\* The others go on with what they have counted.
OthersCount(th) == \A o \in Threads \ {th} : At(o)' = At(o) /\ fl'[o].me = fl[o].me /\ fl'[o].other = fl[o].other

LEMMA RowsAreFewer ==
  ASSUME NEW u \in Users, friend_requests \in [Pairs -> Nat], friend_requests' \in [Pairs -> Nat],
         \A p \in Pairs : friend_requests'[p] <= friend_requests[p]
  PROVE  SentRows(u)' \subseteq SentRows(u) /\ IncomingRows(u)' \subseteq IncomingRows(u)
  BY RowsShrink DEF SentRows, IncomingRows

LEMMA LimitsKept ==
  ASSUME LimitsInv, NEW th \in Threads, OthersCount(th), At(th)' \notin {"incomingRows", "insertRequest"},
         friend_requests \in [Pairs -> Nat], friend_requests' \in [Pairs -> Nat],
         \A p \in Pairs : friend_requests'[p] <= friend_requests[p]
  PROVE  LimitsInv'
  BY RowsAreFewer, LimitsStay DEF CountedSent, CountedIncoming, OthersCount, LimitsInv

\* A count that passes: there is room for a row of each thread but one.
LEMMA SentCounted ==
  ASSUME LimitsInv, NEW th \in Threads, OthersCount(th), At(th)' = "incomingRows", friend_requests' = friend_requests,
         fl'[th].me = fl[th].me, fl[th].me \in Users, SentBy(fl[th].me) < MaxSentRequests,
         friend_requests \in [Pairs -> Nat]
  PROVE  LimitsInv'
<1>1. \A u \in Users : SentRows(u)' \subseteq SentRows(u) /\ IncomingRows(u)' \subseteq IncomingRows(u)
  BY RowsAreFewer
<1>2. \A u \in Users : CountedIncoming(u)' \subseteq CountedIncoming(u)
  BY DEF CountedIncoming, OthersCount
<1>3. ASSUME NEW u \in Users
      PROVE  SentBy(u)' + Cardinality(CountedSent(u)') <= MaxSentRequests + Cardinality(Threads) - 1
  <2>1. CASE u = fl[th].me
    <3>1. CountedSent(u)' \in SUBSET Threads
      BY DEF CountedSent
    <3>2. Cardinality(CountedSent(u)') <= Cardinality(Threads) /\ Cardinality(CountedSent(u)') \in Nat
      BY <3>1, FriendsAssumption, FS_Subset, FS_CardinalityType
    <3>3. SentBy(u)' \in 0..SentBy(u) /\ SentBy(u) \in Nat /\ Cardinality(Threads) \in Nat /\ MaxSentRequests \in Nat
      BY <1>1, LimitsStay, LimitsAre
    <3>4. SentBy(u) < MaxSentRequests
      BY <2>1
    <3> QED BY <3>2, <3>3, <3>4
  <2>2. CASE u # fl[th].me
    BY <1>1, <2>2, LimitsStay DEF CountedSent, OthersCount
  <2> QED BY <2>1, <2>2
<1>4. \A u \in Users : /\ IsFiniteSet(SentRows(u)') /\ IsFiniteSet(IncomingRows(u)')
                       /\ IncomingTo(u)' + Cardinality(CountedIncoming(u)') <= MaxIncomingRequests + Cardinality(Threads) - 1
  BY <1>1, <1>2, LimitsStay
<1> QED BY <1>3, <1>4 DEF LimitsInv

LEMMA IncomingCounted ==
  ASSUME LimitsInv, NEW th \in Threads, OthersCount(th), At(th) = "incomingRows", At(th)' = "insertRequest",
         friend_requests' = friend_requests, fl'[th].me = fl[th].me, fl'[th].other = fl[th].other,
         fl[th].other \in Users, IncomingTo(fl[th].other) < MaxIncomingRequests, friend_requests \in [Pairs -> Nat]
  PROVE  LimitsInv'
<1>1. \A u \in Users : SentRows(u)' \subseteq SentRows(u) /\ IncomingRows(u)' \subseteq IncomingRows(u)
  BY RowsAreFewer
<1>2. \A u \in Users : CountedSent(u)' \subseteq CountedSent(u)
  BY DEF CountedSent, OthersCount
<1>3. ASSUME NEW u \in Users
      PROVE  IncomingTo(u)' + Cardinality(CountedIncoming(u)') <= MaxIncomingRequests + Cardinality(Threads) - 1
  <2>1. CASE u = fl[th].other
    <3>1. CountedIncoming(u)' \in SUBSET Threads
      BY DEF CountedIncoming
    <3>2. Cardinality(CountedIncoming(u)') <= Cardinality(Threads) /\ Cardinality(CountedIncoming(u)') \in Nat
      BY <3>1, FriendsAssumption, FS_Subset, FS_CardinalityType
    <3>3. IncomingTo(u)' \in 0..IncomingTo(u) /\ IncomingTo(u) \in Nat /\ Cardinality(Threads) \in Nat /\ MaxIncomingRequests \in Nat
      BY <1>1, LimitsStay, LimitsAre
    <3>4. IncomingTo(u) < MaxIncomingRequests
      BY <2>1
    <3> QED BY <3>2, <3>3, <3>4
  <2>2. CASE u # fl[th].other
    BY <1>1, <2>2, LimitsStay DEF CountedIncoming, OthersCount
  <2> QED BY <2>1, <2>2
<1>4. \A u \in Users : /\ IsFiniteSet(SentRows(u)') /\ IsFiniteSet(IncomingRows(u)')
                       /\ SentBy(u)' + Cardinality(CountedSent(u)') <= MaxSentRequests + Cardinality(Threads) - 1
  BY <1>1, <1>2, LimitsStay
<1> QED BY <1>3, <1>4 DEF LimitsInv

\* The row that was counted on.
LEMMA RequestInserted ==
  ASSUME LimitsInv, NEW th \in Threads, OthersCount(th), At(th) = "insertRequest",
         At(th)' \notin {"incomingRows", "insertRequest"}, friend_requests \in [Pairs -> Nat],
         NEW me, NEW other, me = fl[th].me, other = fl[th].other, <<me, other>> \in Pairs,
         friend_requests' = [friend_requests EXCEPT ![<<me, other>>] = @ + 1]
  PROVE  LimitsInv'
<1>1. me \in Users /\ other \in Users
  BY DEF Pairs
<1>2. ASSUME NEW u \in Users
      PROVE  /\ IsFiniteSet(SentRows(u)') /\ SentBy(u)' = Cardinality(SentRows(u)')
             /\ SentBy(u)' \in Nat /\ SentBy(u)' <= SentBy(u) + 1
             /\ IsFiniteSet(IncomingRows(u)') /\ IncomingTo(u)' = Cardinality(IncomingRows(u)')
             /\ IncomingTo(u)' \in Nat /\ IncomingTo(u)' <= IncomingTo(u) + 1
             /\ u # me => SentRows(u)' \subseteq SentRows(u)
             /\ u # other => IncomingRows(u)' \subseteq IncomingRows(u)
  BY LimitsAre, RowsGrow, FS_CardinalityType DEF SentRows, IncomingRows, SentBy, IncomingTo
<1>3. ASSUME NEW u \in Users
      PROVE  SentBy(u)' + Cardinality(CountedSent(u)') <= MaxSentRequests + Cardinality(Threads) - 1
  <2>1. /\ SentBy(u) \in Nat /\ SentBy(u)' \in Nat /\ IsFiniteSet(CountedSent(u)) /\ Cardinality(CountedSent(u)) \in Nat
        /\ Cardinality(Threads) \in Nat /\ MaxSentRequests \in Nat
        /\ SentBy(u) + Cardinality(CountedSent(u)) <= MaxSentRequests + Cardinality(Threads) - 1
    BY <1>2, LimitsAre DEF LimitsInv
  <2>2. PICK before, after : before = CountedSent(u) /\ after = CountedSent(u)'
    OBVIOUS
  <2>3. CASE u = me
    <3>1. th \in before /\ after \subseteq before \ {th}
      BY <2>2, <2>3 DEF CountedSent, OthersCount
    <3>2. IsFiniteSet(before \ {th}) /\ Cardinality(before \ {th}) = Cardinality(before) - 1
      BY <2>1, <2>2, <3>1, FS_RemoveElement
    <3>3. Cardinality(after) <= Cardinality(before) - 1 /\ Cardinality(after) \in Nat
      BY <3>1, <3>2, FS_Subset, FS_CardinalityType
    <3> QED BY <1>2, <2>1, <2>2, <3>3
  <2>4. CASE u # me
    <3>1. after \subseteq before
      BY <2>2, <2>4 DEF CountedSent, OthersCount
    <3>2. IsFiniteSet(after) /\ Cardinality(after) <= Cardinality(before) /\ Cardinality(after) \in Nat
      BY <2>1, <2>2, <3>1, FS_Subset, FS_CardinalityType
    <3>3. SentBy(u)' <= SentBy(u)
      BY <1>2, <2>4, LimitsAre, FS_Subset
    <3> QED BY <2>1, <2>2, <3>2, <3>3
  <2> QED BY <2>3, <2>4
<1>4. ASSUME NEW u \in Users
      PROVE  IncomingTo(u)' + Cardinality(CountedIncoming(u)') <= MaxIncomingRequests + Cardinality(Threads) - 1
  <2>1. /\ IncomingTo(u) \in Nat /\ IncomingTo(u)' \in Nat /\ IsFiniteSet(CountedIncoming(u)) /\ Cardinality(CountedIncoming(u)) \in Nat
        /\ Cardinality(Threads) \in Nat /\ MaxIncomingRequests \in Nat
        /\ IncomingTo(u) + Cardinality(CountedIncoming(u)) <= MaxIncomingRequests + Cardinality(Threads) - 1
    BY <1>2, LimitsAre DEF LimitsInv
  <2>2. PICK before, after : before = CountedIncoming(u) /\ after = CountedIncoming(u)'
    OBVIOUS
  <2>3. CASE u = other
    <3>1. th \in before /\ after \subseteq before \ {th}
      BY <2>2, <2>3 DEF CountedIncoming, OthersCount
    <3>2. IsFiniteSet(before \ {th}) /\ Cardinality(before \ {th}) = Cardinality(before) - 1
      BY <2>1, <2>2, <3>1, FS_RemoveElement
    <3>3. Cardinality(after) <= Cardinality(before) - 1 /\ Cardinality(after) \in Nat
      BY <3>1, <3>2, FS_Subset, FS_CardinalityType
    <3> QED BY <1>2, <2>1, <2>2, <3>3
  <2>4. CASE u # other
    <3>1. after \subseteq before
      BY <2>2, <2>4 DEF CountedIncoming, OthersCount
    <3>2. IsFiniteSet(after) /\ Cardinality(after) <= Cardinality(before) /\ Cardinality(after) \in Nat
      BY <2>1, <2>2, <3>1, FS_Subset, FS_CardinalityType
    <3>3. IncomingTo(u)' <= IncomingTo(u)
      BY <1>2, <2>4, LimitsAre, FS_Subset
    <3> QED BY <2>1, <2>2, <3>2, <3>3
  <2> QED BY <2>3, <2>4
<1> QED BY <1>2, <1>3, <1>4 DEF LimitsInv

\* Every other step of a call leads to one that does not rely on a count.
LEMMA GoesOnUncounted ==
  ASSUME NEW th \in Threads, pc \in [Threads -> FriendPlaces], NEW x, AtStep(th, x), x \notin {"sentRows", "incomingRows"},
         x # Doing(th), Advance(th) \/ Return(th)
  PROVE  At(th)' \notin {"incomingRows", "insertRequest"} /\ \A o \in Threads \ {th} : At(o)' = At(o)
  BY AtStepIs, Advanced, OnlyCountsCount, Returned DEF Moves

CallNames == {"none", "CreateFriendRequest", "AcceptFriendRequest", "RejectFriendRequest", "CancelFriendRequest", "RemoveFriend",
          "GetFriendList", "GetFriendRequestsList", "CallFriend", "AddConversation", "GetConversations"}

LEMMA CallsAre ==
  ASSUME NEW p \in FriendPlaces
  PROVE  Call(p) \in CallNames
<1>1. CASE p \in SendPlaces \cup AcceptPlaces
  BY <1>1, SendPlacesAre, AcceptPlacesAre DEF SendPlaces, AcceptPlaces, CallNames
<1>2. CASE p \in RejectPlaces \cup CancelPlaces
  BY <1>2, RejectPlacesAre, CancelPlacesAre DEF RejectPlaces, CancelPlaces, CallNames
<1>3. CASE p \in RemovePlaces \cup ListPlaces
  BY <1>3, RemovePlacesAre, ListPlacesAre DEF RemovePlaces, ListPlaces, CallNames
<1>4. CASE p \in AskPlaces \cup CallPlaces
  BY <1>4, AskPlacesAre, CallFriendPlacesAre DEF AskPlaces, CallPlaces, CallNames
<1>5. CASE p \in CreatePlaces
  BY <1>5, CreatePlacesAre DEF CreatePlaces, CallNames
<1>6. CASE p \in LoadPlaces
  BY <1>6, LoadPlacesAre DEF LoadPlaces, CallNames
<1>7. CASE p = <<>>
  BY <1>7 DEF Call, CallNames
<1> QED BY <1>1, <1>2, <1>3, <1>4, <1>5, <1>6, <1>7 DEF FriendPlaces

\* A thread that relies on no count after its step.
Uncounted(th) == At(th)' \notin {"incomingRows", "insertRequest"} /\ \A o \in Threads \ {th} : At(o)' = At(o)

LEMMA StepUncounted ==
  ASSUME NEW th \in Threads, pc \in [Threads -> FriendPlaces], NEW x, AtStep(th, x), x \notin {"sentRows", "incomingRows"},
         x \notin CallNames, Advance(th) \/ Return(th)
  PROVE  Uncounted(th)
  BY AtStepIs, CallsAre, GoesOnUncounted DEF Uncounted

LEMMA SkipUncounted ==
  ASSUME NEW th \in Threads, pc \in [Threads -> FriendPlaces], NEW x \in {"selectFriends", "cachedRequest", "selectRequests"},
         AtStep(th, x), Skip(th, 2)
  PROVE  Uncounted(th)
  BY AtStepIs, CallsAre, WhatNext, SkippedTwo, GoesOn, OnlyCountsCount DEF CallNames, Moves,
     Uncounted

LEMMA StepsUncounted ==
  ASSUME FriendsInv, NEW th \in Threads, FriendStep(th), ~CountSentRows(th), ~CountIncomingRows(th)
  PROVE  Uncounted(th)
<1>1. pc \in [Threads -> FriendPlaces]
  BY InvIs
<1>2. CASE HasFriendListForUserId(th)
  <2>1. PICK p \in FriendPlaces : p = pc[th] /\ Step(p) = "listed"
    BY <1>1, <1>2, AtStepIs DEF HasFriendListForUserId
  <2>2. Step(Rest(p)) \notin {"incomingRows", "insertRequest"}
    BY <2>1, OnlyCountsCount
  <2> QED BY <1>1, <1>2, <2>1, <2>2, ListAsked DEF Moves, Uncounted
<1>3. CASE HasFriendRequestListForUserId(th)
  <2>1. PICK p \in FriendPlaces : p = pc[th] /\ Step(p) = "asked"
    BY <1>1, <1>3, AtStepIs DEF HasFriendRequestListForUserId
  <2>2. Step(Rest(p)) \notin {"incomingRows", "insertRequest"}
    BY <2>1, OnlyCountsCount
  <2> QED BY <1>1, <1>3, <2>1, <2>2, RequestsAsked DEF Moves, Uncounted
<1>4. CASE SelectFriends(th)
  BY <1>1, <1>4, StepUncounted, SkipUncounted DEF SelectFriends, CallNames
<1>5. CASE SelectRequests(th)
  BY <1>1, <1>5, StepUncounted, SkipUncounted DEF SelectRequests, CallNames
<1>6. CASE FindCachedRequest(th)
  BY <1>1, <1>6, SkippedOne, StepUncounted, SkipUncounted DEF FindCachedRequest, CallNames
<1>7. CASE CountSameRow(th)
  BY <1>1, <1>7, Left, StepUncounted DEF CountSameRow, Count, AdvanceIf, Moves, Uncounted, CallNames
<1>8. CASE FriendReply(th)
  BY <1>1, <1>8, MovedTo DEF FriendPlaces, Step, FriendReply, Finish, Uncounted
<1>9. CASE StoreFriends(th) \/ CheckIsFriend(th) \/ CheckCachedLimits(th) \/ InsertRequest(th) \/ CacheRequest(th)
  BY <1>1, <1>9, StepUncounted DEF StoreFriends, CheckIsFriend, CheckCachedLimits, InsertRequest,
     CacheRequest, AdvanceIf, CallNames
<1>10. CASE FindRequestRow(th) \/ AcceptRows(th) \/ DeleteRequest(th) \/ EraseRequest(th)
  BY <1>1, <1>10, StepUncounted DEF FindRequestRow, AcceptRows, DeleteRequest, EraseRequest,
     Execute, AdvanceIf, CallNames
<1>11. CASE AddFriends(th) \/ DeleteFriends(th) \/ EraseFriends(th) \/ StoreRequests(th)
  BY <1>1, <1>11, StepUncounted DEF AddFriends, DeleteFriends, EraseFriends, StoreRequests,
     CallNames
<1> QED BY <1>2, <1>3, <1>4, <1>5, <1>6, <1>7, <1>8, <1>9, <1>10, <1>11, Zenon DEF FriendStep

\* The local variables of the others.
LEMMA OthersLocals ==
  ASSUME FriendsInv, NEW th \in Threads, FriendStep(th), NEW o \in Threads \ {th}
  PROVE  fl'[o] = fl[o]
<1>1. fl' = fl \/ \E rec : fl' = [fl EXCEPT ![th] = rec]
  <2>1. CASE SelectFriends(th) \/ StoreFriends(th) \/ FindCachedRequest(th) \/ FindRequestRow(th)
    BY <2>1, Zenon DEF SelectFriends, StoreFriends, FindCachedRequest, FindRequestRow
  <2>2. CASE SelectRequests(th) \/ StoreRequests(th) \/ FriendReply(th)
    BY <2>2, Zenon DEF SelectRequests, StoreRequests, FriendReply
  <2>3. CASE HasFriendListForUserId(th) \/ CheckIsFriend(th) \/ CheckCachedLimits(th) \/ CountSameRow(th)
             \/ CountSentRows(th) \/ CountIncomingRows(th) \/ InsertRequest(th) \/ CacheRequest(th)
    BY <2>3, Zenon DEF HasFriendListForUserId, CheckIsFriend, CheckCachedLimits, CountSameRow, CountSentRows, CountIncomingRows,
       Count, InsertRequest, CacheRequest, friendVars
  <2>4. CASE AcceptRows(th) \/ DeleteRequest(th) \/ EraseRequest(th) \/ AddFriends(th) \/ DeleteFriends(th)
             \/ EraseFriends(th) \/ HasFriendRequestListForUserId(th)
    BY <2>4, Zenon DEF AcceptRows, DeleteRequest, Execute, EraseRequest, AddFriends, DeleteFriends, EraseFriends,
       HasFriendRequestListForUserId, friendVars
  <2> QED BY <2>1, <2>2, <2>3, <2>4, Zenon DEF FriendStep
<1>2. fl \in [Threads -> FriendCallType]
  BY InvIs DEF FriendTypes
<1> QED BY <1>1, <1>2

\* Requests are deleted by any step and inserted by one.
LEMMA RequestsFewer ==
  ASSUME FriendsInv, NEW th \in Threads, FriendStep(th)
  PROVE  \/ /\ friend_requests' \in [Pairs -> Nat]
            /\ \A p \in Pairs : friend_requests'[p] <= friend_requests[p]
         \/ /\ AtStep(th, "insertRequest")
            /\ friend_requests' = [friend_requests EXCEPT ![<<fl[th].me, fl[th].other>>] = @ + 1]
<1>1. friend_requests \in [Pairs -> Nat]
  BY InvIs DEF FriendTypes
<1>2. \/ friend_requests' = friend_requests \/ InsertRequest(th)
      \/ \E q : friend_requests' = [friend_requests EXCEPT ![q] = 0]
  <2>1. CASE SelectFriends(th) \/ StoreFriends(th) \/ FindCachedRequest(th) \/ FindRequestRow(th)
    BY <2>1, Zenon DEF SelectFriends, StoreFriends, FindCachedRequest, FindRequestRow, friendTables
  <2>2. CASE SelectRequests(th) \/ StoreRequests(th) \/ FriendReply(th)
    BY <2>2, Zenon DEF SelectRequests, StoreRequests, FriendReply, friendTables
  <2>3. CASE HasFriendListForUserId(th) \/ CheckIsFriend(th) \/ CheckCachedLimits(th) \/ CountSameRow(th)
             \/ CountSentRows(th) \/ CountIncomingRows(th) \/ CacheRequest(th)
    BY <2>3, Zenon DEF HasFriendListForUserId, CheckIsFriend, CheckCachedLimits, CountSameRow, CountSentRows, CountIncomingRows,
       Count, CacheRequest, friendVars, friendTables
  <2>4. CASE AcceptRows(th) \/ DeleteRequest(th)
    BY <2>4, Zenon DEF AcceptRows, DeleteRequest, Execute, friendTables
  <2>5. CASE EraseRequest(th) \/ AddFriends(th) \/ DeleteFriends(th) \/ EraseFriends(th) \/ HasFriendRequestListForUserId(th)
    BY <2>5, Zenon DEF EraseRequest, AddFriends, DeleteFriends, EraseFriends, HasFriendRequestListForUserId, friendVars, friendTables
  <2> QED BY <2>1, <2>2, <2>3, <2>4, <2>5, Zenon DEF FriendStep
<1>3. CASE friend_requests' = friend_requests
  BY <1>1, <1>3
<1>4. CASE InsertRequest(th)
  BY <1>3, <1>4 DEF InsertRequest
<1>5. CASE \E q : friend_requests' = [friend_requests EXCEPT ![q] = 0]
  <2>1. PICK q : friend_requests' = [friend_requests EXCEPT ![q] = 0]
    BY <1>5
  <2>2. \A p \in Pairs : friend_requests'[p] \in {0, friend_requests[p]} /\ friend_requests[p] \in Nat
    BY <1>1, <2>1
  <2>3. friend_requests' \in [Pairs -> Nat]
    BY <1>1, <2>1, <2>2
  <2>4. \A p \in Pairs : friend_requests'[p] <= friend_requests[p]
    BY <2>2
  <2> QED BY <2>3, <2>4
<1> QED BY <1>2, <1>3, <1>4, <1>5

LEMMA StepKeepsLimits ==
  ASSUME FriendsInv, LimitsInv, NEW th \in Threads, FriendStep(th)
  PROVE  LimitsInv'
<1>1. FriendTypes /\ About(th) /\ pc \in [Threads -> FriendPlaces] /\ friend_requests \in [Pairs -> Nat]
  BY InvIs DEF FriendTypes
<1>2. \A o \in Threads \ {th} : fl'[o] = fl[o]
  BY OthersLocals
<1>3. CASE CountSentRows(th)
  <2>0. PICK passes : passes = (SentBy(fl[th].me) < MaxSentRequests)
    OBVIOUS
  <2>1. (passes => SentBy(fl[th].me) < MaxSentRequests) /\ Count(th, "sentRows", passes)
    BY <1>3, <2>0 DEF CountSentRows
  <2>2. AtStep(th, "sentRows") /\ fl' = fl /\ friend_requests' = friend_requests
    BY <2>1 DEF Count, friendTables
  <2>3. PICK p \in FriendPlaces : p = pc[th] /\ Step(p) = "sentRows" /\ Call(p) = Doing(th) /\ Doing(th) \in CallNames
    BY <1>1, <2>2, AtStepIs, CallsAre
  <2>4. Step(Rest(p)) = "incomingRows" /\ Doing(th) = "CreateFriendRequest"
    BY <2>3, WhatNext, WhatFor
  <2>5. fl[th].me \in Users
    BY <1>1, <2>4, FriendsAssumption DEF About
  <2>6. CASE AdvanceIf(th, passes)
    BY <1>1, <2>1, <2>2, <2>3, <2>4, <2>5, <2>6, AdvancedIf, SentCounted, LimitsKept DEF Moves,
       OthersCount
  <2>7. CASE Leave(th, "insertRequest")
    BY <1>1, <2>2, <2>7, Left, LimitsKept DEF Moves, OthersCount
  <2> QED BY <2>1, <2>6, <2>7 DEF Count
<1>4. CASE CountIncomingRows(th)
  <2>0. PICK passes : passes = (IncomingTo(fl[th].other) < MaxIncomingRequests)
    OBVIOUS
  <2>1. (passes => IncomingTo(fl[th].other) < MaxIncomingRequests) /\ Count(th, "incomingRows", passes)
    BY <1>4, <2>0 DEF CountIncomingRows
  <2>2. AtStep(th, "incomingRows") /\ fl' = fl /\ friend_requests' = friend_requests
    BY <2>1 DEF Count, friendTables
  <2>3. PICK p \in FriendPlaces : p = pc[th] /\ Step(p) = "incomingRows" /\ Call(p) = Doing(th) /\ Doing(th) \in CallNames /\ At(th) = "incomingRows"
    BY <1>1, <2>2, AtStepIs, CallsAre
  <2>4. Step(Rest(p)) = "insertRequest" /\ Doing(th) = "CreateFriendRequest"
    BY <2>3, WhatNext, WhatFor
  <2>5. fl[th].other \in Users
    BY <1>1, <2>4, FriendsAssumption DEF About
  <2>6. CASE AdvanceIf(th, passes)
    BY <1>1, <2>1, <2>2, <2>3, <2>4, <2>5, <2>6, AdvancedIf, IncomingCounted, LimitsKept DEF Moves,
       OthersCount
  <2>7. CASE Leave(th, "insertRequest")
    BY <1>1, <2>2, <2>7, Left, LimitsKept DEF Moves, OthersCount
  <2> QED BY <2>1, <2>6, <2>7 DEF Count
<1>5. CASE ~CountSentRows(th) /\ ~CountIncomingRows(th)
  <2>1. Uncounted(th)
    BY <1>5, StepsUncounted
  <2>2. OthersCount(th) /\ At(th)' \notin {"incomingRows", "insertRequest"}
    BY <1>2, <2>1 DEF Uncounted, OthersCount
  <2>3. CASE friend_requests' \in [Pairs -> Nat] /\ \A p \in Pairs : friend_requests'[p] <= friend_requests[p]
    BY <1>1, <2>2, <2>3, LimitsKept
  <2>4. CASE /\ AtStep(th, "insertRequest")
             /\ friend_requests' = [friend_requests EXCEPT ![<<fl[th].me, fl[th].other>>] = @ + 1]
    <3>1. PICK me, other : me = fl[th].me /\ other = fl[th].other
      OBVIOUS
    <3>2. At(th) = "insertRequest" /\ Doing(th) = "CreateFriendRequest"
      BY <1>1, <2>4, AtStepIs, WhatFor
    <3>3. <<me, other>> \in Pairs
      BY <1>1, <3>1, <3>2, FriendsAssumption DEF About, Writes, FriendWriters, Pairs
    <3>4. friend_requests' = [friend_requests EXCEPT ![<<me, other>>] = @ + 1]
      BY <2>4, <3>1
    <3> QED BY <1>1, <2>2, <3>1, <3>2, <3>3, <3>4, RequestInserted
  <2> QED BY <2>3, <2>4, RequestsFewer
<1> QED BY <1>3, <1>4, <1>5

LEMMA BeginKeepsLimits ==
  ASSUME FriendsInv, LimitsInv, NEW th \in Threads, NEW op, NEW steps, NEW a, NEW b, BeginFriendCall(th, op, steps, a, b),
         NEW q \in FriendPlaces, Append(steps, op) = q, Step(q) \in TurnSteps
  PROVE  LimitsInv'
<1>1. pc \in [Threads -> FriendPlaces] /\ friend_requests \in [Pairs -> Nat] /\ fl \in [Threads -> FriendCallType]
  BY InvIs DEF FriendTypes
<1>2. pc' = [pc EXCEPT ![th] = q]
  BY DEF BeginFriendCall, Enter
<1>3. At(th)' = Step(q) /\ \A o \in Threads \ {th} : At(o)' = At(o)
  BY <1>1, <1>2, MovedTo
<1>4. \A o \in Threads \ {th} : fl'[o] = fl[o]
  BY <1>1 DEF BeginFriendCall
<1>5. friend_requests' = friend_requests
  BY DEF BeginFriendCall, friendTables
<1>6. OthersCount(th) /\ At(th)' \notin {"incomingRows", "insertRequest"}
  BY <1>3, <1>4 DEF OthersCount, TurnSteps
<1> QED BY <1>1, <1>5, <1>6, LimitsKept

LEMMA CallsKeepLimits ==
  ASSUME FriendsInv, LimitsInv, NEW th \in Threads, FriendCall(th)
  PROVE  LimitsInv'
<1>1. /\ {S1, K1, J1, X1, U1, L1, Q1} \subseteq FriendPlaces
      /\ Step(S1) \in TurnSteps /\ Step(K1) \in TurnSteps /\ Step(J1) \in TurnSteps /\ Step(X1) \in TurnSteps
      /\ Step(U1) \in TurnSteps /\ Step(L1) \in TurnSteps /\ Step(Q1) \in TurnSteps
  BY GroupsAre, SendPlacesAre, AcceptPlacesAre, RejectPlacesAre, CancelPlacesAre, RemovePlacesAre, ListPlacesAre, AskPlacesAre
     DEF SendPlaces, AcceptPlaces, RejectPlaces, CancelPlaces, RemovePlaces, ListPlaces, AskPlaces, TurnSteps
<1>2. CASE \E a, b \in Callers : OnMessageReceived_CreateFriendRequest(th, a, b)
  BY <1>1, <1>2, BeginKeepsLimits, FriendCallsBegin DEF OnMessageReceived_CreateFriendRequest
<1>3. CASE \E a, b \in Callers : OnMessageReceived_AcceptFriendRequest(th, a, b)
  BY <1>1, <1>3, BeginKeepsLimits, FriendCallsBegin DEF OnMessageReceived_AcceptFriendRequest
<1>4. CASE \E a, b \in Callers : OnMessageReceived_RejectFriendRequest(th, a, b)
  BY <1>1, <1>4, BeginKeepsLimits, FriendCallsBegin DEF OnMessageReceived_RejectFriendRequest
<1>5. CASE \E a, b \in Callers : OnMessageReceived_CancelFriendRequest(th, a, b)
  BY <1>1, <1>5, BeginKeepsLimits, FriendCallsBegin DEF OnMessageReceived_CancelFriendRequest
<1>6. CASE \E a, b \in Callers : OnMessageReceived_RemoveFriend(th, a, b)
  BY <1>1, <1>6, BeginKeepsLimits, FriendCallsBegin DEF OnMessageReceived_RemoveFriend
<1>7. CASE \E a \in Callers : OnMessageReceived_GetFriendList(th, a)
  BY <1>1, <1>7, BeginKeepsLimits, FriendCallsBegin DEF OnMessageReceived_GetFriendList
<1>8. CASE \E a \in Callers : OnMessageReceived_GetFriendRequestsList(th, a)
  BY <1>1, <1>8, BeginKeepsLimits, FriendCallsBegin DEF OnMessageReceived_GetFriendRequestsList
<1> QED BY <1>2, <1>3, <1>4, <1>5, <1>6, <1>7, <1>8 DEF FriendCall

LEMMA RestartKeepsLimits ==
  ASSUME LimitsInv, pc' = Idle, friend_requests' = friend_requests, friend_requests \in [Pairs -> Nat]
  PROVE  LimitsInv'
<1>1. \A th \in Threads : At(th)' = "idle"
  BY DEF At, Step, Idle
<1>2. \A u \in Users : CountedSent(u)' \subseteq CountedSent(u) /\ CountedIncoming(u)' \subseteq CountedIncoming(u)
  BY <1>1 DEF CountedSent, CountedIncoming
<1>3. \A u \in Users : SentRows(u)' \subseteq SentRows(u) /\ IncomingRows(u)' \subseteq IncomingRows(u)
  BY RowsAreFewer
<1> QED BY <1>2, <1>3, LimitsStay DEF LimitsInv

LEMMA RestKeepsLimits ==
  ASSUME LimitsInv, UNCHANGED <<pc, friendVars>>
  PROVE  LimitsInv'
<1>1. pc' = pc /\ fl' = fl /\ friend_requests' = friend_requests
  BY DEF friendVars, friendTables
<1>2. \A u : /\ SentRows(u)' = SentRows(u) /\ IncomingRows(u)' = IncomingRows(u)
             /\ SentBy(u)' = SentBy(u) /\ IncomingTo(u)' = IncomingTo(u)
  BY <1>1 DEF SentRows, IncomingRows, SentBy, IncomingTo, RequestRows
<1>3. \A u : CountedSent(u)' = CountedSent(u) /\ CountedIncoming(u)' = CountedIncoming(u)
  BY <1>1 DEF CountedSent, CountedIncoming, At
<1> QED BY <1>2, <1>3 DEF LimitsInv

\* One request at most is there from the start.
LEMMA LimitsBegin ==
  ASSUME FriendsInit, pc = Idle
  PROVE  LimitsInv
<1>1. PICK q : \A r \in RequestRows(Pairs) : r = <<q, 1>>
  BY InRows DEF FriendsInit, FriendsStart
<1>2. ASSUME NEW S \in SUBSET Pairs
      PROVE  IsFiniteSet(RequestRows(S)) /\ Cardinality(RequestRows(S)) \in {0, 1}
  <2>1. RequestRows(S) \subseteq {<<q, 1>>}
    BY <1>1 DEF RequestRows
  <2>2. RequestRows(S) = {} \/ RequestRows(S) = {<<q, 1>>}
    BY <2>1
  <2> QED BY <2>2, FS_EmptySet, FS_Singleton
<1>3. ASSUME NEW u \in Users
      PROVE  /\ IsFiniteSet(SentRows(u)) /\ IsFiniteSet(IncomingRows(u))
             /\ SentBy(u) \in {0, 1} /\ IncomingTo(u) \in {0, 1}
  BY <1>2 DEF SentRows, IncomingRows, SentBy, IncomingTo
<1>4. \A th \in Threads : At(th) = "idle"
  BY DEF At, Step, Idle
<1>5. \A u \in Users : CountedSent(u) = {} /\ CountedIncoming(u) = {}
  BY <1>4 DEF CountedSent, CountedIncoming
<1>6. Cardinality({}) = 0
  BY FS_EmptySet
<1>7. Cardinality(Threads) \in Nat /\ Cardinality(Threads) # 0
  BY FriendsAssumption, FS_CardinalityType, FS_EmptySet
<1>8. MaxSentRequests \in Nat \ {0} /\ MaxIncomingRequests \in Nat \ {0}
  BY FriendsAssumption
<1>9. ASSUME NEW u \in Users
      PROVE  /\ SentBy(u) + Cardinality(CountedSent(u)) <= MaxSentRequests + Cardinality(Threads) - 1
             /\ IncomingTo(u) + Cardinality(CountedIncoming(u)) <= MaxIncomingRequests + Cardinality(Threads) - 1
  BY <1>3, <1>5, <1>6, <1>7, <1>8
<1> QED BY <1>3, <1>9 DEF LimitsInv

LEMMA NextKeepsLimits ==
  ASSUME FriendsInv, LimitsInv, FriendsNext
  PROVE  LimitsInv'
  BY RestartKeepsLimits, StepKeepsLimits, CallsKeepLimits DEF FriendsRestart, friendTables,
     FriendsInv, FriendTypes, FriendsNext

\* Whatever is cached, fails or restarts, the limits of requests are passed by one row for
\* each thread but one at most, though SendFriendRequest counts and inserts in separate
\* statements.
THEOREM RequestLimitsStayNearlyKept == FriendsSpec => []RequestLimitsNearlyKept
<1>1. FriendsInit /\ pc = Idle => LimitsInv
  BY LimitsBegin
<1>2. FriendsInv /\ LimitsInv /\ [FriendsNext]_<<pc, friendVars>> => LimitsInv'
  BY NextKeepsLimits, RestKeepsLimits
<1>3. LimitsInv => RequestLimitsNearlyKept
  BY LimitsAre DEF RequestLimitsNearlyKept, LimitsInv
<1> QED BY <1>1, <1>2, <1>3, FriendsAlways, PTL DEF FriendsSpec

===============================================================================
