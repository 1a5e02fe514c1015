------------------------- MODULE ConversationProofs -------------------------
(***************************************************************************)
(* Proofs about Conversations, for every set of threads, users and         *)
(* callers, any number of friends, conversations and faults, and about     *)
(* ConversationMessages, for any number of messages, any size of a page,   *)
(* of the look-back and of what the trim leaves.  The first part rests on  *)
(* what FriendProofs shows of the friend lists a conversation begins with. *)
(***************************************************************************)
EXTENDS FriendProofs, ConversationMessages

(***************************************************************************)
(* The conversations of couples: the invariant.                            *)
(***************************************************************************)
\* The calls that cache conversations.
Opens(th) == Doing(th) \in {"AddConversation", "GetConversations"}

RegistryCallType == [id : 0..conversations, users : SUBSET Users, left : SUBSET (1..conversations)]

RegistryTypes ==
    /\ conversations \in ConversationIds
    /\ conversation_participants \subseteq (1..conversations) \X Users
    /\ DOMAIN conversationUsers \subseteq 0..conversations
    /\ \A id \in DOMAIN conversationUsers : conversationUsers[id] \subseteq Users
    /\ UserIdToConversation \subseteq Users \X (0..conversations)
    /\ cv \in [Threads -> RegistryCallType]
    /\ overlapped \in BOOLEAN
    /\ conversation_faults \in 0..MaxConversationFaults
    /\ \A th \in Threads : At(th) \in {"insertCaller", "insertOther"} => cv[th].id > 0

\* One call at a time caches conversations ...
OpensAlone == \A t, o \in Threads : Opens(t) /\ Opens(o) => t = o

\* ... and nobody ends a friendship while one is opened.
EndsApart == \A t, o \in Threads : Doing(t) = "AddConversation" => Doing(o) # "RemoveFriend"

\* Who lists a conversation takes part in it, and it is cached.
ListsAgree ==
    \A u \in Users, id \in 1..conversations :
        <<u, id>> \in UserIdToConversation => id \in DOMAIN conversationUsers /\ u \in ParticipantsOf(id)

\* A cached conversation has the users the table gives it, and they list it or are about to.
Listing(id) == \E th \in Threads : At(th) = "listConversation" /\ cv[th].id = id
CachesAgree ==
    \A id \in DOMAIN conversationUsers \ {0} :
        /\ conversationUsers[id] = ParticipantsOf(id)
        /\ Listing(id) \/ \A u \in ParticipantsOf(id) : <<u, id>> \in UserIdToConversation

\* Two users have one conversation.
OneDirect ==
    \A p \in Pairs : \A i, j \in 1..conversations :
        ParticipantsOf(i) = {p[1], p[2]} /\ ParticipantsOf(j) = {p[1], p[2]} => i = j

\* What a call knows of the conversation it is about: its users; that there is none of the
\* couple yet; that the one being created has no users, or the caller alone, and is not cached.
FindingSteps == {"cacheConversation", "listConversation", "foundConversation"}
CreatingSteps == {"insertConversation", "insertCaller", "insertOther"}
KnownUsers(th) ==
    /\ At(th) \in {"cacheConversation", "listConversation"} /\ cv[th].id # 0 => cv[th].users = ParticipantsOf(cv[th].id)
    /\ At(th) = "listConversation" => cv[th].id \in DOMAIN conversationUsers
    /\ Doing(th) = "AddConversation" => fl[th].me # fl[th].other
    /\ Doing(th) = "AddConversation" /\ At(th) \in FindingSteps \cup CreatingSteps => cv[th].users = Couple(th)
NoneYet(th) ==
    /\ Doing(th) = "AddConversation" /\ At(th) \in FindingSteps /\ cv[th].id = 0 => DirectOf(Couple(th)) = {}
    /\ At(th) \in CreatingSteps => DirectOf(Couple(th)) = {}
BeingCreated(th) ==
    /\ At(th) = "insertCaller" => ParticipantsOf(cv[th].id) = {}
    /\ At(th) = "insertOther" => ParticipantsOf(cv[th].id) = {fl[th].other}
    /\ At(th) \in {"insertCaller", "insertOther"} => cv[th].id \notin DOMAIN conversationUsers

RegistryAgrees ==
    /\ OpensAlone /\ EndsApart
    /\ ListsAgree /\ CachesAgree /\ OneDirect
    /\ \A th \in Threads : KnownUsers(th) /\ NoneYet(th) /\ BeingCreated(th)

RegistryInv == RegistryTypes /\ (~overlapped => RegistryAgrees)

(***************************************************************************)
(* That a conversation is created between friends: the invariant.          *)
(***************************************************************************)
\* No requests are sent or answered here.
FewCalls == \A th \in Threads : Doing(th) \in {"none", "RemoveFriend", "CallFriend", "AddConversation", "GetConversations"}

\* Who is cached, or about to be, as a friend is one in the table, or about to leave the cache,
\* though the rest of the list may be missing.
CachedAreFriends ==
    \A u, v \in Users : u # v /\ {u, v} \notin doubted /\ Friends[u][v] > 0 => RowsBetween(u, v) > 0 \/ Removing(u, v)
ReadAreFriends(th) ==
    /\ At(th) # "storeFriends" => fl[th].friends = NoFriends
    /\ \A v \in Users :
           At(th) = "storeFriends" /\ fl[th].me # v /\ {fl[th].me, v} \notin doubted /\ fl[th].friends[v] > 0 =>
               RowsBetween(fl[th].me, v) > 0
ReadsApart ==
    \A t, o \in Threads : t # o /\ At(t) = "storeFriends" /\ Writes(o) /\ fl[t].me \in Couple(o) =>
        Couple(o) \in doubted \/ fl[t].friends = NoFriends

\* A call past its check is about friends.
OfFriends(th) ==
    ~overlapped /\ Doing(th) = "AddConversation" /\ At(th) \in {"findConversation"} \cup FindingSteps \cup CreatingSteps =>
        Couple(th) \in doubted \/ RowsBetween(fl[th].me, fl[th].other) > 0

ConverseInv ==
    /\ FewCalls /\ CachedAreFriends /\ ReadsApart
    /\ \A th \in Threads : ReadAreFriends(th) /\ OfFriends(th)

RegistrySteps == FindingSteps \cup CreatingSteps

\* What the steps of a conversation are made for.
LEMMA OpensAre ==
  ASSUME NEW p \in FriendPlaces
  PROVE  /\ Step(p) \in RegistrySteps => Call(p) \in {"AddConversation", "GetConversations"}
         /\ Step(p) \in {"foundConversation"} \cup CreatingSteps => Call(p) = "AddConversation"
         /\ Call(p) \notin RegistrySteps
         /\ Step(Rest(p)) \in RegistrySteps \ {"cacheConversation"} => Step(p) \in RegistrySteps
         /\ Step(Rest(p)) = "cacheConversation" => Step(p) \in {"findConversation", "insertOther", "selectParticipants"}
<1>0. Step(<<>>) = "idle"
  BY DEF Step
<1> USE DEF RegistrySteps, FindingSteps, CreatingSteps
<1>1. CASE p \in SendPlaces
  BY <1>0, <1>1, SendPlacesAre DEF SendPlaces
<1>2. CASE p \in AcceptPlaces
  BY <1>0, <1>2, AcceptPlacesAre DEF AcceptPlaces
<1>3. CASE p \in RejectPlaces
  BY <1>0, <1>3, RejectPlacesAre DEF RejectPlaces
<1>4. CASE p \in CancelPlaces
  BY <1>0, <1>4, CancelPlacesAre DEF CancelPlaces
<1>5. CASE p \in RemovePlaces
  BY <1>0, <1>5, RemovePlacesAre DEF RemovePlaces
<1>6. CASE p \in ListPlaces
  BY <1>0, <1>6, ListPlacesAre DEF ListPlaces
<1>7. CASE p \in AskPlaces
  BY <1>0, <1>7, AskPlacesAre DEF AskPlaces
<1>8. CASE p \in CallPlaces
  BY <1>0, <1>8, CallFriendPlacesAre DEF CallPlaces
<1>9. CASE p \in CreatePlaces
  BY <1>0, <1>9, CreatePlacesAre DEF CreatePlaces
<1>10. CASE p \in LoadPlaces
  BY <1>0, <1>10, LoadPlacesAre DEF LoadPlaces
<1>11. CASE p = <<>>
  BY <1>11 DEF Step, Call, Rest
<1>12. QED
  BY <1>1, <1>2, <1>3, <1>4, <1>5, <1>6, <1>7, <1>8, <1>9, <1>10, <1>11 DEF FriendPlaces

\* The participants of a conversation are asked for before what is left.
LEMMA ParticipantsAsked == DownloadConversationParticipants \o H6 = H3
<1>1. DownloadConversationParticipants \in Seq(Words) /\ H6 \in Seq(Words) /\ H3 \in Seq(Words)
  BY DEF DownloadConversationParticipants, H6, H3, Words
<1>2. Len(H3) = Len(DownloadConversationParticipants) + Len(H6)
      /\ (\A i \in 1..Len(DownloadConversationParticipants) : H3[i] = DownloadConversationParticipants[i])
  BY DEF DownloadConversationParticipants, H6, H3
<1>3. \A i \in 1..Len(H6) : H3[Len(DownloadConversationParticipants) + i] = H6[i]
  BY DEF DownloadConversationParticipants, H6, H3
<1> QED BY <1>1, <1>2, <1>3, Concatenated

\* The places of the steps, and the step each leads to.
LEMMA OpenWhere ==
  /\ Rest(O6) = O7 /\ Rest(O7) = O8 /\ Rest(O12) = O13 /\ Rest(O13) = O14 /\ Rest(H4) = H5 /\ Rest(H5) = H6
  /\ Step(O7) = "listConversation" /\ Step(O13) = "listConversation" /\ Step(H5) = "listConversation"
  /\ Step(O8) = "foundConversation" /\ Step(O14) = "AddConversation" /\ Step(H6) = "nextConversation"
  /\ Call(O6) = "AddConversation" /\ Call(O12) = "AddConversation" /\ Call(H4) = "GetConversations"
  /\ Call(O7) = "AddConversation" /\ Call(O13) = "AddConversation" /\ Call(H5) = "GetConversations"
BY CreatePlacesAre, LoadPlacesAre

\* Where a step of a conversation leads.
RegistryGoes(th, from, s) ==
    /\ At(th) = from /\ Moves(th, s) /\ UNCHANGED friendVars
    /\ Opens(th)

LEMMA FindGoes ==
  ASSUME NEW th \in Threads, pc \in [Threads -> FriendPlaces], FindConversation2Ids(th)
  PROVE  RegistryGoes(th, "findConversation", "cacheConversation") /\ Doing(th) = "AddConversation"
<1>1. AtStep(th, "findConversation") /\ Advance(th) /\ UNCHANGED friendVars
  BY DEF FindConversation2Ids
<1>2. At(th) = "findConversation" /\ pc[th] \in FriendPlaces /\ Step(pc[th]) = "findConversation" /\ Call(pc[th]) = Doing(th)
  BY <1>1, AtStepIs
<1>3. Doing(th) = "AddConversation" /\ Step(Rest(pc[th])) = "cacheConversation"
  BY <1>2, WhatFor, WhatNext
<1>4. Moves(th, "cacheConversation")
  BY <1>1, <1>3, Advanced
<1> QED BY <1>1, <1>2, <1>3, <1>4 DEF RegistryGoes, Opens

LEMMA CacheGoes ==
  ASSUME NEW th \in Threads, pc \in [Threads -> FriendPlaces], CacheConversation(th)
  PROVE  /\ cv[th].id \notin DOMAIN conversationUsers => RegistryGoes(th, "cacheConversation", "listConversation")
         /\ cv[th].id \in DOMAIN conversationUsers =>
                \E s \in {"foundConversation", "AddConversation", "nextConversation"} : RegistryGoes(th, "cacheConversation", s)
         /\ At(th)' = "foundConversation" => Doing(th) = "AddConversation"
  BY AtStepIs, WhatFor, WhatNext, Advanced, WhereIs, OpenWhere, SkippedTwo DEF CacheConversation,
     RegistryGoes, Opens, Moves

LEMMA ListGoes ==
  ASSUME NEW th \in Threads, pc \in [Threads -> FriendPlaces], AddConversationsForUserToCache(th)
  PROVE  \E s \in {"foundConversation", "AddConversation", "nextConversation"} : RegistryGoes(th, "listConversation", s)
  BY AtStepIs, WhatFor, WhatNext, Advanced DEF AddConversationsForUserToCache, RegistryGoes, Opens

LEMMA FoundGoes ==
  ASSUME NEW th \in Threads, pc \in [Threads -> FriendPlaces], FoundConversation(th)
  PROVE  /\ Doing(th) = "AddConversation"
         /\ cv[th].id = 0 => RegistryGoes(th, "foundConversation", "insertConversation")
         /\ cv[th].id # 0 => RegistryGoes(th, "foundConversation", "AddConversation")
  BY AtStepIs, WhatFor, WhatNext, Advanced, Returned DEF FoundConversation, AdvanceIf, RegistryGoes,
     Opens

LEMMA InsertGoes ==
  ASSUME NEW th \in Threads, pc \in [Threads -> FriendPlaces], AtStep(th, "insertConversation"), UNCHANGED friendVars,
         NEW cond, AdvanceIf(th, cond)
  PROVE  /\ Doing(th) = "AddConversation"
         /\ cond => RegistryGoes(th, "insertConversation", "insertCaller")
         /\ ~cond => RegistryGoes(th, "insertConversation", "AddConversation")
  BY AtStepIs, WhatFor, WhatNext, AdvancedIf DEF RegistryGoes, Opens

LEMMA InsertCallerGoes ==
  ASSUME NEW th \in Threads, pc \in [Threads -> FriendPlaces], AtStep(th, "insertCaller"), UNCHANGED friendVars
  PROVE  /\ Doing(th) = "AddConversation"
         /\ Advance(th) => RegistryGoes(th, "insertCaller", "insertOther")
         /\ Skip(th, 2) => RegistryGoes(th, "insertCaller", "cacheConversation")
  BY AtStepIs, WhatFor, WhatNext, GoesOn, Advanced, SkippedTwo DEF RegistryGoes, Opens

LEMMA InsertOtherGoes ==
  ASSUME NEW th \in Threads, pc \in [Threads -> FriendPlaces], AtStep(th, "insertOther"), UNCHANGED friendVars,
         Advance(th) \/ Skip(th, 1)
  PROVE  /\ Doing(th) = "AddConversation"
         /\ RegistryGoes(th, "insertOther", "cacheConversation")
  BY AtStepIs, WhatFor, WhatNext, SkippedOne, Advanced DEF RegistryGoes, Opens

\* The steps of a download.
LEMMA LoadGoes ==
  ASSUME NEW th \in Threads, pc \in [Threads -> FriendPlaces], NEW x, AtStep(th, x), UNCHANGED friendVars, Advance(th),
         x \in {"selectConversations", "skipCached", "selectParticipants", "nextConversation"}
  PROVE  /\ Doing(th) = "GetConversations"
         /\ RegistryGoes(th, x, CASE x = "selectConversations" -> "skipCached" [] x = "skipCached" -> "nextConversation"
                                  [] x = "selectParticipants" -> "cacheConversation" [] OTHER -> "GetConversations")
  BY AtStepIs, WhatFor, WhatNext, Advanced DEF RegistryGoes, Opens

LEMMA NextGoes ==
  ASSUME NEW th \in Threads, pc \in [Threads -> FriendPlaces], AtStep(th, "nextConversation"), UNCHANGED friendVars,
         Insert(th, DownloadConversationParticipants)
  PROVE  Doing(th) = "GetConversations" /\ RegistryGoes(th, "nextConversation", "selectParticipants")
<1>2. At(th) = "nextConversation" /\ pc[th] \in FriendPlaces /\ Step(pc[th]) = "nextConversation" /\ Call(pc[th]) = Doing(th)
  BY AtStepIs
<1>3. pc[th] = H6
  BY <1>2, WhereIs
<1>4. H3 \in FriendPlaces /\ Step(H3) = "selectParticipants" /\ Call(H3) = "GetConversations" /\ Call(H6) = "GetConversations"
  BY GroupsAre, LoadPlacesAre DEF LoadPlaces
<1>5. pc' = [pc EXCEPT ![th] = H3]
  BY <1>3, ParticipantsAsked DEF Insert
<1>6. /\ pc' \in [Threads -> FriendPlaces] /\ At(th)' = Step(H3) /\ Doing(th)' = Call(H3)
      /\ \A o \in Threads \ {th} : At(o)' = At(o) /\ Doing(o)' = Doing(o)
  BY <1>4, <1>5, MovedTo
<1>7. Moves(th, "selectParticipants") /\ Doing(th) = "GetConversations"
  BY <1>2, <1>3, <1>4, <1>6 DEF Moves
<1> QED BY <1>2, <1>7 DEF RegistryGoes, Opens

(***************************************************************************)
(* The calls about conversations keep what holds of friends.               *)
(***************************************************************************)
LoadSteps == {"selectConversations", "skipCached", "nextConversation", "selectParticipants"}
OpenSteps == RegistrySteps \cup {"findConversation"} \cup LoadSteps
OpenEnds == {"AddConversation", "GetConversations"}

LEMMA ConversationGoes ==
  ASSUME NEW th \in Threads, pc \in [Threads -> FriendPlaces], ConversationStep(th), ~ConversationReply(th)
  PROVE  \E from \in OpenSteps, s \in OpenSteps \cup OpenEnds : RegistryGoes(th, from, s)
<1> USE DEF OpenSteps, OpenEnds, LoadSteps, RegistrySteps, FindingSteps, CreatingSteps
<1>1. CASE FindConversation2Ids(th)
  BY <1>1, FindGoes
<1>2. CASE CacheConversation(th)
  BY <1>2, CacheGoes
<1>3. CASE AddConversationsForUserToCache(th)
  BY <1>3, ListGoes
<1>4. CASE FoundConversation(th)
  BY <1>4, FoundGoes
<1>5. CASE InsertConversation(th)
  BY <1>5, InsertGoes DEF InsertConversation, AdvanceIf
<1>6. CASE InsertCaller(th)
  BY <1>6, InsertCallerGoes DEF InsertCaller, InsertParticipant
<1>7. CASE InsertOther(th)
  BY <1>7, InsertOtherGoes DEF InsertOther, InsertParticipant
<1>8. CASE SelectConversations(th)
  BY <1>8, LoadGoes DEF SelectConversations
<1>9. CASE SkipCached(th)
  BY <1>9, LoadGoes DEF SkipCached
<1>10. CASE NextConversation(th)
  BY <1>10, LoadGoes, NextGoes DEF NextConversation
<1>11. CASE SelectParticipants(th)
  BY <1>11, LoadGoes DEF SelectParticipants
<1> QED BY <1>1, <1>2, <1>3, <1>4, <1>5, <1>6, <1>7, <1>8, <1>9, <1>10, <1>11, Zenon DEF ConversationStep

LEMMA RegistryGoesKeepsFriends ==
  ASSUME FriendsInv, NEW th \in Threads, NEW from \in OpenSteps, NEW s \in OpenSteps \cup OpenEnds, RegistryGoes(th, from, s)
  PROVE  FriendsInv'
<1>1. At(th) = from /\ Moves(th, s) /\ UNCHANGED friendVars
  BY DEF RegistryGoes
<1>2. FriendTypes /\ Trusted(th)
  BY InvIs
<1>3. friend_requests' = friend_requests /\ fl' = fl /\ doubted' = doubted /\ doubled' = doubled /\ partial' = partial
  BY <1>1 DEF friendVars, friendTables, friendDoubts
<1>4. Stepped(th) /\ At(th)' = s
  BY <1>1, <1>2, <1>3, StepIs
<1>5. /\ from \notin {"eraseRequest", "addFriends", "eraseFriends"}
      /\ s \notin {"eraseRequest", "addFriends", "storeFriends", "storeRequests", "isFriend"}
      /\ s \notin WriterSteps /\ s \notin PendingSteps
  BY DEF OpenSteps, OpenEnds, LoadSteps, RegistrySteps, FindingSteps, CreatingSteps, WriterSteps, PendingSteps
<1>6. Trusted(th)'
  BY <1>2, <1>3, <1>4, <1>5, TrustedAfter
<1> QED BY <1>1, <1>5, <1>6, MoveKeeps

LEMMA ConversationReplyKeepsFriends ==
  ASSUME FriendsInv, NEW th \in Threads, ConversationReply(th)
  PROVE  FriendsInv'
  BY InvIs, WhereThread, AnswerKeeps DEF ConversationReply, RegistryOps, friendTables, friendCaches,
     friendDoubts

\* A call of the registry begins at q, about b, asked by a.
RegistryBegins(th, q, a, b) ==
    /\ ~Busy(th) /\ pc' = [pc EXCEPT ![th] = q]
    /\ fl' = [fl EXCEPT ![th] = [NoFriendCall EXCEPT !.me = b, !.other = a]]
    /\ UNCHANGED <<friendTables, friendCaches, friendDoubts>>

BeginPlaces == {O1, F1, H1}

LEMMA BeginPlacesAre ==
  /\ BeginPlaces \subseteq FriendPlaces
  /\ \A q \in BeginPlaces : Step(q) \in {"listed", "selectConversations"} /\ Call(q) \in RegistryOps
  /\ Call(O1) = "AddConversation" /\ Call(F1) = "CallFriend" /\ Call(H1) = "GetConversations"
  /\ Step(O1) = "listed" /\ Step(F1) = "listed" /\ Step(H1) = "selectConversations"
BY GroupsAre, CreatePlacesAre, CallFriendPlacesAre, LoadPlacesAre DEF CreatePlaces, CallPlaces, LoadPlaces, BeginPlaces, RegistryOps

LEMMA BeginIs ==
  ASSUME FriendsInv, NEW th \in Threads, NEW q \in BeginPlaces, NEW a \in Callers, NEW b \in Callers, RegistryBegins(th, q, a, b)
  PROVE  /\ fl' \in [Threads -> FriendCallType] /\ fl'[th].me = b /\ fl'[th].other = a /\ ~fl'[th].found
         /\ \A v \in Users : fl'[th].friends[v] = 0
         /\ fl'[th].friends = NoFriends
         /\ \A o \in Threads \ {th} : fl'[o] = fl[o]
         /\ pc' \in [Threads -> FriendPlaces] /\ At(th)' = Step(q) /\ Doing(th)' = Call(q)
         /\ \A o \in Threads \ {th} : At(o)' = At(o) /\ Doing(o)' = Doing(o)
         /\ At(th) = "idle" /\ Doing(th) = "none"
  BY InvIs, FriendsAssumption, NoCallTyped, BeginPlacesAre, MovedTo, WhereThread DEF RegistryBegins,
     NoFriendCall, FriendCallType, FriendTypes, NoFriends

LEMMA RegistryBeginKeepsFriends ==
  ASSUME FriendsInv, NEW th \in Threads, NEW q \in BeginPlaces, NEW a \in Callers, NEW b \in Callers, RegistryBegins(th, q, a, b)
  PROVE  FriendsInv'
<1>1. doubted \subseteq doubled
  BY InvIs
<1>2. /\ fl' \in [Threads -> FriendCallType] /\ fl'[th].me = b /\ fl'[th].other = a /\ ~fl'[th].found
      /\ \A o \in Threads \ {th} : fl'[o] = fl[o]
      /\ pc' \in [Threads -> FriendPlaces] /\ At(th)' = Step(q) /\ Doing(th)' = Call(q)
      /\ \A o \in Threads \ {th} : At(o)' = At(o) /\ Doing(o)' = Doing(o)
      /\ At(th) = "idle"
  BY BeginIs
<1>3. Step(q) \in TurnSteps /\ Call(q) \in RegistryOps
  BY BeginPlacesAre DEF TurnSteps
<1>4. Turns(th)
  BY <1>2, <1>3 DEF Turns
<1>5. ~Writes(th)'
  BY <1>2, <1>3 DEF Writes, FriendWriters, RegistryOps
<1>6. About(th)'
  BY <1>2, <1>5 DEF About
<1>7. /\ friend_requests' = friend_requests /\ friend_list' = friend_list /\ listed' = listed /\ Friends' = Friends
      /\ asked' = asked /\ FriendRequests' = FriendRequests
      /\ doubted' = doubted /\ doubled' = doubled /\ partial' = partial /\ friend_faults' = friend_faults
  BY DEF RegistryBegins, friendTables, friendCaches, friendDoubts
<1> QED BY <1>1, <1>2, <1>4, <1>5, <1>6, <1>7, TurnKeeps

\* The calls, by where they begin.
LEMMA ConversationCallIs ==
  ASSUME NEW th \in Threads, ConversationCall(th)
  PROVE  \/ \E a, b \in Callers : a # b /\ RemoveFriendMeanwhile(th, a, b)
         \/ \E q \in BeginPlaces, a, b \in Callers :
                /\ RegistryBegins(th, q, a, b)
                /\ UNCHANGED <<conversationTables, conversationCaches, cv, conversation_faults>>
                /\ q = O1 => a # b
                /\ overlapped' \in BOOLEAN
                /\ ~overlapped' => ~overlapped
                /\ q = O1 /\ ~overlapped' => ~BusyIn({"AddConversation", "GetConversations", "RemoveFriend"})
                /\ q = H1 /\ ~overlapped' => ~BusyIn({"AddConversation", "GetConversations"})
<1>0. O1 \in BeginPlaces /\ F1 \in BeginPlaces /\ H1 \in BeginPlaces /\ O1 # H1 /\ O1 # F1 /\ F1 # H1
  BY BeginPlacesAre DEF BeginPlaces
<1>1. ASSUME NEW a \in Callers, NEW b \in Callers, a # b, OnMessageReceived_AddConversation(th, a, b)
      PROVE  /\ RegistryBegins(th, O1, a, b) /\ UNCHANGED <<conversationTables, conversationCaches, cv, conversation_faults>>
             /\ overlapped' \in BOOLEAN
             /\ ~overlapped' => ~overlapped /\ ~BusyIn({"AddConversation", "GetConversations", "RemoveFriend"})
  BY <1>1, FriendCallsBegin DEF OnMessageReceived_AddConversation, BeginWithFriend, RegistryBegins, Enter
<1>2. ASSUME NEW a \in Callers, NEW b \in Callers, BeginWithFriend(th, "CallFriend", IsFriend, a, b)
      PROVE  /\ RegistryBegins(th, F1, a, b) /\ UNCHANGED <<conversationTables, conversationCaches, cv, conversation_faults>>
             /\ overlapped' \in BOOLEAN
             /\ ~overlapped' => ~overlapped
  BY <1>2, FriendCallsBegin DEF BeginWithFriend, RegistryBegins, Enter
<1>3. ASSUME NEW a \in Callers, OnMessageReceived_GetConversations(th, a)
      PROVE  /\ RegistryBegins(th, H1, a, a) /\ UNCHANGED <<conversationTables, conversationCaches, cv, conversation_faults>>
             /\ overlapped' \in BOOLEAN
             /\ ~overlapped' => ~overlapped /\ ~BusyIn({"AddConversation", "GetConversations"})
  BY <1>3, FriendCallsBegin DEF OnMessageReceived_GetConversations, RegistryBegins, Enter
<1>4. CASE \E a, b \in Callers : a # b /\ OnMessageReceived_AddConversation(th, a, b)
  BY <1>0, <1>1, <1>4
<1>5. CASE \E a, b \in Callers : OnMessageReceived_DataStreamChannel(th, a, b)
  BY <1>0, <1>2, <1>5 DEF OnMessageReceived_DataStreamChannel
<1>6. CASE \E a, b \in Callers : OnMessageReceived_OnUserCalling(th, a, b)
  BY <1>0, <1>2, <1>6 DEF OnMessageReceived_OnUserCalling
<1>7. CASE \E a \in Callers : OnMessageReceived_GetConversations(th, a)
  BY <1>0, <1>3, <1>7
<1> QED BY <1>4, <1>5, <1>6, <1>7, Zenon DEF ConversationCall

LEMMA RemoveKeepsFriends ==
  ASSUME FriendsInv, NEW th \in Threads, NEW a \in Callers, NEW b \in Callers, a # b, RemoveFriendMeanwhile(th, a, b)
  PROVE  FriendsInv'
  BY GroupsAre, RemovePlacesAre, BeginKeeps, FriendCallsBegin DEF RemovePlaces, TurnSteps,
     RemoveFriendMeanwhile, OnMessageReceived_RemoveFriend

LEMMA ConversationsKeepFriends ==
  ASSUME FriendsInv, ConversationsNext
  PROVE  FriendsInv'
  BY ConversationReplyKeepsFriends, InvIs, ConversationGoes, RegistryGoesKeepsFriends,
     ConversationCallIs, RegistryBeginKeepsFriends, RemoveKeepsFriends, FriendRestartKeeps,
     FriendStepKeeps DEF ConversationsRestart, ConversationsNext

(***************************************************************************)
(* What the steps of conversations have in common.                         *)
(***************************************************************************)
LEMMA NothingKnown ==
  ASSUME NEW o \in Threads, pc' \in [Threads -> FriendPlaces], ~Opens(o)'
  PROVE  /\ At(o)' \notin RegistrySteps
         /\ KnownUsers(o)' /\ NoneYet(o)' /\ BeingCreated(o)'
  BY OpensAre DEF At, Doing, Opens, RegistrySteps, FindingSteps, CreatingSteps, KnownUsers, NoneYet,
     BeingCreated

LEMMA LocalsAre ==
  ASSUME NEW th \in Threads, NEW from, NEW s, RegistryGoes(th, from, s)
  PROVE  /\ At(th) = from /\ At(th)' = s /\ Doing(th)' = Doing(th) /\ Couple(th)' = Couple(th) /\ fl' = fl
         /\ pc' \in [Threads -> FriendPlaces]
         /\ \A o \in Threads : Doing(o)' = Doing(o) /\ Opens(o)' = Opens(o)
         /\ \A o \in Threads \ {th} : At(o)' = At(o)
         /\ Opens(th)
  BY DEF RegistryGoes, friendVars, Couple, Moves, Opens

LEMMA OthersKnowNothing ==
  ASSUME NEW th \in Threads, pc \in [Threads -> FriendPlaces], OpensAlone, Opens(th), NEW o \in Threads \ {th}
  PROVE  ~Opens(o) /\ At(o) \notin RegistrySteps
  BY OpensAre DEF OpensAlone, At, Doing, Opens

\* A step of a conversation, from what it does to the tables and caches and to its own call.
LEMMA OpenStepKeeps ==
  ASSUME FriendsInv, RegistryInv, NEW th \in Threads, NEW from, NEW s, RegistryGoes(th, from, s), RegistryTypes',
         ~overlapped' => /\ ~overlapped /\ ListsAgree' /\ CachesAgree' /\ OneDirect'
                         /\ KnownUsers(th)' /\ NoneYet(th)' /\ BeingCreated(th)'
  PROVE  RegistryInv'
  BY LocalsAre, NothingKnown DEF RegistryInv, RegistryAgrees, OpensAlone, EndsApart

LEMMA TablesSame ==
  ASSUME UNCHANGED conversationTables
  PROVE  /\ conversations' = conversations /\ conversation_participants' = conversation_participants
         /\ \A id : ParticipantsOf(id)' = ParticipantsOf(id)
         /\ \A couple : DirectOf(couple)' = DirectOf(couple)
  BY DEF conversationTables, ParticipantsOf, DirectOf

\* A step that changes neither table nor cache.
LEMMA TablesKeep ==
  ASSUME FriendsInv, RegistryInv, NEW th \in Threads, NEW from, NEW s, RegistryGoes(th, from, s), from # "listConversation",
         UNCHANGED <<conversationTables, conversationCaches>>, ~overlapped
  PROVE  ListsAgree' /\ CachesAgree' /\ OneDirect'
  BY InvIs, TablesSame, LocalsAre, OthersKnowNothing DEF RegistryInv, RegistryAgrees,
     conversationCaches, RegistrySteps, FindingSteps, ListsAgree, CachesAgree, Listing, OneDirect

LEMMA FaultIs ==
  ASSUME RegistryTypes, ConversationFault \/ NoFault
  PROVE  /\ overlapped' \in BOOLEAN /\ conversation_faults' \in 0..MaxConversationFaults
         /\ ~overlapped' => ~overlapped /\ ~ConversationFault
<1>1. overlapped \in BOOLEAN /\ conversation_faults \in 0..MaxConversationFaults /\ MaxConversationFaults \in Nat
  BY ConversationsAssumption DEF RegistryTypes
<1>2. CASE ConversationFault
  BY <1>1, <1>2 DEF ConversationFault
<1>3. CASE ~ConversationFault
  BY <1>1, <1>3 DEF NoFault
<1> QED BY <1>2, <1>3

\* The types after a step that creates no conversation.
LEMMA TypesAfter ==
  ASSUME RegistryTypes, NEW th \in Threads, NEW from, NEW s, RegistryGoes(th, from, s),
         cv' = cv \/ \E rec \in RegistryCallType : cv' = [cv EXCEPT ![th] = rec],
         conversations' = conversations, conversation_participants' \subseteq (1..conversations) \X Users,
         DOMAIN conversationUsers' \subseteq 0..conversations,
         \A id \in DOMAIN conversationUsers' : conversationUsers'[id] \subseteq Users,
         UserIdToConversation' \subseteq Users \X (0..conversations),
         overlapped' \in BOOLEAN, conversation_faults' \in 0..MaxConversationFaults,
         s \in {"insertCaller", "insertOther"} => cv'[th].id > 0
  PROVE  RegistryTypes'
  BY LocalsAre DEF RegistryTypes, RegistryCallType, ConversationIds

\* The same when nothing else than the call changes.
LEMMA RegistryTypesKept ==
  ASSUME RegistryTypes, NEW th \in Threads, NEW from, NEW s, RegistryGoes(th, from, s),
         cv' = cv \/ \E rec \in RegistryCallType : cv' = [cv EXCEPT ![th] = rec],
         UNCHANGED <<conversationTables, conversationCaches>>, ConversationFault \/ NoFault,
         s \notin {"insertCaller", "insertOther"}
  PROVE  RegistryTypes'
<1>1. /\ conversations' = conversations /\ conversation_participants' = conversation_participants
      /\ conversationUsers' = conversationUsers /\ UserIdToConversation' = UserIdToConversation
  BY DEF conversationTables, conversationCaches
<1>2. overlapped' \in BOOLEAN /\ conversation_faults' \in 0..MaxConversationFaults
  BY FaultIs
<1>3. /\ conversation_participants \subseteq (1..conversations) \X Users
      /\ DOMAIN conversationUsers \subseteq 0..conversations
      /\ \A id \in DOMAIN conversationUsers : conversationUsers[id] \subseteq Users
      /\ UserIdToConversation \subseteq Users \X (0..conversations)
  BY DEF RegistryTypes
<1>4. /\ conversation_participants' \subseteq (1..conversations) \X Users
      /\ DOMAIN conversationUsers' \subseteq 0..conversations
      /\ \A id \in DOMAIN conversationUsers' : conversationUsers'[id] \subseteq Users
      /\ UserIdToConversation' \subseteq Users \X (0..conversations)
  BY <1>1, <1>3
<1> HIDE <1>3
<1> QED BY <1>1, <1>2, <1>4, TypesAfter

LEMMA CallTyped ==
  ASSUME RegistryTypes, NEW th \in Threads
  PROVE  /\ cv[th] \in RegistryCallType
         /\ cv[th].id \in 0..conversations /\ cv[th].users \subseteq Users /\ cv[th].left \subseteq 1..conversations
         /\ conversations \in Nat
         /\ \A id : ParticipantsOf(id) \subseteq Users
BY ConversationsAssumption DEF RegistryTypes, RegistryCallType, ParticipantsOf, ConversationIds

(***************************************************************************)
(* The steps of conversations.                                             *)
(***************************************************************************)
LEMMA FindAgrees ==
  ASSUME FriendsInv, RegistryInv, NEW th \in Threads, FindConversation2Ids(th)
  PROVE  RegistryInv'
<1>1. RegistryTypes /\ pc \in [Threads -> FriendPlaces] /\ UNCHANGED <<conversationTables, conversationCaches>>
  BY InvIs DEF RegistryInv, FindConversation2Ids
<1>2. RegistryGoes(th, "findConversation", "cacheConversation") /\ Doing(th) = "AddConversation"
  BY <1>1, FindGoes
<1>3. PICK couple : couple = Couple(th)
  OBVIOUS
<1>4. couple \subseteq Users
  BY <1>2, <1>3, InvIs, FriendsAssumption DEF About, Couple
<1>5. ConversationFault \/ NoFault
  BY DEF FindConversation2Ids
<1>6. PICK rec \in RegistryCallType :
          /\ cv' = [cv EXCEPT ![th] = rec] /\ rec.users = couple
          /\ ~ConversationFault => (rec.id = 0 /\ DirectOf(couple) = {}) \/ rec.id \in DirectOf(couple)
  <2>1. CASE ConversationFault /\ Its(th, [NoConversation EXCEPT !.users = couple])
    <3>1. PICK rec : rec = [NoConversation EXCEPT !.users = couple]
      OBVIOUS
    <3>2. rec \in RegistryCallType /\ rec.users = couple /\ rec.id = 0
      BY <1>1, <1>4, <3>1, CallTyped DEF NoConversation, RegistryCallType
    <3> QED BY <2>1, <3>1, <3>2 DEF Its
  <2>2. CASE \E id \in IF DirectOf(couple) = {} THEN {0} ELSE DirectOf(couple) :
                  Its(th, [NoConversation EXCEPT !.id = id, !.users = couple]) /\ NoFault
    <3>1. PICK id \in IF DirectOf(couple) = {} THEN {0} ELSE DirectOf(couple) :
              cv' = [cv EXCEPT ![th] = [NoConversation EXCEPT !.id = id, !.users = couple]]
      BY <2>2 DEF Its
    <3>2. id \in 0..conversations
      BY <1>1, <3>1, CallTyped DEF DirectOf
    <3>3. [NoConversation EXCEPT !.id = id, !.users = couple] \in RegistryCallType
      BY <1>4, <3>2 DEF NoConversation, RegistryCallType
    <3>4. /\ [NoConversation EXCEPT !.id = id, !.users = couple].id = id
          /\ [NoConversation EXCEPT !.id = id, !.users = couple].users = couple
      BY DEF NoConversation
    <3> QED BY <3>1, <3>3, <3>4
  <2> QED BY <1>3, <2>1, <2>2 DEF FindConversation2Ids
<1>7. RegistryTypes'
  BY <1>1, <1>2, <1>5, <1>6, RegistryTypesKept
<1>8. ASSUME ~overlapped'
      PROVE  /\ ~overlapped /\ ListsAgree' /\ CachesAgree' /\ OneDirect'
             /\ KnownUsers(th)' /\ NoneYet(th)' /\ BeingCreated(th)'
  <2>1. ~overlapped /\ ~ConversationFault
    BY <1>1, <1>5, <1>8, FaultIs
  <2>2. ListsAgree' /\ CachesAgree' /\ OneDirect'
    BY <1>1, <1>2, <2>1, TablesKeep
  <2>3. /\ At(th)' = "cacheConversation" /\ Doing(th)' = "AddConversation" /\ Couple(th)' = couple /\ fl' = fl
    BY <1>2, <1>3, LocalsAre
  <2>4. cv'[th] = rec
    BY <1>1, <1>6 DEF RegistryTypes
  <2>5. KnownUsers(th)
    BY <2>1 DEF RegistryInv, RegistryAgrees
  <2>6. \A id : ParticipantsOf(id)' = ParticipantsOf(id)
    BY <1>1, TablesSame
  <2>7. DirectOf(couple)' = DirectOf(couple)
    BY <1>1, TablesSame
  <2>8. rec.id # 0 => ParticipantsOf(rec.id) = couple
    BY <1>6, <2>1 DEF DirectOf
  <2>9. KnownUsers(th)'
    BY <1>2, <1>6, <2>3, <2>4, <2>5, <2>6, <2>8 DEF KnownUsers
  <2>10. rec.id = 0 => DirectOf(couple) = {}
    BY <1>1, <1>6, <2>1, CallTyped DEF DirectOf
  <2>11. NoneYet(th)'
    BY <2>3, <2>4, <2>7, <2>10 DEF NoneYet, CreatingSteps
  <2> QED BY <2>1, <2>2, <2>3, <2>9, <2>11 DEF BeingCreated
<1> QED BY <1>2, <1>7, <1>8, OpenStepKeeps

\* A step after which the call knows no more than before.
LEMMA KnownStill ==
  ASSUME RegistryInv, ~overlapped, NEW th \in Threads, NEW from, NEW s, RegistryGoes(th, from, s), cv' = cv,
         UNCHANGED conversationTables,
         s \in {"foundConversation", "AddConversation", "nextConversation", "insertConversation"},
         from \in FindingSteps,
         s \in {"foundConversation", "insertConversation"} => Doing(th) = "AddConversation",
         s = "insertConversation" => cv[th].id = 0
  PROVE  KnownUsers(th)' /\ NoneYet(th)' /\ BeingCreated(th)'
  BY LocalsAre, TablesSame DEF RegistryInv, RegistryAgrees, KnownUsers, NoneYet, CreatingSteps,
     BeingCreated

LEMMA FoundAgrees ==
  ASSUME FriendsInv, RegistryInv, NEW th \in Threads, FoundConversation(th)
  PROVE  RegistryInv'
  BY InvIs, FoundGoes, RegistryTypesKept, KnownStill, TablesKeep, OpenStepKeeps DEF RegistryInv,
     FoundConversation, registryVars, NoFault, FindingSteps

LEMMA CacheAgrees ==
  ASSUME FriendsInv, RegistryInv, NEW th \in Threads, CacheConversation(th)
  PROVE  RegistryInv'
<1>1. RegistryTypes /\ pc \in [Threads -> FriendPlaces] /\ UNCHANGED conversationTables /\ cv' = cv /\ NoFault /\ overlapped' = overlapped
      /\ UserIdToConversation' = UserIdToConversation
  BY InvIs DEF RegistryInv, CacheConversation, NoFault
<1>2. PICK rec : rec = cv[th] /\ rec.id \in 0..conversations /\ rec.users \subseteq Users /\ conversations \in Nat
  BY <1>1, CallTyped
<1>3. CASE rec.id \in DOMAIN conversationUsers
  BY <1>1, <1>2, <1>3, CacheGoes, LocalsAre, RegistryTypesKept, KnownStill, TablesKeep,
     OpenStepKeeps DEF CacheConversation, conversationCaches, FindingSteps
<1>4. CASE rec.id \notin DOMAIN conversationUsers
  <2>1. conversationUsers' = [id \in DOMAIN conversationUsers \cup {rec.id} |-> IF id = rec.id THEN rec.users ELSE conversationUsers[id]]
    BY <1>2, <1>4 DEF CacheConversation
  <2>2. RegistryGoes(th, "cacheConversation", "listConversation")
    BY <1>1, <1>2, <1>4, CacheGoes
  <2>3. /\ DOMAIN conversationUsers' = DOMAIN conversationUsers \cup {rec.id} /\ conversationUsers'[rec.id] = rec.users
        /\ \A id \in DOMAIN conversationUsers : conversationUsers'[id] = conversationUsers[id]
    BY <1>4, <2>1
  <2>4. RegistryTypes'
    <3>1. /\ conversations' = conversations /\ conversation_participants' = conversation_participants
          /\ conversation_participants \subseteq (1..conversations) \X Users
          /\ DOMAIN conversationUsers \subseteq 0..conversations
          /\ \A id \in DOMAIN conversationUsers : conversationUsers[id] \subseteq Users
          /\ UserIdToConversation \subseteq Users \X (0..conversations)
      BY <1>1 DEF RegistryTypes, conversationTables
    <3>2. DOMAIN conversationUsers' \subseteq 0..conversations
      BY <1>2, <2>3, <3>1
    <3>3. \A id \in DOMAIN conversationUsers' : conversationUsers'[id] \subseteq Users
      BY <1>2, <2>3, <3>1
    <3>4. overlapped' \in BOOLEAN /\ conversation_faults' \in 0..MaxConversationFaults
      BY <1>1, FaultIs
    <3> HIDE <2>1
    <3> QED BY <1>1, <2>2, <3>1, <3>2, <3>3, <3>4, TypesAfter
  <2>5. ASSUME ~overlapped
        PROVE  /\ ListsAgree' /\ CachesAgree' /\ OneDirect'
               /\ KnownUsers(th)' /\ NoneYet(th)' /\ BeingCreated(th)'
    <3>1. ListsAgree /\ CachesAgree /\ OneDirect /\ OpensAlone /\ KnownUsers(th) /\ NoneYet(th)
      BY <2>5 DEF RegistryInv, RegistryAgrees
    <3>2. conversations' = conversations /\ \A id : ParticipantsOf(id)' = ParticipantsOf(id)
      BY <1>1, TablesSame
    <3>3. PICK couple : couple = Couple(th)
      OBVIOUS
    <3>4. DirectOf(couple)' = DirectOf(couple)
      BY <1>1, TablesSame
    <3>5. /\ At(th) = "cacheConversation" /\ At(th)' = "listConversation" /\ Doing(th)' = Doing(th) /\ Couple(th)' = couple
          /\ fl' = fl /\ Opens(th) /\ cv'[th] = rec
      BY <1>1, <1>2, <2>2, <3>3, LocalsAre
    <3>6. \A o \in Threads : At(o) # "listConversation"
      BY <1>1, <3>1, <3>5, OthersKnowNothing DEF RegistrySteps, FindingSteps
    <3>7. ListsAgree'
      BY <1>1, <2>3, <3>1, <3>2 DEF ListsAgree
    <3>8. rec.id # 0 => rec.users = ParticipantsOf(rec.id)
      BY <1>2, <3>1, <3>5 DEF KnownUsers
    <3>9. CachesAgree'
      BY <1>1, <2>3, <3>1, <3>2, <3>5, <3>6, <3>8 DEF CachesAgree, Listing
    <3>10. OneDirect'
      BY <3>1, <3>2 DEF OneDirect
    <3>11. /\ Doing(th) = "AddConversation" => rec.users = couple /\ fl[th].me # fl[th].other
           /\ Doing(th) = "AddConversation" /\ rec.id = 0 => DirectOf(couple) = {}
      BY <1>2, <3>1, <3>3, <3>5 DEF KnownUsers, NoneYet, FindingSteps
    <3>12. KnownUsers(th)'
      BY <2>3, <3>2, <3>5, <3>8, <3>11 DEF KnownUsers
    <3>13. NoneYet(th)'
      BY <3>4, <3>5, <3>11 DEF NoneYet, CreatingSteps
    <3> QED BY <3>5, <3>7, <3>9, <3>10, <3>12, <3>13 DEF BeingCreated
  <2> QED BY <1>1, <2>2, <2>4, <2>5, OpenStepKeeps
<1> QED BY <1>3, <1>4

LEMMA ListAgrees ==
  ASSUME FriendsInv, RegistryInv, NEW th \in Threads, AddConversationsForUserToCache(th)
  PROVE  RegistryInv'
<1>1. RegistryTypes /\ pc \in [Threads -> FriendPlaces] /\ UNCHANGED conversationTables /\ cv' = cv /\ NoFault /\ overlapped' = overlapped
      /\ conversationUsers' = conversationUsers
  BY InvIs DEF RegistryInv, AddConversationsForUserToCache, NoFault
<1>2. PICK rec : rec = cv[th] /\ rec.id \in 0..conversations /\ rec.users \subseteq Users /\ conversations \in Nat
  BY <1>1, CallTyped
<1>3. UserIdToConversation' = UserIdToConversation \cup {<<u, rec.id>> : u \in rec.users}
  BY <1>2 DEF AddConversationsForUserToCache
<1>4. PICK s \in {"foundConversation", "AddConversation", "nextConversation"} : RegistryGoes(th, "listConversation", s)
  BY <1>1, ListGoes
<1>5. At(th) = "listConversation" /\ At(th)' = s /\ Doing(th)' = Doing(th) /\ Opens(th)
  BY <1>4, LocalsAre
<1>6. s = "foundConversation" => Doing(th) = "AddConversation"
  BY <1>4, <1>5, LocalsAre, WhatFor DEF At, Doing
<1>7. RegistryTypes'
  <2>1. /\ conversations' = conversations /\ conversation_participants' = conversation_participants
        /\ conversation_participants \subseteq (1..conversations) \X Users
        /\ DOMAIN conversationUsers \subseteq 0..conversations
        /\ \A id \in DOMAIN conversationUsers : conversationUsers[id] \subseteq Users
        /\ UserIdToConversation \subseteq Users \X (0..conversations)
    BY <1>1 DEF RegistryTypes, conversationTables
  <2>2. UserIdToConversation' \subseteq Users \X (0..conversations)
    BY <1>2, <1>3, <2>1
  <2>3. overlapped' \in BOOLEAN /\ conversation_faults' \in 0..MaxConversationFaults
    BY <1>1, FaultIs
  <2> HIDE <1>3
  <2> QED BY <1>1, <1>4, <2>1, <2>2, <2>3, TypesAfter
<1>8. ASSUME ~overlapped
      PROVE  ListsAgree' /\ CachesAgree' /\ OneDirect'
  BY <1>1, <1>2, <1>3, <1>5, <1>8, TablesSame, OthersKnowNothing DEF RegistryInv, RegistryAgrees,
     KnownUsers, ListsAgree, CachesAgree, Listing, RegistrySteps, FindingSteps, OneDirect
<1>9. ~overlapped => KnownUsers(th)' /\ NoneYet(th)' /\ BeingCreated(th)'
  BY <1>1, <1>4, <1>6, KnownStill DEF FindingSteps
<1> QED BY <1>1, <1>4, <1>7, <1>8, <1>9, OpenStepKeeps

LEMMA UsersOfCouple ==
  ASSUME FriendsInv, NEW th \in Threads, Doing(th) = "AddConversation"
  PROVE  fl[th].me \in Users /\ fl[th].other \in Users /\ Couple(th) = {fl[th].me, fl[th].other}
BY InvIs, FriendsAssumption DEF About, Couple

\* A step that creates changes no conversation that is cached.
LEMMA CreatingKeeps ==
  ASSUME FriendsInv, RegistryInv, ~overlapped, NEW th \in Threads, NEW from \in CreatingSteps, NEW s, RegistryGoes(th, from, s),
         UNCHANGED conversationCaches, conversations' \in Nat,
         \A i \in DOMAIN conversationUsers \ {0} : ParticipantsOf(i)' = ParticipantsOf(i)
  PROVE  ListsAgree' /\ CachesAgree'
<1>1. OpensAlone /\ ListsAgree /\ CachesAgree /\ RegistryTypes /\ pc \in [Threads -> FriendPlaces]
  BY InvIs DEF RegistryInv, RegistryAgrees
<1>2. conversationUsers' = conversationUsers /\ UserIdToConversation' = UserIdToConversation
  BY DEF conversationCaches
<1>3. \A o \in Threads : At(o) # "listConversation"
  BY <1>1, LocalsAre, OthersKnowNothing DEF RegistrySteps, FindingSteps, CreatingSteps
<1>4. ListsAgree'
  BY <1>1, <1>2 DEF ListsAgree, RegistryTypes, ConversationIds
<1>5. CachesAgree'
  BY <1>1, <1>2, <1>3 DEF CachesAgree, Listing
<1> QED BY <1>4, <1>5

LEMMA InsertConversationAgrees ==
  ASSUME FriendsInv, RegistryInv, NEW th \in Threads, InsertConversation(th)
  PROVE  RegistryInv'
<1>1. /\ RegistryTypes /\ pc \in [Threads -> FriendPlaces] /\ UNCHANGED conversationCaches
      /\ conversation_participants' = conversation_participants
      /\ AtStep(th, "insertConversation") /\ UNCHANGED friendVars
  BY InvIs DEF RegistryInv, InsertConversation
<1>2. PICK rec : rec = cv[th] /\ rec \in RegistryCallType /\ rec.id \in 0..conversations /\ rec.users \subseteq Users /\ conversations \in Nat
  BY <1>1, CallTyped
<1>3. \A id : ParticipantsOf(id)' = ParticipantsOf(id)
  BY <1>1 DEF ParticipantsOf
<1>4. CASE /\ conversations < MaxConversations /\ conversations' = conversations + 1
           /\ Its(th, [rec EXCEPT !.id = conversations']) /\ Advance(th) /\ NoFault
  <2>1. AdvanceIf(th, TRUE)
    BY <1>4 DEF AdvanceIf
  <2>2. RegistryGoes(th, "insertConversation", "insertCaller") /\ Doing(th) = "AddConversation"
    BY <1>1, <2>1, InsertGoes
  <2>3. PICK new : new = [rec EXCEPT !.id = conversations'] /\ new \in RegistryCallType' /\ new.id = conversations + 1 /\ new.users = rec.users
    BY <1>2, <1>4 DEF RegistryCallType
  <2>4. cv' = [cv EXCEPT ![th] = new] /\ cv \in [Threads -> RegistryCallType]
    BY <1>1, <1>4, <2>3 DEF Its, RegistryTypes
  <2>5. RegistryCallType \subseteq RegistryCallType'
    BY <1>2, <1>4 DEF RegistryCallType
  <2>6. cv' \in [Threads -> RegistryCallType'] /\ cv'[th] = new /\ \A o \in Threads \ {th} : cv'[o] = cv[o]
    BY <2>3, <2>4, <2>5
  <2>7. RegistryTypes'
    <3>1. /\ conversationUsers' = conversationUsers /\ UserIdToConversation' = UserIdToConversation
          /\ overlapped' = overlapped /\ conversation_faults' = conversation_faults
      BY <1>1, <1>4 DEF conversationCaches, NoFault
    <3>2. 0..conversations \subseteq 0..conversations' /\ 1..conversations \subseteq 1..conversations' /\ conversations' \in ConversationIds
      BY <1>2, <1>4, ConversationsAssumption DEF ConversationIds
    <3>3. /\ conversation_participants' \subseteq (1..conversations') \X Users
          /\ DOMAIN conversationUsers' \subseteq 0..conversations'
          /\ UserIdToConversation' \subseteq Users \X (0..conversations')
      BY <1>1, <3>1, <3>2 DEF RegistryTypes
    <3>4. ASSUME NEW o \in Threads, At(o)' \in {"insertCaller", "insertOther"}
          PROVE  cv'[o].id > 0
      <4>1. CASE o = th
        <5>1. cv'[o].id = conversations + 1
          BY <2>3, <2>6, <4>1
        <5> QED BY <1>2, <5>1
      <4>2. CASE o # th
        BY <1>1, <2>2, <2>6, <3>4, <4>2, LocalsAre DEF RegistryTypes
      <4> QED BY <4>1, <4>2
    <3>5. overlapped' \in BOOLEAN /\ conversation_faults' \in 0..MaxConversationFaults
          /\ \A id \in DOMAIN conversationUsers' : conversationUsers'[id] \subseteq Users
      BY <1>1, <3>1 DEF RegistryTypes
    <3>6. ConversationIds' = ConversationIds
      BY DEF ConversationIds
    <3> QED BY <2>6, <3>2, <3>3, <3>4, <3>5, <3>6 DEF RegistryTypes
  <2>8. ASSUME ~overlapped'
        PROVE  /\ ~overlapped /\ ListsAgree' /\ CachesAgree' /\ OneDirect'
               /\ KnownUsers(th)' /\ NoneYet(th)' /\ BeingCreated(th)'
    <3>1. ~overlapped
      BY <1>4, <2>8 DEF NoFault
    <3>2. OneDirect /\ KnownUsers(th) /\ NoneYet(th)
      BY <3>1 DEF RegistryInv, RegistryAgrees
    <3>3. ListsAgree' /\ CachesAgree'
      BY <1>1, <1>2, <1>3, <1>4, <2>2, <3>1, CreatingKeeps DEF CreatingSteps
    <3>4. PICK couple : couple = Couple(th) /\ couple = {fl[th].me, fl[th].other}
      BY <2>2, UsersOfCouple
    <3>5. /\ At(th) = "insertConversation" /\ At(th)' = "insertCaller" /\ Doing(th)' = "AddConversation" /\ Couple(th)' = couple /\ fl' = fl
      BY <2>2, <3>4, LocalsAre
    <3>6. ParticipantsOf(conversations + 1) = {}
      BY <1>1, <1>2 DEF RegistryTypes, ParticipantsOf
    <3>7. \A i \in 1..conversations' : i \in 1..conversations \/ i = conversations + 1
      BY <1>2, <1>4
    <3>8. OneDirect'
      BY <1>3, <3>2, <3>6, <3>7 DEF OneDirect
    <3>9. rec.users = couple /\ fl[th].me # fl[th].other /\ DirectOf(couple) = {}
      BY <1>2, <2>2, <3>2, <3>4, <3>5 DEF KnownUsers, NoneYet, CreatingSteps
    <3>10. KnownUsers(th)'
      BY <2>3, <2>6, <3>5, <3>9 DEF KnownUsers
    <3>11. DirectOf(couple)' = {}
      BY <1>3, <3>4, <3>6, <3>7, <3>9 DEF DirectOf
    <3>12. NoneYet(th)'
      BY <3>5, <3>11 DEF NoneYet, FindingSteps
    <3>13. conversations + 1 \notin DOMAIN conversationUsers /\ conversationUsers' = conversationUsers
      BY <1>1, <1>2 DEF RegistryTypes, conversationCaches
    <3>14. BeingCreated(th)'
      BY <1>3, <2>3, <2>6, <3>5, <3>6, <3>13 DEF BeingCreated
    <3> QED BY <3>1, <3>3, <3>8, <3>10, <3>12, <3>14
  <2> QED BY <2>2, <2>7, <2>8, OpenStepKeeps
<1>5. CASE /\ ConversationFault /\ conversations' = conversations
           /\ \E id \in 0..conversations : Its(th, [rec EXCEPT !.id = id]) /\ AdvanceIf(th, id > 0)
  <2>1. PICK id \in 0..conversations : cv' = [cv EXCEPT ![th] = [rec EXCEPT !.id = id]] /\ AdvanceIf(th, id > 0)
    BY <1>5 DEF Its
  <2>9. id \in 0..conversations
    BY <2>1
  <2>8. PICK new : new = [rec EXCEPT !.id = id]
    OBVIOUS
  <2>2. new \in RegistryCallType /\ new.id = id
    BY <1>2, <2>9, <2>8 DEF RegistryCallType
  <2>3. PICK s : RegistryGoes(th, "insertConversation", s) /\ (s \in {"insertCaller", "insertOther"} => id > 0)
    BY <1>1, <2>1, InsertGoes DEF AdvanceIf
  <2>4. cv' = [cv EXCEPT ![th] = new] /\ cv'[th].id = id
    BY <1>1, <2>1, <2>2, <2>8 DEF RegistryTypes
  <2>5. overlapped' \in BOOLEAN /\ conversation_faults' \in 0..MaxConversationFaults /\ overlapped'
    BY <1>1, <1>5, FaultIs DEF ConversationFault
  <2>6. /\ conversationUsers' = conversationUsers /\ UserIdToConversation' = UserIdToConversation
        /\ conversation_participants \subseteq (1..conversations) \X Users
        /\ DOMAIN conversationUsers \subseteq 0..conversations
        /\ \A i \in DOMAIN conversationUsers : conversationUsers[i] \subseteq Users
        /\ UserIdToConversation \subseteq Users \X (0..conversations)
    BY <1>1 DEF RegistryTypes, conversationCaches
  <2>7. RegistryTypes'
    BY <1>1, <1>5, <2>2, <2>3, <2>4, <2>5, <2>6, TypesAfter
  <2> QED BY <2>3, <2>5, <2>7, OpenStepKeeps
<1> QED BY <1>2, <1>4, <1>5 DEF InsertConversation

LEMMA ParticipantAdded ==
  ASSUME NEW id, NEW u \in Users, conversation_participants' = conversation_participants \cup {<<id, u>>}
  PROVE  /\ ParticipantsOf(id)' = ParticipantsOf(id) \cup {u}
         /\ \A i : i # id => ParticipantsOf(i)' = ParticipantsOf(i)
BY DEF ParticipantsOf

\* Inserting a participant, as far as types go.
LEMMA InsertTyped ==
  ASSUME FriendsInv, RegistryTypes, NEW th \in Threads, NEW step, NEW u \in Users, NEW rest, InsertParticipant(th, step, u, rest),
         NEW s, RegistryGoes(th, step, s), s \in {"insertOther", "cacheConversation"}, step \in {"insertCaller", "insertOther"}
  PROVE  RegistryTypes'
<1>1. PICK id : id = cv[th].id
  OBVIOUS
<1>2. /\ conversations' = conversations /\ UNCHANGED conversationCaches /\ cv' = cv
      /\ conversation_participants' = conversation_participants \cup {<<id, u>>} \/ conversation_participants' = conversation_participants
      /\ ConversationFault \/ NoFault
  BY <1>1 DEF InsertParticipant
<1>3. id \in 1..conversations
  BY <1>1, LocalsAre, CallTyped DEF RegistryTypes
<1>4. /\ conversationUsers' = conversationUsers /\ UserIdToConversation' = UserIdToConversation
      /\ conversation_participants \subseteq (1..conversations) \X Users
      /\ DOMAIN conversationUsers \subseteq 0..conversations
      /\ \A i \in DOMAIN conversationUsers : conversationUsers[i] \subseteq Users
      /\ UserIdToConversation \subseteq Users \X (0..conversations)
  BY <1>2 DEF RegistryTypes, conversationCaches
<1>5. conversation_participants' \subseteq (1..conversations) \X Users
  BY <1>2, <1>3, <1>4
<1>6. overlapped' \in BOOLEAN /\ conversation_faults' \in 0..MaxConversationFaults
  BY <1>2, FaultIs
<1>7. cv'[th].id > 0
  BY <1>1, <1>2, <1>3, CallTyped
<1> HIDE DEF InsertParticipant
<1> QED BY <1>2, <1>4, <1>5, <1>6, <1>7, TypesAfter

LEMMA InsertCallerAgrees ==
  ASSUME FriendsInv, RegistryInv, NEW th \in Threads, InsertCaller(th)
  PROVE  RegistryInv'
<1>1. /\ RegistryTypes /\ pc \in [Threads -> FriendPlaces] /\ UNCHANGED conversationCaches /\ conversations' = conversations
      /\ AtStep(th, "insertCaller") /\ UNCHANGED friendVars /\ cv' = cv
  BY InvIs DEF RegistryInv, InsertCaller, InsertParticipant
<1>2. Doing(th) = "AddConversation"
  BY <1>1, InsertCallerGoes
<1>3. PICK rec : rec = cv[th] /\ rec.id \in 0..conversations /\ rec.users \subseteq Users /\ conversations \in Nat
  BY <1>1, CallTyped
<1>4. PICK me, other \in Users : me = fl[th].me /\ other = fl[th].other /\ Couple(th) = {me, other}
  BY <1>2, UsersOfCouple
<1>5. CASE /\ conversation_participants' = conversation_participants \cup {<<rec.id, other>>}
           /\ Advance(th) /\ NoFault
  <2>1. RegistryGoes(th, "insertCaller", "insertOther")
    BY <1>1, <1>5, InsertCallerGoes
  <2>2. RegistryTypes'
    BY <1>1, <1>4, <2>1, InsertTyped DEF InsertCaller
  <2>3. ASSUME ~overlapped'
        PROVE  /\ ~overlapped /\ ListsAgree' /\ CachesAgree' /\ OneDirect'
               /\ KnownUsers(th)' /\ NoneYet(th)' /\ BeingCreated(th)'
    <3>1. ~overlapped
      BY <1>5, <2>3 DEF NoFault
    <3>2. OneDirect /\ KnownUsers(th) /\ NoneYet(th) /\ BeingCreated(th)
      BY <3>1 DEF RegistryInv, RegistryAgrees
    <3>3. /\ At(th) = "insertCaller" /\ At(th)' = "insertOther" /\ Doing(th)' = "AddConversation" /\ Couple(th)' = {me, other} /\ fl' = fl
      BY <1>2, <1>4, <2>1, LocalsAre
    <3>4. ParticipantsOf(rec.id) = {} /\ rec.id \notin DOMAIN conversationUsers
      BY <1>3, <3>2, <3>3 DEF BeingCreated
    <3>5. ParticipantsOf(rec.id)' = {other} /\ \A i : i # rec.id => ParticipantsOf(i)' = ParticipantsOf(i)
      BY <1>5, <3>4, ParticipantAdded
    <3>6. ListsAgree' /\ CachesAgree'
      BY <1>1, <1>3, <2>1, <3>1, <3>4, <3>5, CreatingKeeps DEF CreatingSteps
    <3>7. me # other /\ rec.users = {me, other} /\ DirectOf({me, other}) = {}
      BY <1>2, <1>3, <1>4, <3>2, <3>3 DEF KnownUsers, NoneYet, CreatingSteps
    <3>8. OneDirect'
      BY <1>1, <3>2, <3>5 DEF OneDirect, Pairs
    <3>9. DirectOf({me, other})' = {}
      BY <1>1, <3>5, <3>7 DEF DirectOf
    <3>10. KnownUsers(th)'
      BY <1>1, <1>3, <1>4, <3>3, <3>7 DEF KnownUsers
    <3>11. NoneYet(th)'
      BY <3>3, <3>9 DEF NoneYet, FindingSteps
    <3>12. conversationUsers' = conversationUsers
      BY <1>1 DEF conversationCaches
    <3>13. BeingCreated(th)'
      BY <1>1, <1>3, <1>4, <3>3, <3>4, <3>5, <3>12 DEF BeingCreated
    <3> QED BY <3>1, <3>6, <3>8, <3>10, <3>11, <3>13
  <2> QED BY <2>1, <2>2, <2>3, OpenStepKeeps
<1>6. CASE ConversationFault /\ Skip(th, 2)
  BY <1>1, <1>4, <1>6, InsertCallerGoes, InsertTyped, OpenStepKeeps DEF InsertCaller,
     ConversationFault
<1> QED BY <1>3, <1>4, <1>5, <1>6 DEF InsertCaller, InsertParticipant

LEMMA InsertOtherAgrees ==
  ASSUME FriendsInv, RegistryInv, NEW th \in Threads, InsertOther(th)
  PROVE  RegistryInv'
<1>1. /\ RegistryTypes /\ pc \in [Threads -> FriendPlaces] /\ UNCHANGED conversationCaches /\ conversations' = conversations
      /\ AtStep(th, "insertOther") /\ UNCHANGED friendVars /\ cv' = cv /\ (Advance(th) \/ Skip(th, 1))
      /\ ConversationFault \/ NoFault
  BY InvIs DEF RegistryInv, InsertOther, InsertParticipant
<1>2. Doing(th) = "AddConversation" /\ RegistryGoes(th, "insertOther", "cacheConversation")
  BY <1>1, InsertOtherGoes
<1>3. PICK rec : rec = cv[th] /\ rec.id \in 0..conversations /\ rec.users \subseteq Users /\ conversations \in Nat
  BY <1>1, CallTyped
<1>4. PICK me, other \in Users : me = fl[th].me /\ other = fl[th].other /\ Couple(th) = {me, other}
  BY <1>2, UsersOfCouple
<1>5. RegistryTypes'
  BY <1>1, <1>2, <1>4, InsertTyped DEF InsertOther
<1>6. ASSUME ~overlapped'
      PROVE  /\ ~overlapped /\ ListsAgree' /\ CachesAgree' /\ OneDirect'
             /\ KnownUsers(th)' /\ NoneYet(th)' /\ BeingCreated(th)'
  <2>1. ~overlapped /\ ~ConversationFault
    BY <1>1, <1>6, FaultIs
  <2>2. OneDirect /\ KnownUsers(th) /\ NoneYet(th) /\ BeingCreated(th)
    BY <2>1 DEF RegistryInv, RegistryAgrees
  <2>3. conversation_participants' = conversation_participants \cup {<<rec.id, me>>}
    BY <1>3, <1>4, <2>1 DEF InsertOther, InsertParticipant
  <2>4. /\ At(th) = "insertOther" /\ At(th)' = "cacheConversation" /\ Doing(th)' = "AddConversation" /\ Couple(th)' = {me, other} /\ fl' = fl
    BY <1>2, <1>4, LocalsAre
  <2>5. ParticipantsOf(rec.id) = {other} /\ rec.id \notin DOMAIN conversationUsers /\ rec.id > 0
    BY <1>1, <1>3, <1>4, <2>2, <2>4 DEF RegistryTypes, BeingCreated
  <2>6. ParticipantsOf(rec.id)' = {me, other} /\ \A i : i # rec.id => ParticipantsOf(i)' = ParticipantsOf(i)
    BY <2>3, <2>5, ParticipantAdded
  <2>7. ListsAgree' /\ CachesAgree'
    BY <1>1, <1>2, <1>3, <2>1, <2>5, <2>6, CreatingKeeps DEF CreatingSteps
  <2>8. me # other /\ rec.users = {me, other} /\ DirectOf({me, other}) = {}
    BY <1>2, <1>3, <1>4, <2>2, <2>4 DEF KnownUsers, NoneYet, CreatingSteps
  <2>9. OneDirect'
    BY <1>1, <2>2, <2>6, <2>8 DEF OneDirect, DirectOf
  <2>10. KnownUsers(th)'
    BY <1>1, <1>3, <1>4, <2>4, <2>6, <2>8 DEF KnownUsers
  <2>11. NoneYet(th)'
    BY <1>1, <1>3, <2>4, <2>5 DEF NoneYet, CreatingSteps
  <2> QED BY <2>1, <2>4, <2>7, <2>9, <2>10, <2>11 DEF BeingCreated
<1> QED BY <1>2, <1>5, <1>6, OpenStepKeeps

(***************************************************************************)
(* The steps of a download.                                                *)
(***************************************************************************)
LEMMA LoadAgrees ==
  ASSUME FriendsInv, RegistryInv, NEW th \in Threads, NEW from \in LoadSteps, NEW s \in LoadSteps \cup {"cacheConversation", "GetConversations"},
         RegistryGoes(th, from, s), Doing(th) = "GetConversations",
         UNCHANGED <<conversationTables, conversationCaches>>, ConversationFault \/ NoFault,
         NEW rec \in RegistryCallType, cv' = [cv EXCEPT ![th] = rec],
         s = "cacheConversation" => ConversationFault \/ rec.users = ParticipantsOf(rec.id)
  PROVE  RegistryInv'
  BY RegistryTypesKept, FaultIs, TablesKeep, LocalsAre, TablesSame, OpenStepKeeps DEF RegistryInv,
     LoadSteps, RegistryTypes, KnownUsers, NoneYet, BeingCreated, CreatingSteps

\* A download goes on as the last lemma says though the call is left as it is.
LEMMA SameCall ==
  ASSUME RegistryTypes, NEW th \in Threads, cv' = cv
  PROVE  cv[th] \in RegistryCallType /\ cv' = [cv EXCEPT ![th] = cv[th]]
  BY DEF RegistryTypes

LEMMA SelectConversationsAgrees ==
  ASSUME FriendsInv, RegistryInv, NEW th \in Threads, SelectConversations(th)
  PROVE  RegistryInv'
<1>1. RegistryTypes /\ pc \in [Threads -> FriendPlaces]
  BY InvIs DEF RegistryInv
<1>2. /\ UNCHANGED <<conversationTables, conversationCaches>>
      /\ ConversationFault \/ NoFault
      /\ AtStep(th, "selectConversations") /\ UNCHANGED friendVars /\ Advance(th)
  BY DEF SelectConversations
<1>3. Doing(th) = "GetConversations" /\ RegistryGoes(th, "selectConversations", "skipCached")
  BY <1>1, <1>2, LoadGoes
<1>4. PICK rec \in RegistryCallType : cv' = [cv EXCEPT ![th] = rec]
  <2>1. CASE cv' = cv
    BY <1>1, <2>1, SameCall
  <2>2. CASE \E left : left \subseteq 1..conversations /\ Its(th, [NoConversation EXCEPT !.left = left])
    <3>1. PICK left : left \subseteq 1..conversations /\ cv' = [cv EXCEPT ![th] = [NoConversation EXCEPT !.left = left]]
      BY <2>2 DEF Its
    <3>2. left \subseteq 1..conversations
      BY <3>1
    <3>3. [NoConversation EXCEPT !.left = left] \in RegistryCallType
      BY <1>1, <3>2, CallTyped DEF NoConversation, RegistryCallType
    <3> QED BY <3>1, <3>3
  <2>3. {id \in 1..conversations : fl[th].me \in ParticipantsOf(id)} \subseteq 1..conversations
    OBVIOUS
  <2> QED BY <2>1, <2>2, <2>3, Zenon DEF SelectConversations
<1>5. "selectConversations" \in LoadSteps /\ "skipCached" \in LoadSteps /\ "skipCached" # "cacheConversation"
  BY DEF LoadSteps
<1> QED BY <1>2, <1>3, <1>4, <1>5, LoadAgrees, Zenon

LEMMA SkipCachedAgrees ==
  ASSUME FriendsInv, RegistryInv, NEW th \in Threads, SkipCached(th)
  PROVE  RegistryInv'
<1>1. RegistryTypes /\ pc \in [Threads -> FriendPlaces]
  BY InvIs DEF RegistryInv
<1>2. /\ UNCHANGED <<conversationTables, conversationCaches>>
      /\ ConversationFault \/ NoFault
      /\ AtStep(th, "skipCached") /\ UNCHANGED friendVars /\ Advance(th)
  BY DEF SkipCached
<1>3. Doing(th) = "GetConversations" /\ RegistryGoes(th, "skipCached", "nextConversation")
  BY <1>1, <1>2, LoadGoes
<1>4. PICK rec \in RegistryCallType : cv' = [cv EXCEPT ![th] = rec]
  BY <1>1, CallTyped DEF RegistryCallType, SkipCached, Its
<1>5. "skipCached" \in LoadSteps /\ "nextConversation" \in LoadSteps /\ "nextConversation" # "cacheConversation"
  BY DEF LoadSteps
<1> QED BY <1>2, <1>3, <1>4, <1>5, LoadAgrees, Zenon

LEMMA NextAgrees ==
  ASSUME FriendsInv, RegistryInv, NEW th \in Threads, NextConversation(th)
  PROVE  RegistryInv'
<1>1. RegistryTypes /\ pc \in [Threads -> FriendPlaces]
  BY InvIs DEF RegistryInv
<1>2. /\ UNCHANGED <<conversationTables, conversationCaches>>
      /\ ConversationFault \/ NoFault
      /\ AtStep(th, "nextConversation") /\ UNCHANGED friendVars
  BY DEF NextConversation
<1>3. CASE Advance(th) /\ cv' = cv
  BY <1>1, <1>2, <1>3, LoadGoes, SameCall, LoadAgrees DEF LoadSteps
<1>4. CASE /\ Insert(th, DownloadConversationParticipants)
           /\ \E id \in cv[th].left : Its(th, [cv[th] EXCEPT !.id = id, !.left = @ \ {id}])
  <2>1. Doing(th) = "GetConversations" /\ RegistryGoes(th, "nextConversation", "selectParticipants")
    BY <1>1, <1>2, <1>4, NextGoes
  <2>2. cv[th] \in RegistryCallType
    BY <1>1, CallTyped
  <2>3. PICK id \in cv[th].left : cv' = [cv EXCEPT ![th] = [cv[th] EXCEPT !.id = id, !.left = cv[th].left \ {id}]]
    BY <1>4 DEF Its
  <2>4. id \in 0..conversations
    BY <1>1, CallTyped
  <2>5. [cv[th] EXCEPT !.id = id, !.left = cv[th].left \ {id}] \in RegistryCallType
    BY <2>2, <2>4 DEF RegistryCallType
  <2>6. "nextConversation" \in LoadSteps /\ "selectParticipants" \in LoadSteps /\ "selectParticipants" # "cacheConversation"
    BY DEF LoadSteps
  <2> QED BY <1>2, <2>1, <2>3, <2>5, <2>6, LoadAgrees, Zenon
<1> QED BY <1>3, <1>4, Zenon DEF NextConversation

LEMMA SelectParticipantsAgrees ==
  ASSUME FriendsInv, RegistryInv, NEW th \in Threads, SelectParticipants(th)
  PROVE  RegistryInv'
<1>1. RegistryTypes /\ pc \in [Threads -> FriendPlaces]
  BY InvIs DEF RegistryInv
<1>2. /\ UNCHANGED <<conversationTables, conversationCaches>>
      /\ ConversationFault \/ NoFault
      /\ AtStep(th, "selectParticipants") /\ UNCHANGED friendVars /\ Advance(th)
  BY DEF SelectParticipants
<1>3. Doing(th) = "GetConversations" /\ RegistryGoes(th, "selectParticipants", "cacheConversation")
  BY <1>1, <1>2, LoadGoes
<1>4. PICK rec \in RegistryCallType : cv' = [cv EXCEPT ![th] = rec] /\ (ConversationFault \/ rec.users = ParticipantsOf(rec.id))
  <2>1. ASSUME NEW users, users \subseteq Users
        PROVE  /\ [cv[th] EXCEPT !.users = users] \in RegistryCallType
               /\ [cv[th] EXCEPT !.users = users].users = users /\ [cv[th] EXCEPT !.users = users].id = cv[th].id
    BY <1>1, <2>1, CallTyped DEF RegistryCallType
  <2>2. CASE cv' = [cv EXCEPT ![th] = [cv[th] EXCEPT !.users = ParticipantsOf(cv[th].id)]]
    <3>1. ParticipantsOf(cv[th].id) \subseteq Users
      BY <1>1, CallTyped
    <3> QED BY <2>1, <2>2, <3>1
  <2>3. CASE ConversationFault /\ cv' = [cv EXCEPT ![th] = [cv[th] EXCEPT !.users = {}]]
    BY <2>1, <2>3
  <2> QED BY <2>2, <2>3 DEF SelectParticipants, Its
<1> QED BY <1>2, <1>3, <1>4, LoadAgrees DEF LoadSteps

(***************************************************************************)
(* The calls about friends, meanwhile.                                     *)
(***************************************************************************)
\* A thread that comes to no step of a conversation that is found or created.
Calm(th) ==
    /\ pc' \in [Threads -> FriendPlaces]
    /\ At(th)' \notin RegistrySteps
    /\ Doing(th)' \in {Doing(th), "none"}
    /\ \A o \in Threads \ {th} : At(o)' = At(o) /\ Doing(o)' = Doing(o)

LEMMA NoRegistryNames == \A x \in CallNames : x \notin RegistrySteps
BY DEF CallNames, RegistrySteps, FindingSteps, CreatingSteps

LEMMA CalmMove ==
  ASSUME NEW th \in Threads, NEW s, Moves(th, s), s \notin RegistrySteps
  PROVE  Calm(th)
BY DEF Moves, Calm

\* The steps that lead to one.
LeadingSteps == RegistrySteps \cup {"findConversation", "insertOther", "selectParticipants"}

LEMMA StepCalm ==
  ASSUME NEW th \in Threads, pc \in [Threads -> FriendPlaces], NEW x, AtStep(th, x), x \notin LeadingSteps,
         x \notin CallNames, Advance(th) \/ Return(th)
  PROVE  Calm(th)
  BY AtStepIs, CallsAre, NoRegistryNames, OpensAre, Advanced, CalmMove, Returned DEF LeadingSteps,
     RegistrySteps, FindingSteps

LEMMA SkipCalm ==
  ASSUME NEW th \in Threads, pc \in [Threads -> FriendPlaces], NEW x \in {"selectFriends", "cachedRequest", "selectRequests"},
         AtStep(th, x), Skip(th, 2)
  PROVE  Calm(th)
  BY AtStepIs, CallsAre, WhatNext, SkippedTwo, GoesOn, OpensAre, CalmMove DEF CallNames,
     RegistrySteps, FindingSteps, CreatingSteps

LEMMA FriendStepCalm ==
  ASSUME FriendsInv, NEW th \in Threads, FriendStep(th)
  PROVE  Calm(th) /\ At(th) \notin RegistrySteps
<1>1. pc \in [Threads -> FriendPlaces]
  BY InvIs
<1> USE DEF LeadingSteps, RegistrySteps, FindingSteps, CreatingSteps
<1>2. CASE HasFriendListForUserId(th)
  <2>1. PICK p \in FriendPlaces : p = pc[th] /\ Step(p) = "listed" /\ At(th) = "listed"
    BY <1>1, <1>2, AtStepIs DEF HasFriendListForUserId
  <2>2. Step(Rest(p)) \notin RegistrySteps
    BY <2>1, OpensAre
  <2>3. Moves(th, Step(Rest(p))) \/ Moves(th, "selectFriends")
    BY <1>1, <1>2, <2>1, ListAsked
  <2> QED BY <2>1, <2>2, <2>3, CalmMove
<1>3. CASE HasFriendRequestListForUserId(th)
  <2>1. PICK p \in FriendPlaces : p = pc[th] /\ Step(p) = "asked" /\ At(th) = "asked"
    BY <1>1, <1>3, AtStepIs DEF HasFriendRequestListForUserId
  <2>2. Step(Rest(p)) \notin RegistrySteps
    BY <2>1, OpensAre
  <2>3. Moves(th, Step(Rest(p))) \/ Moves(th, "selectRequests")
    BY <1>1, <1>3, <2>1, RequestsAsked
  <2> QED BY <2>1, <2>2, <2>3, CalmMove
<1>4. CASE SelectFriends(th) \/ SelectRequests(th)
  BY <1>1, <1>4, AtStepIs, StepCalm, SkipCalm DEF SelectFriends, SelectRequests, CallNames
<1>5. CASE FindCachedRequest(th)
  BY <1>1, <1>5, SkippedOne, AtStepIs, StepCalm, SkipCalm DEF FindCachedRequest, CallNames
<1>6. CASE CountSameRow(th) \/ CountSentRows(th) \/ CountIncomingRows(th)
  BY <1>1, <1>6, Left, CalmMove, AtStepIs, StepCalm DEF CountSameRow, CountSentRows,
     CountIncomingRows, Count, AdvanceIf, CallNames
<1>7. CASE FriendReply(th)
  BY <1>1, <1>7, MovedTo, WhereThread DEF FriendPlaces, Step, Call, FriendReply, Finish, Calm,
     FriendOps, FriendWriters
<1>8. CASE StoreFriends(th) \/ CheckIsFriend(th) \/ CheckCachedLimits(th) \/ InsertRequest(th) \/ CacheRequest(th)
  BY <1>1, <1>8, AtStepIs, StepCalm DEF StoreFriends, CheckIsFriend, CheckCachedLimits,
     InsertRequest, CacheRequest, AdvanceIf, CallNames
<1>9. CASE FindRequestRow(th) \/ AcceptRows(th) \/ DeleteRequest(th) \/ EraseRequest(th)
  BY <1>1, <1>9, AtStepIs, StepCalm DEF FindRequestRow, AcceptRows, DeleteRequest, EraseRequest,
     Execute, AdvanceIf, CallNames
<1>10. CASE AddFriends(th) \/ DeleteFriends(th) \/ EraseFriends(th) \/ StoreRequests(th)
  <2>1. PICK x \in {"addFriends", "deleteFriends", "eraseFriends", "storeRequests"} : AtStep(th, x)
    BY <1>10 DEF AddFriends, DeleteFriends, EraseFriends, StoreRequests
  <2>2. Advance(th) \/ Return(th)
    BY <1>10, Zenon DEF AddFriends, DeleteFriends, EraseFriends, StoreRequests
  <2>3. x \notin LeadingSteps /\ x \notin CallNames /\ At(th) = x
    BY <1>1, <2>1, AtStepIs DEF CallNames
  <2> QED BY <1>1, <2>1, <2>2, <2>3, StepCalm
<1> QED BY <1>2, <1>3, <1>4, <1>5, <1>6, <1>7, <1>8, <1>9, <1>10, Zenon DEF FriendStep

\* Who the call is about does not change but when it ends.
LEMMA AboutStill ==
  ASSUME FriendsInv, NEW th \in Threads, FriendStep(th)
  PROVE  \/ FriendReply(th)
         \/ fl'[th].me = fl[th].me /\ fl'[th].other = fl[th].other
<1>1. fl \in [Threads -> FriendCallType]
  BY InvIs DEF FriendTypes
<1>2. PICK rec : rec = fl[th] /\ rec \in FriendCallType
  BY <1>1
<1>3. CASE SelectFriends(th)
  BY <1>1, <1>3 DEF SelectFriends, FriendCallType
<1>4. CASE StoreFriends(th)
  BY <1>1, <1>4 DEF StoreFriends, FriendCallType
<1>5. CASE FindCachedRequest(th) \/ FindRequestRow(th)
  BY <1>1, <1>5 DEF FindCachedRequest, FindRequestRow, FriendCallType
<1>6. CASE SelectRequests(th) \/ StoreRequests(th)
  BY <1>1, <1>6 DEF SelectRequests, StoreRequests, FriendCallType
<1>7. CASE HasFriendListForUserId(th) \/ CheckIsFriend(th) \/ CheckCachedLimits(th) \/ CountSameRow(th)
           \/ CountSentRows(th) \/ CountIncomingRows(th) \/ InsertRequest(th) \/ CacheRequest(th)
  BY <1>7 DEF HasFriendListForUserId, CheckIsFriend, CheckCachedLimits, CountSameRow, CountSentRows,
     CountIncomingRows, Count, InsertRequest, CacheRequest, friendVars
<1>8. CASE AcceptRows(th) \/ DeleteRequest(th) \/ EraseRequest(th) \/ AddFriends(th) \/ DeleteFriends(th)
           \/ EraseFriends(th) \/ HasFriendRequestListForUserId(th)
  BY <1>8 DEF AcceptRows, DeleteRequest, Execute, EraseRequest, AddFriends, DeleteFriends,
     EraseFriends, HasFriendRequestListForUserId, friendVars
<1> QED BY <1>3, <1>4, <1>5, <1>6, <1>7, <1>8, Zenon DEF FriendStep

(***************************************************************************)
(* What no step of a conversation is.                                      *)
(***************************************************************************)
\* A thread that is left where it was, or is at no step of a conversation.
Stays(o) ==
    /\ At(o)' = At(o) /\ Doing(o)' = Doing(o) /\ cv'[o] = cv[o]
    /\ fl'[o].me = fl[o].me /\ fl'[o].other = fl[o].other

Rests(o) ==
    /\ At(o) # "listConversation" /\ At(o)' \notin RegistrySteps
    /\ ~overlapped' /\ Doing(o)' = "AddConversation" => fl'[o].me # fl'[o].other

LEMMA RestingKeeps ==
  ASSUME FriendsInv, RegistryInv,
         UNCHANGED <<conversationTables, conversationCaches>>, conversation_faults' = conversation_faults,
         cv' \in [Threads -> RegistryCallType], overlapped' \in BOOLEAN,
         ~overlapped' => ~overlapped /\ OpensAlone' /\ EndsApart',
         \A o \in Threads : Stays(o) \/ Rests(o)
  PROVE  RegistryInv'
<1>1. RegistryTypes
  BY DEF RegistryInv
<1>2. /\ conversations' = conversations /\ conversation_participants' = conversation_participants
      /\ conversationUsers' = conversationUsers /\ UserIdToConversation' = UserIdToConversation
  BY DEF conversationTables, conversationCaches
<1>3. /\ \A id : ParticipantsOf(id)' = ParticipantsOf(id)
      /\ \A couple : DirectOf(couple)' = DirectOf(couple)
  BY TablesSame
<1>4. RegistryTypes'
  BY <1>1, <1>2 DEF RegistryCallType, ConversationIds, Stays, Rests, RegistrySteps, CreatingSteps,
     RegistryTypes
<1> SUFFICES ASSUME ~overlapped'
             PROVE  RegistryAgrees'
  BY <1>4 DEF RegistryInv
<1>5. ~overlapped /\ RegistryAgrees /\ OpensAlone' /\ EndsApart'
  BY DEF RegistryInv
<1>6. ListsAgree' /\ OneDirect'
  BY <1>2, <1>3, <1>5 DEF RegistryAgrees, ListsAgree, OneDirect
<1>7. CachesAgree'
  BY <1>2, <1>3, <1>5 DEF Listing, Stays, Rests, RegistryAgrees, CachesAgree
<1>8. ASSUME NEW o \in Threads
      PROVE  KnownUsers(o)' /\ NoneYet(o)' /\ BeingCreated(o)'
  BY <1>2, <1>3, <1>5 DEF RegistryAgrees, Stays, Couple, KnownUsers, NoneYet, BeingCreated, Rests,
     RegistrySteps, FindingSteps, CreatingSteps
<1> QED BY <1>5, <1>6, <1>7, <1>8 DEF RegistryAgrees

\* When no call but one that ends has another name than before.
LEMMA ApartStill ==
  ASSUME OpensAlone, EndsApart, \A o \in Threads : Doing(o)' \in {Doing(o), "none"}
  PROVE  OpensAlone' /\ EndsApart'
  BY DEF Opens, OpensAlone, EndsApart

LEMMA FriendStepRests ==
  ASSUME FriendsInv, RegistryInv, NEW th \in Threads, FriendStep(th), UNCHANGED registryVars
  PROVE  RegistryInv'
<1>1. /\ UNCHANGED <<conversationTables, conversationCaches>> /\ conversation_faults' = conversation_faults
      /\ cv' = cv /\ overlapped' = overlapped
  BY DEF registryVars
<1>2. Calm(th) /\ At(th) \notin RegistrySteps
  BY FriendStepCalm
<1>3. cv' \in [Threads -> RegistryCallType] /\ overlapped' \in BOOLEAN
  BY <1>1 DEF RegistryInv, RegistryTypes
<1>4. ~overlapped => OpensAlone' /\ EndsApart'
  BY <1>2, ApartStill DEF Calm, RegistryInv, RegistryAgrees
<1>5. ASSUME NEW o \in Threads
      PROVE  Stays(o) \/ Rests(o)
  <2>1. CASE o # th
    BY <1>1, <1>2, <2>1, OthersLocals DEF Stays, Calm
  <2>2. CASE o = th
    <3>1. At(th) # "listConversation"
      BY <1>2 DEF RegistrySteps, FindingSteps
    <3>2. ASSUME ~overlapped', Doing(th)' = "AddConversation"
          PROVE  fl'[th].me # fl'[th].other
      BY <1>1, <1>2, <3>2, InvIs, MovedTo, AboutStill DEF Calm, RegistryInv, RegistryAgrees,
         KnownUsers, FriendPlaces, Call, FriendReply, Finish
    <3> QED BY <1>2, <2>2, <3>1, <3>2 DEF Rests, Calm
  <2> QED BY <2>1, <2>2
<1> QED BY <1>1, <1>3, <1>4, <1>5, RestingKeeps

LEMMA ConversationReplyRests ==
  ASSUME FriendsInv, RegistryInv, NEW th \in Threads, ConversationReply(th)
  PROVE  RegistryInv'
<1>1. pc \in [Threads -> FriendPlaces] /\ fl \in [Threads -> FriendCallType] /\ RegistryTypes
  BY InvIs DEF FriendTypes, RegistryInv
<1>2. /\ UNCHANGED <<conversationTables, conversationCaches>> /\ conversation_faults' = conversation_faults
      /\ overlapped' = overlapped
      /\ cv' = [cv EXCEPT ![th] = NoConversation] /\ fl' = [fl EXCEPT ![th] = NoFriendCall]
      /\ pc' = [pc EXCEPT ![th] = <<>>]
  BY DEF ConversationReply, NoFault, Finish
<1>3. <<>> \in FriendPlaces /\ Step(<<>>) = "idle" /\ Call(<<>>) = "none"
  BY DEF FriendPlaces, Step, Call
<1>4. /\ At(th)' = "idle" /\ Doing(th)' = "none"
      /\ \A o \in Threads \ {th} : At(o)' = At(o) /\ Doing(o)' = Doing(o)
  BY <1>1, <1>2, <1>3, MovedTo
<1>5. NoConversation \in RegistryCallType /\ cv \in [Threads -> RegistryCallType]
  BY <1>1, ConversationsAssumption DEF NoConversation, RegistryCallType, RegistryTypes, ConversationIds
<1>6. cv' \in [Threads -> RegistryCallType] /\ \A o \in Threads \ {th} : cv'[o] = cv[o] /\ fl'[o] = fl[o]
  BY <1>1, <1>2, <1>5
<1>7. At(th) # "listConversation"
  BY <1>1, WhereThread DEF ConversationReply, RegistryOps
<1>8. ~overlapped => OpensAlone' /\ EndsApart'
  BY <1>4, ApartStill DEF RegistryInv, RegistryAgrees
<1>9. ASSUME NEW o \in Threads
      PROVE  Stays(o) \/ Rests(o)
  BY <1>4, <1>6, <1>7 DEF Stays, Rests, RegistrySteps, FindingSteps, CreatingSteps
<1>10. overlapped' \in BOOLEAN
  BY <1>1, <1>2 DEF RegistryTypes
<1> QED BY <1>2, <1>6, <1>8, <1>9, <1>10, RestingKeeps

LEMMA NobodyIn ==
  ASSUME pc \in [Threads -> FriendPlaces], NEW ops, ~BusyIn(ops), NEW o \in Threads
  PROVE  Doing(o) = "none" \/ Doing(o) \notin ops
  BY WhereThread DEF BusyIn

\* A call begins that opens no conversation, or none is opened meanwhile.
LEMMA BeginningRests ==
  ASSUME FriendsInv, RegistryInv, NEW th \in Threads, NEW q \in FriendPlaces, pc' = [pc EXCEPT ![th] = q], ~Busy(th),
         Step(q) \in {"listed", "selectConversations"}, NEW rec, fl' = [fl EXCEPT ![th] = rec], rec.me # rec.other \/ Call(q) # "AddConversation",
         UNCHANGED <<conversationTables, conversationCaches, cv, conversation_faults>>,
         overlapped' \in BOOLEAN, ~overlapped' => ~overlapped,
         Call(q) = "AddConversation" /\ ~overlapped' => ~BusyIn({"AddConversation", "GetConversations", "RemoveFriend"}),
         Call(q) = "GetConversations" /\ ~overlapped' => ~BusyIn({"AddConversation", "GetConversations"}),
         Call(q) = "RemoveFriend" /\ ~overlapped' => ~BusyIn({"AddConversation"})
  PROVE  RegistryInv'
<1>1. pc \in [Threads -> FriendPlaces] /\ fl \in [Threads -> FriendCallType] /\ RegistryTypes
  BY InvIs DEF FriendTypes, RegistryInv
<1>2. UNCHANGED <<conversationTables, conversationCaches>> /\ conversation_faults' = conversation_faults /\ cv' = cv
  OBVIOUS
<1>3. /\ At(th)' = Step(q) /\ Doing(th)' = Call(q)
      /\ \A o \in Threads \ {th} : At(o)' = At(o) /\ Doing(o)' = Doing(o)
  BY <1>1, MovedTo
<1>4. At(th) = "idle"
  BY <1>1, WhereThread
<1>5. fl'[th] = rec /\ \A o \in Threads \ {th} : fl'[o] = fl[o]
  BY <1>1
<1>6. ASSUME NEW o \in Threads
      PROVE  Stays(o) \/ Rests(o)
  BY <1>2, <1>3, <1>4, <1>5 DEF Stays, Rests, RegistrySteps, FindingSteps, CreatingSteps
<1>7. ASSUME ~overlapped'
      PROVE  OpensAlone' /\ EndsApart'
  BY <1>1, <1>3, <1>7, NobodyIn DEF RegistryInv, RegistryAgrees, OpensAlone, EndsApart, Opens
<1>8. cv' \in [Threads -> RegistryCallType]
  BY <1>1, <1>2 DEF RegistryTypes
<1> QED BY <1>2, <1>6, <1>7, <1>8, RestingKeeps

LEMMA ConversationCallRests ==
  ASSUME FriendsInv, RegistryInv, NEW th \in Threads, ConversationCall(th)
  PROVE  RegistryInv'
<1>1. RegistryTypes /\ pc \in [Threads -> FriendPlaces]
  BY InvIs DEF RegistryInv
<1>2. ASSUME NEW a \in Callers, NEW b \in Callers, a # b, RemoveFriendMeanwhile(th, a, b)
      PROVE  RegistryInv'
  BY <1>2, GroupsAre, RemovePlacesAre, FriendCallsBegin, BeginningRests DEF RemovePlaces,
     RemoveFriendMeanwhile, OnMessageReceived_RemoveFriend, BeginFriendCall, Enter
<1>3. ASSUME NEW q \in BeginPlaces, NEW a \in Callers, NEW b \in Callers, RegistryBegins(th, q, a, b),
             UNCHANGED <<conversationTables, conversationCaches, cv, conversation_faults>>,
             q = O1 => a # b,
             overlapped' \in BOOLEAN, ~overlapped' => ~overlapped,
             q = O1 /\ ~overlapped' => ~BusyIn({"AddConversation", "GetConversations", "RemoveFriend"}),
             q = H1 /\ ~overlapped' => ~BusyIn({"AddConversation", "GetConversations"})
      PROVE  RegistryInv'
  BY <1>3, BeginPlacesAre, BeginningRests DEF BeginPlaces, RegistryBegins, NoFriendCall
<1> QED BY <1>2, <1>3, ConversationCallIs

LEMMA NothingOpen ==
  ASSUME NEW th \in Threads, pc \in [Threads -> FriendPlaces], ~Opens(th)
  PROVE  At(th) \notin RegistrySteps
  BY OpensAre DEF At, Doing, Opens

LEMMA ConversationsRestartKeeps ==
  ASSUME FriendsInv, RegistryInv, ConversationsRestart
  PROVE  RegistryInv'
<1>1. RegistryTypes
  BY DEF RegistryInv
<1>2. /\ conversations' = conversations /\ conversation_participants' = conversation_participants
      /\ conversationUsers' = [id \in {} |-> {}] /\ UserIdToConversation' = {}
      /\ cv' = [th \in Threads |-> NoConversation]
      /\ overlapped' = overlapped /\ conversation_faults' = conversation_faults /\ pc' = Idle
  BY DEF ConversationsRestart, FriendsRestart, NoFault, conversationTables
<1>3. \A o \in Threads : At(o)' = "idle" /\ Doing(o)' = "none"
  BY <1>2 DEF Step, Call, At, Doing, Idle
<1>4. RegistryTypes'
  BY <1>1, <1>2, <1>3, CallTyped, ConversationsAssumption DEF RegistryTypes, ConversationIds,
     NoConversation, RegistryCallType
<1>5. ASSUME ~overlapped
      PROVE  RegistryAgrees'
  <2>1. OneDirect
    BY <1>5 DEF RegistryInv, RegistryAgrees
  <2>2. OneDirect'
    BY <1>2, <2>1 DEF ParticipantsOf, OneDirect
  <2>3. ListsAgree' /\ CachesAgree'
    BY <1>2 DEF ListsAgree, CachesAgree
  <2>4. OpensAlone' /\ EndsApart'
    BY <1>3 DEF OpensAlone, EndsApart, Opens
  <2>5. \A o \in Threads : KnownUsers(o)' /\ NoneYet(o)' /\ BeingCreated(o)'
    BY <1>3 DEF KnownUsers, NoneYet, BeingCreated, FindingSteps, CreatingSteps
  <2> QED BY <2>2, <2>3, <2>4, <2>5 DEF RegistryAgrees
<1> QED BY <1>2, <1>4, <1>5 DEF RegistryInv

LEMMA RegistryKeeps ==
  ASSUME FriendsInv, RegistryInv, ConversationsNext
  PROVE  RegistryInv'
<1>1. ASSUME NEW th \in Threads, ConversationStep(th)
      PROVE  RegistryInv'
  BY <1>1, Zenon, FindAgrees, CacheAgrees, ListAgrees, FoundAgrees, InsertConversationAgrees, InsertCallerAgrees, InsertOtherAgrees,
     SelectConversationsAgrees, SkipCachedAgrees, NextAgrees, SelectParticipantsAgrees, ConversationReplyRests DEF ConversationStep
<1> QED BY <1>1, ConversationCallRests, FriendStepRests, ConversationsRestartKeeps DEF ConversationsNext

LEMMA RegistryStays ==
  ASSUME FriendsInv, RegistryInv, UNCHANGED <<pc, friendVars, registryVars>>
  PROVE  RegistryInv'
  BY ApartStill, RestingKeeps DEF friendVars, registryVars, RegistryInv, RegistryTypes, At, Doing,
     Stays, RegistryAgrees

LEMMA RegistryBeginsAgreed ==
  ASSUME ConversationsInit, pc = Idle
  PROVE  FriendsInv /\ RegistryInv
<1>1. FriendsInv
  <2>1. CASE FriendsStart({}, {})
    BY <2>1, StartsAgreed
  <2>2. CASE \E p \in Callers \X Callers : p[1] # p[2] /\ FriendsStart({p}, {})
    BY <2>2, FriendsAssumption, StartsAgreed DEF Pairs
  <2> QED BY <2>1, <2>2 DEF ConversationsInit
<1>2. /\ conversations = 0 /\ conversation_participants = {} /\ conversationUsers = [id \in {} |-> {}]
      /\ UserIdToConversation = {} /\ cv = [th \in Threads |-> NoConversation] /\ overlapped = FALSE /\ conversation_faults = 0
  BY DEF ConversationsInit, NoConversations
<1>3. \A o \in Threads : At(o) = "idle" /\ Doing(o) = "none"
  BY DEF Step, Call, At, Doing, Idle
<1>4. RegistryTypes
  <2>1. NoConversation \in RegistryCallType
    BY <1>2 DEF NoConversation, RegistryCallType
  <2>2. DOMAIN conversationUsers = {}
    BY <1>2
  <2>3. 0 \in ConversationIds /\ 0 \in 0..MaxConversationFaults
    BY ConversationsAssumption DEF ConversationIds
  <2>4. cv \in [Threads -> RegistryCallType]
    BY <1>2, <2>1
  <2> QED BY <1>2, <1>3, <2>2, <2>3, <2>4 DEF RegistryTypes
<1>5. ListsAgree /\ CachesAgree /\ OneDirect
  BY <1>2 DEF ListsAgree, CachesAgree, OneDirect
<1>6. OpensAlone /\ EndsApart
  BY <1>3 DEF OpensAlone, EndsApart, Opens
<1>7. \A o \in Threads : KnownUsers(o) /\ NoneYet(o) /\ BeingCreated(o)
  BY <1>3 DEF KnownUsers, NoneYet, BeingCreated, FindingSteps, CreatingSteps
<1> QED BY <1>1, <1>4, <1>5, <1>6, <1>7 DEF RegistryInv, RegistryAgrees

LEMMA RegistryAlways == ConversationsSpec => [](FriendsInv /\ RegistryInv)
<1>1. ConversationsInit /\ pc = Idle => FriendsInv /\ RegistryInv
  BY RegistryBeginsAgreed
<1>2. FriendsInv /\ RegistryInv /\ [ConversationsNext]_<<pc, friendVars, registryVars>> => (FriendsInv /\ RegistryInv)'
  BY ConversationsKeepFriends, RegistryKeeps, FriendsRest, RegistryStays
<1> QED BY <1>1, <1>2, PTL DEF ConversationsSpec

LEMMA RegistryIsConsistent ==
  ASSUME FriendsInv, RegistryInv
  PROVE  ConversationsConsistent
<1>1. RegistryTypes /\ pc \in [Threads -> FriendPlaces]
  BY DEF RegistryInv, FriendsInv, FriendTypes
<1>2. ConversationsTypeOK
  BY <1>1, CallTyped DEF RegistryTypes, ConversationsTypeOK
<1>3. ASSUME ~overlapped, NEW p \in Pairs
      PROVE  Cardinality(DirectOf({p[1], p[2]})) <= 1
  <2>1. PICK couple : couple = {p[1], p[2]}
    OBVIOUS
  <2>2. \A i, j \in DirectOf(couple) : i = j
    BY <1>3, <2>1 DEF RegistryInv, RegistryAgrees, OneDirect, DirectOf
  <2>3. CASE DirectOf(couple) = {}
    BY <2>1, <2>3, FS_EmptySet
  <2>4. CASE DirectOf(couple) # {}
    <3>1. PICK i : DirectOf(couple) = {i}
      BY <2>2, <2>4
    <3> QED BY <2>1, <3>1, FS_Singleton
  <2> QED BY <2>3, <2>4
<1>4. ASSUME ~overlapped, ~BusyIn({"AddConversation", "GetConversations"}), NEW id \in DOMAIN conversationUsers \ {0}
      PROVE  /\ conversationUsers[id] = ParticipantsOf(id)
             /\ \A u \in Users : u \in ParticipantsOf(id) <=> <<u, id>> \in UserIdToConversation
  BY <1>1, <1>4, NobodyIn, NothingOpen DEF RegistryInv, RegistryAgrees, Opens, Listing,
     RegistrySteps, FindingSteps, RegistryTypes, ConversationIds, ListsAgree, CachesAgree
<1>5. OneConversation
  BY <1>3 DEF OneConversation
<1>6. ConversationCachesAgree
  BY <1>4 DEF ConversationCachesAgree
<1> QED BY <1>2, <1>5, <1>6 DEF ConversationsConsistent

\* Two users keep one conversation, and its caches agree with its tables, however many users,
\* threads and conversations there are: GetOrCreateConversation looks before it creates, and what
\* it and the downloads cache is what the tables hold, unless two calls that open conversations
\* overlapped, a friendship ended meanwhile or a statement failed.
THEOREM ConversationsStayConsistent == ConversationsSpec => []ConversationsConsistent
<1>1. FriendsInv /\ RegistryInv => ConversationsConsistent
  BY RegistryIsConsistent
<1> QED BY <1>1, RegistryAlways, PTL

\* The calls about conversations leave tables and caches of friends as consistent as they were.
THEOREM ConversationsLeaveFriends == ConversationsSpec => []FriendsConsistent
<1>1. FriendsInv /\ RegistryInv => FriendsConsistent
  BY FriendsAreConsistent
<1> QED BY <1>1, RegistryAlways, PTL

(***************************************************************************)
(* Conversations are created between friends.                              *)
(***************************************************************************)
FewNames == {"none", "RemoveFriend", "CallFriend", "AddConversation", "GetConversations"}

\* The other threads, while one moves.
OthersWait(th) ==
    \A o \in Threads \ {th} : At(o)' = At(o) /\ Doing(o)' = Doing(o) /\ fl'[o] = fl[o]

\* Who is read or written of by a thread that moves.
ReadApart(th) ==
    At(th)' = "storeFriends" =>
        \/ fl'[th].friends = NoFriends
        \/ \A o \in Threads \ {th} : Writes(o) /\ fl'[th].me \in Couple(o) => Couple(o) \in doubted'
WriteApart(th) ==
    Writes(th)' =>
        \A t \in Threads \ {th} : At(t) = "storeFriends" /\ fl[t].me \in Couple(th)' =>
            Couple(th)' \in doubted' \/ fl[t].friends = NoFriends

LEMMA ConverseAfter ==
  ASSUME ConverseInv, NEW th \in Threads, OthersWait(th), Doing(th)' \in FewNames, doubted \subseteq doubted',
         CachedAreFriends', \A o \in Threads : ReadAreFriends(o)' /\ OfFriends(o)', ReadApart(th), WriteApart(th)
  PROVE  ConverseInv'
<1>1. FewCalls /\ ReadsApart
  BY DEF ConverseInv
<1>2. FewCalls'
  BY <1>1 DEF FewCalls, FewNames, OthersWait
<1>3. \A o \in Threads \ {th} : /\ At(o)' = At(o) /\ fl'[o] = fl[o]
                                /\ Writes(o)' = Writes(o) /\ Couple(o)' = Couple(o)
  BY DEF OthersWait, Writes, Couple
<1>4. ReadsApart'
  BY <1>1, <1>3 DEF ReadsApart, ReadApart, WriteApart
<1> QED BY <1>2, <1>4 DEF ConverseInv

\* A thread leaves the others what they know when the table stays.
LEMMA OthersConverse ==
  ASSUME ConverseInv, NEW th \in Threads, OthersWait(th), doubted \subseteq doubted', friend_list' = friend_list,
         ~overlapped' => ~overlapped, NEW o \in Threads \ {th}
  PROVE  ReadAreFriends(o)' /\ OfFriends(o)'
  BY DEF ConverseInv, OthersWait, Couple, RowsBetween, ReadAreFriends, OfFriends

LEMMA CachedStill ==
  ASSUME ConverseInv, NEW th \in Threads, OthersWait(th), doubted \subseteq doubted', friend_list' = friend_list,
         Friends' = Friends, At(th) # "eraseFriends"
  PROVE  CachedAreFriends'
  BY DEF ConverseInv, RowsBetween, Removing, OthersWait, Couple, CachedAreFriends

\* A thread moves on and neither the tables nor the caches of friends change.
LEMMA ConverseMoves ==
  ASSUME ConverseInv, NEW th \in Threads, OthersWait(th), Doing(th)' \in FewNames, doubted \subseteq doubted',
         friend_list' = friend_list, Friends' = Friends, At(th) # "eraseFriends",
         ~overlapped' => ~overlapped,
         ReadAreFriends(th)', OfFriends(th)', ReadApart(th), WriteApart(th)
  PROVE  ConverseInv'
  BY CachedStill, OthersConverse, ConverseAfter

\* A call that goes on and writes about no other couple than before.
LEMMA WritesApartStill ==
  ASSUME ConverseInv, NEW th \in Threads, doubted \subseteq doubted', Doing(th)' = Doing(th), Couple(th)' = Couple(th)
  PROVE  WriteApart(th)
  BY DEF ConverseInv, Writes, ReadsApart, WriteApart

LEMMA RegistryGoesConverse ==
  ASSUME FriendsInv, ConverseInv, NEW th \in Threads, NEW from \in OpenSteps, NEW s \in OpenSteps \cup OpenEnds,
         RegistryGoes(th, from, s), ~overlapped' => ~overlapped
  PROVE  ConverseInv'
<1>1. /\ At(th) = from /\ At(th)' = s /\ Doing(th)' = Doing(th) /\ Couple(th)' = Couple(th) /\ fl' = fl
      /\ \A o \in Threads : Doing(o)' = Doing(o)
      /\ \A o \in Threads \ {th} : At(o)' = At(o)
      /\ pc \in [Threads -> FriendPlaces] /\ pc' \in [Threads -> FriendPlaces]
  BY InvIs, LocalsAre
<1>2. friend_list' = friend_list /\ Friends' = Friends /\ doubted' = doubted
  BY DEF RegistryGoes, friendVars, friendTables, friendCaches, friendDoubts
<1>3. OthersWait(th)
  BY <1>1 DEF OthersWait
<1>4. Doing(th)' \in FewNames
  BY <1>1 DEF ConverseInv, FewCalls, FewNames
<1>5. from # "storeFriends" /\ from # "eraseFriends" /\ s # "storeFriends"
  BY DEF OpenSteps, OpenEnds, LoadSteps, RegistrySteps, FindingSteps, CreatingSteps
<1>6. ReadAreFriends(th) /\ OfFriends(th)
  BY DEF ConverseInv
<1>7. ReadAreFriends(th)'
  BY <1>1, <1>5, <1>6 DEF ReadAreFriends
<1>8. ASSUME Doing(th) = "AddConversation"
      PROVE  from \in {"findConversation"} \cup FindingSteps \cup CreatingSteps
  BY <1>1, <1>8, WhatFor DEF At, Doing, LoadSteps, OpenSteps, RegistrySteps
<1>9. RowsBetween(fl[th].me, fl[th].other)' = RowsBetween(fl[th].me, fl[th].other)
  BY <1>1, <1>2 DEF RowsBetween
<1>10. OfFriends(th)'
  BY <1>1, <1>2, <1>6, <1>8, <1>9 DEF OfFriends
<1>11. ReadApart(th) /\ WriteApart(th)
  BY <1>1, <1>2, <1>5, WritesApartStill DEF ReadApart
<1> QED BY <1>1, <1>2, <1>3, <1>4, <1>5, <1>7, <1>10, <1>11, ConverseMoves

LEMMA ConversationReplyConverse ==
  ASSUME FriendsInv, ConverseInv, NEW th \in Threads, ConversationReply(th)
  PROVE  ConverseInv'
<1>1. pc \in [Threads -> FriendPlaces] /\ fl \in [Threads -> FriendCallType]
  BY InvIs DEF FriendTypes
<1>2. /\ overlapped' = overlapped /\ fl' = [fl EXCEPT ![th] = NoFriendCall]
      /\ pc' = [pc EXCEPT ![th] = <<>>]
      /\ friend_list' = friend_list /\ Friends' = Friends /\ doubted' = doubted
  BY DEF ConversationReply, NoFault, Finish, friendTables, friendCaches, friendDoubts
<1>3. <<>> \in FriendPlaces /\ Step(<<>>) = "idle" /\ Call(<<>>) = "none"
  BY DEF FriendPlaces, Step, Call
<1>4. /\ At(th)' = "idle" /\ Doing(th)' = "none"
      /\ \A o \in Threads \ {th} : At(o)' = At(o) /\ Doing(o)' = Doing(o)
  BY <1>1, <1>2, <1>3, MovedTo
<1>5. OthersWait(th) /\ fl'[th] = NoFriendCall
  BY <1>1, <1>2, <1>4 DEF OthersWait
<1>6. At(th) # "eraseFriends"
  BY <1>1, WhereThread DEF ConversationReply, RegistryOps
<1>7. ReadAreFriends(th)' /\ OfFriends(th)' /\ ReadApart(th) /\ WriteApart(th) /\ Doing(th)' \in FewNames
  BY <1>4, <1>5 DEF ReadAreFriends, OfFriends, ReadApart, WriteApart, Writes, FriendWriters, FewNames, NoFriendCall
<1> QED BY <1>2, <1>5, <1>6, <1>7, ConverseMoves

LEMMA RegistryBeginConverse ==
  ASSUME FriendsInv, ConverseInv, NEW th \in Threads, NEW q \in BeginPlaces, NEW a \in Callers, NEW b \in Callers,
         RegistryBegins(th, q, a, b), ~overlapped' => ~overlapped
  PROVE  ConverseInv'
<1>1. /\ fl'[th].friends = NoFriends /\ \A o \in Threads \ {th} : fl'[o] = fl[o]
      /\ At(th)' = Step(q) /\ Doing(th)' = Call(q)
      /\ \A o \in Threads \ {th} : At(o)' = At(o) /\ Doing(o)' = Doing(o)
      /\ At(th) = "idle"
  BY BeginIs
<1>2. Step(q) \in {"listed", "selectConversations"} /\ Call(q) \in RegistryOps
  BY BeginPlacesAre
<1>3. friend_list' = friend_list /\ Friends' = Friends /\ doubted' = doubted
  BY DEF RegistryBegins, friendTables, friendCaches, friendDoubts
<1>4. OthersWait(th)
  BY <1>1 DEF OthersWait
<1>5. ReadAreFriends(th)' /\ OfFriends(th)' /\ ReadApart(th)
  BY <1>1, <1>2 DEF ReadAreFriends, OfFriends, ReadApart, FindingSteps, CreatingSteps
<1>6. WriteApart(th) /\ Doing(th)' \in FewNames
  BY <1>1, <1>2 DEF WriteApart, Writes, FriendWriters, RegistryOps, FewNames
<1> QED BY <1>1, <1>3, <1>4, <1>5, <1>6, ConverseMoves

LEMMA RemoveConverse ==
  ASSUME FriendsInv, ConverseInv, NEW th \in Threads, NEW a \in Callers, NEW b \in Callers, a # b, RemoveFriendMeanwhile(th, a, b)
  PROVE  ConverseInv'
<1>1. pc \in [Threads -> FriendPlaces] /\ fl \in [Threads -> FriendCallType]
  BY InvIs DEF FriendTypes
<1>2. U1 \in FriendPlaces /\ Step(U1) = "listed" /\ Call(U1) = "RemoveFriend"
  BY GroupsAre, RemovePlacesAre DEF RemovePlaces
<1>3. BeginFriendCall(th, "RemoveFriend", RemoveFriend, a, b)
  BY DEF RemoveFriendMeanwhile, OnMessageReceived_RemoveFriend
<1>4. pc' = [pc EXCEPT ![th] = U1] /\ ~Busy(th) /\ friend_list' = friend_list /\ Friends' = Friends
  BY <1>3, FriendCallsBegin DEF BeginFriendCall, Enter, friendTables, friendCaches
<1>5. /\ At(th)' = "listed" /\ Doing(th)' = "RemoveFriend" /\ At(th) = "idle"
      /\ \A o \in Threads \ {th} : At(o)' = At(o) /\ Doing(o)' = Doing(o)
  BY <1>1, <1>2, <1>4, MovedTo, WhereThread
<1>6. PICK rec : rec = [NoFriendCall EXCEPT !.me = a, !.other = b]
  OBVIOUS
<1>7. rec.me = a /\ rec.other = b /\ rec.friends = NoFriends
  BY <1>6 DEF NoFriendCall
<1>8. fl' = [fl EXCEPT ![th] = rec]
  BY <1>3, <1>6 DEF BeginFriendCall
<1>9. fl'[th] = rec /\ \A o \in Threads \ {th} : fl'[o] = fl[o]
  BY <1>1, <1>8
<1>10. OthersWait(th)
  BY <1>5, <1>9 DEF OthersWait
<1>11. /\ ~overlapped' => ~overlapped
  BY DEF RemoveFriendMeanwhile
<1>12. /\ doubted \subseteq doubted'
       /\ \A t \in Threads \ {th} : AtStep(t, "storeFriends") /\ fl[t].me \in {a, b} => {a, b} \in doubted'
  BY <1>3 DEF BeginFriendCall, Doubt, FriendWriters
<1>13. WriteApart(th)
  BY <1>1, <1>7, <1>9, <1>12, WhereThread DEF WriteApart, Couple, AtStep
<1>14. ReadAreFriends(th)' /\ OfFriends(th)' /\ ReadApart(th) /\ Doing(th)' \in FewNames
  BY <1>5, <1>7, <1>9 DEF ReadAreFriends, OfFriends, ReadApart, FewNames
<1> QED BY <1>4, <1>5, <1>10, <1>11, <1>12, <1>13, <1>14, ConverseMoves

\* The only steps of friends there are here.
LEMMA FewSteps ==
  ASSUME FriendsInv, FewCalls, NEW th \in Threads, FriendStep(th)
  PROVE  \/ HasFriendListForUserId(th) \/ SelectFriends(th) \/ StoreFriends(th) \/ CheckIsFriend(th)
         \/ DeleteFriends(th) \/ EraseFriends(th) \/ FriendReply(th)
<1>1. pc \in [Threads -> FriendPlaces]
  BY InvIs
<1>2. Doing(th) \in FewNames
  BY DEF FewCalls, FewNames
<1>3. ASSUME NEW x \in {"cachedLimits", "sameRow", "sentRows", "incomingRows", "insertRequest", "cacheRequest", "cachedRequest", "requestRow",
                        "acceptRows", "deleteRequest", "eraseRequest", "addFriends", "asked", "selectRequests", "storeRequests"},
             AtStep(th, x)
      PROVE  FALSE
  BY <1>1, <1>2, <1>3, AtStepIs, WhatFor DEF FewNames
<1>4. ~(CheckCachedLimits(th) \/ CountSameRow(th) \/ CountSentRows(th) \/ CountIncomingRows(th) \/ InsertRequest(th) \/ CacheRequest(th))
  BY <1>3 DEF CheckCachedLimits, CountSameRow, CountSentRows, CountIncomingRows, Count, InsertRequest, CacheRequest
<1>5. ~(FindCachedRequest(th) \/ FindRequestRow(th) \/ AcceptRows(th) \/ DeleteRequest(th) \/ EraseRequest(th))
  BY <1>3 DEF FindCachedRequest, FindRequestRow, AcceptRows, DeleteRequest, EraseRequest
<1>6. ~(AddFriends(th) \/ HasFriendRequestListForUserId(th) \/ SelectRequests(th) \/ StoreRequests(th))
  BY <1>3 DEF AddFriends, HasFriendRequestListForUserId, SelectRequests, StoreRequests
<1> QED BY <1>4, <1>5, <1>6, Zenon DEF FriendStep

\* A step of friends, as far as the others and the call's name go.
LEMMA StepConverse ==
  ASSUME FriendsInv, ConverseInv, NEW th \in Threads, FriendStep(th)
  PROVE  OthersWait(th) /\ Doing(th)' \in FewNames /\ pc' \in [Threads -> FriendPlaces]
  BY FriendStepCalm, OthersLocals DEF ConverseInv, FewCalls, FewNames, Calm, OthersWait

LEMMA ListAskedConverse ==
  ASSUME FriendsInv, ConverseInv, NEW th \in Threads, HasFriendListForUserId(th), overlapped' = overlapped
  PROVE  ConverseInv'
<1>1. FriendStep(th) /\ pc \in [Threads -> FriendPlaces]
  BY InvIs, Zenon DEF FriendStep
<1>2. OthersWait(th) /\ Doing(th)' \in FewNames
  BY <1>1, StepConverse
<1>3. /\ AtStep(th, "listed") /\ fl' = fl /\ friend_list' = friend_list /\ Friends' = Friends /\ doubted' = doubted
  BY DEF HasFriendListForUserId, friendVars, friendTables, friendCaches, friendDoubts
<1>4. PICK p \in FriendPlaces : p = pc[th] /\ Step(p) = "listed" /\ At(th) = "listed"
  BY <1>1, <1>3, AtStepIs
<1>5. Step(Rest(p)) \in {"isFriend", "GetFriendList"}
  BY <1>4, WhatNext
<1>6. PICK s \in {"isFriend", "GetFriendList", "selectFriends"} : Moves(th, s)
  BY <1>1, <1>4, <1>5, ListAsked
<1>7. At(th)' = s /\ Doing(th)' = Doing(th) /\ Couple(th)' = Couple(th)
  BY <1>3, <1>6 DEF Moves, Couple
<1>8. ReadAreFriends(th)
  BY DEF ConverseInv
<1>9. ReadAreFriends(th)' /\ OfFriends(th)' /\ ReadApart(th)
  BY <1>3, <1>4, <1>7, <1>8 DEF ReadAreFriends, OfFriends, ReadApart, FindingSteps, CreatingSteps
<1> QED BY <1>2, <1>3, <1>4, <1>7, <1>9, WritesApartStill, ConverseMoves

LEMMA SelectFriendsConverse ==
  ASSUME FriendsInv, ConverseInv, NEW th \in Threads, SelectFriends(th), overlapped' = overlapped
  PROVE  ConverseInv'
<1>1. FriendStep(th) /\ pc \in [Threads -> FriendPlaces] /\ fl \in [Threads -> FriendCallType]
  BY InvIs, Zenon DEF FriendStep, FriendTypes
<1>2. OthersWait(th) /\ Doing(th)' \in FewNames
  BY <1>1, StepConverse
<1>3. AtStep(th, "selectFriends") /\ friend_list' = friend_list /\ Friends' = Friends
  BY DEF SelectFriends, friendTables, friendCaches
<1>4. PICK p \in FriendPlaces : p = pc[th] /\ Step(p) = "selectFriends" /\ At(th) = "selectFriends" /\ Call(p) = Doing(th) /\ p # <<>>
  BY <1>1, <1>3, AtStepIs
<1>5. Step(Rest(p)) = "storeFriends" /\ Rest(p) \in FriendPlaces /\ Doing(th) \in CallNames
  BY <1>4, WhatNext, GoesOn, CallsAre
<1>6. "selectFriends" # Doing(th) /\ "storeFriends" # Doing(th)
  BY <1>5 DEF CallNames
<1>7. Step(Rest(Rest(p))) \in {"isFriend", "GetFriendList"}
  BY <1>5, WhatNext
<1>8. Advance(th) => Moves(th, "storeFriends")
  BY <1>1, <1>3, <1>4, <1>5, <1>6, Advanced
<1>9. Skip(th, 2) => Moves(th, Step(Rest(Rest(p))))
  BY <1>1, <1>3, <1>4, <1>5, <1>6, SkippedTwo
<1>10. ReadAreFriends(th) /\ fl[th].friends = NoFriends
  BY <1>4 DEF ConverseInv, ReadAreFriends
<1>11. PICK me : me = fl[th].me
  OBVIOUS
<1>12. CASE /\ fl' = [fl EXCEPT ![th].friends = [v \in Users |-> RowsBetween(me, v)]]
            /\ Doubt(BeingWritten(th, me)) /\ Advance(th)
  <2>1. At(th)' = "storeFriends" /\ Doing(th)' = Doing(th)
    BY <1>8, <1>12 DEF Moves
  <2>2. /\ fl'[th].me = me /\ fl'[th].other = fl[th].other
        /\ fl'[th].friends = [v \in Users |-> RowsBetween(me, v)]
    BY <1>1, <1>11, <1>12 DEF FriendCallType
  <2>3. doubted' = doubted \cup BeingWritten(th, me)
    BY <1>12 DEF Doubt
  <2>4. Couple(th)' = Couple(th)
    BY <1>11, <2>2 DEF Couple
  <2>5. \A u, v : RowsBetween(u, v)' = RowsBetween(u, v)
    BY <1>3 DEF RowsBetween
  <2>6. ReadAreFriends(th)'
    BY <2>1, <2>2, <2>5 DEF ReadAreFriends
  <2>7. ReadApart(th)
    BY <1>1, <2>2, <2>3, WhereThread DEF ReadApart, Writes, FriendWriters, BeingWritten
  <2>8. OfFriends(th)'
    BY <2>1 DEF OfFriends, FindingSteps, CreatingSteps
  <2> QED BY <1>2, <1>3, <1>4, <2>1, <2>3, <2>4, <2>6, <2>7, <2>8, WritesApartStill, ConverseMoves
<1>13. CASE fl' = fl /\ Doubt({Couple(th)}) /\ (Skip(th, 2) \/ Advance(th))
  <2>1. PICK s \in {"storeFriends", "isFriend", "GetFriendList"} : Moves(th, s)
    BY <1>7, <1>8, <1>9, <1>13
  <2>2. At(th)' = s /\ Doing(th)' = Doing(th) /\ Couple(th)' = Couple(th) /\ fl'[th].friends = NoFriends
    BY <1>10, <1>13, <2>1 DEF Moves, Couple
  <2>3. doubted \subseteq doubted'
    BY <1>13 DEF Doubt
  <2>4. ReadAreFriends(th)'
    BY <2>2 DEF ReadAreFriends, NoFriends
  <2>5. OfFriends(th)' /\ ReadApart(th)
    BY <2>2 DEF OfFriends, ReadApart, FindingSteps, CreatingSteps
  <2> QED BY <1>2, <1>3, <1>4, <2>2, <2>3, <2>4, <2>5, WritesApartStill, ConverseMoves
<1> QED BY <1>11, <1>12, <1>13, Zenon DEF SelectFriends

LEMMA StoreFriendsConverse ==
  ASSUME FriendsInv, ConverseInv, NEW th \in Threads, StoreFriends(th), overlapped' = overlapped
  PROVE  ConverseInv'
<1>1. FriendStep(th) /\ pc \in [Threads -> FriendPlaces] /\ FriendTypes /\ About(th)
  BY InvIs, Zenon DEF FriendStep
<1>2. OthersWait(th) /\ Doing(th)' \in FewNames
  BY <1>1, StepConverse
<1>3. AtStep(th, "storeFriends") /\ friend_list' = friend_list /\ doubted' = doubted /\ Advance(th)
  BY DEF StoreFriends, friendTables, friendDoubts
<1>4. PICK p \in FriendPlaces : p = pc[th] /\ Step(p) = "storeFriends" /\ At(th) = "storeFriends" /\ Call(p) = Doing(th) /\ Doing(th) # "none"
  BY <1>1, <1>3, AtStepIs
<1>5. Step(Rest(p)) \in {"isFriend", "GetFriendList"} /\ Doing(th) \in CallNames
  BY <1>4, WhatNext, CallsAre
<1>6. "storeFriends" # Doing(th)
  BY <1>5 DEF CallNames
<1>7. At(th)' \in {"isFriend", "GetFriendList"} /\ Doing(th)' = Doing(th)
  BY <1>1, <1>3, <1>4, <1>5, <1>6, Advanced DEF Moves
<1>8. PICK rec : rec = fl[th] /\ rec \in FriendCallType /\ rec.me \in Users /\ rec.friends \in [Users -> Nat]
  BY <1>1, <1>4, FriendsAssumption DEF FriendTypes, About, FriendCallType
<1>9. fl' = [fl EXCEPT ![th].friends = NoFriends] /\ Friends' = [Friends EXCEPT ![rec.me] = rec.friends]
  BY <1>8 DEF StoreFriends
<1>10. fl'[th].friends = NoFriends /\ fl'[th].me = fl[th].me /\ fl'[th].other = fl[th].other
  BY <1>1, <1>9 DEF FriendTypes, FriendCallType
<1>11. Couple(th)' = Couple(th)
  BY <1>10 DEF Couple
<1>12. Friends'[rec.me] = rec.friends /\ \A u \in Users \ {rec.me} : Friends'[u] = Friends[u]
  BY <1>1, <1>8, <1>9 DEF FriendTypes
<1>13. \A u, v : RowsBetween(u, v)' = RowsBetween(u, v)
  BY <1>3 DEF RowsBetween
<1>14. ASSUME NEW u, NEW v, Removing(u, v)
       PROVE  Removing(u, v)'
  BY <1>2, <1>4, <1>14 DEF Removing, OthersWait, Couple
<1>15. CachedAreFriends'
  BY <1>3, <1>4, <1>8, <1>12, <1>13, <1>14 DEF CachedAreFriends, ConverseInv, ReadAreFriends
<1>16. ReadAreFriends(th)' /\ OfFriends(th)' /\ ReadApart(th)
  BY <1>7, <1>10 DEF ReadAreFriends, OfFriends, ReadApart, FindingSteps, CreatingSteps
<1>17. WriteApart(th)
  BY <1>3, <1>7, <1>11, WritesApartStill
<1>18. \A o \in Threads : ReadAreFriends(o)' /\ OfFriends(o)'
  BY <1>2, <1>3, <1>16, OthersConverse
<1> QED BY <1>2, <1>3, <1>15, <1>16, <1>17, <1>18, ConverseAfter

LEMMA CheckIsFriendConverse ==
  ASSUME FriendsInv, RegistryInv, ConverseInv, NEW th \in Threads, CheckIsFriend(th), overlapped' = overlapped
  PROVE  ConverseInv'
<1>1. FriendStep(th) /\ pc \in [Threads -> FriendPlaces] /\ About(th)
  BY InvIs, Zenon DEF FriendStep
<1>2. OthersWait(th) /\ Doing(th)' \in FewNames
  BY <1>1, StepConverse
<1>3. AtStep(th, "isFriend") /\ friend_list' = friend_list /\ Friends' = Friends /\ doubted' = doubted /\ fl' = fl
  BY DEF CheckIsFriend, friendTables, friendCaches
<1>4. PICK p \in FriendPlaces : p = pc[th] /\ Step(p) = "isFriend" /\ At(th) = "isFriend" /\ Call(p) = Doing(th) /\ Doing(th) # "none"
  BY <1>1, <1>3, AtStepIs
<1>5. Busy(th) /\ Op(th) = Doing(th)
  BY <1>1, <1>4, WhereThread
<1>6. Doing(th) \in {"RemoveFriend", "CallFriend", "AddConversation"}
  BY <1>4, WhatFor DEF ConverseInv, FewCalls, FewNames
<1>7. PICK friend \in BOOLEAN : friend <=> Friends[fl[th].me][fl[th].other] > 0
  OBVIOUS
<1>8. AdvanceIf(th, friend)
  BY <1>5, <1>6, <1>7 DEF CheckIsFriend, AdvanceIf
<1>9. Step(Rest(p)) \in {"deleteFriends", "CallFriend", "findConversation"} /\ "isFriend" # Doing(th)
  BY <1>4, <1>6, WhatNext
<1>10. PICK s : /\ Moves(th, s)
                /\ s \in {"deleteFriends", "CallFriend", "findConversation"} \/ s = Doing(th)
                /\ s = "findConversation" => friend
  BY <1>1, <1>3, <1>4, <1>6, <1>8, <1>9, AdvancedIf
<1>11. At(th)' = s /\ Doing(th)' = Doing(th) /\ Couple(th)' = Couple(th)
  BY <1>3, <1>10 DEF Moves, Couple
<1>12. OfFriends(th)'
  <2> SUFFICES ASSUME ~overlapped, Doing(th) = "AddConversation", s = "findConversation", Couple(th) \notin doubted
               PROVE  RowsBetween(fl[th].me, fl[th].other) > 0
    BY <1>3, <1>6, <1>10, <1>11 DEF RowsBetween, OfFriends, FindingSteps, CreatingSteps
  <2>1. PICK me \in Users, other \in Users : me = fl[th].me /\ other = fl[th].other /\ Couple(th) = {me, other}
    BY UsersOfCouple
  <2>2. me # other /\ EndsApart
    BY <2>1 DEF RegistryInv, RegistryAgrees, KnownUsers
  <2>3. Friends[me][other] > 0
    BY <1>7, <1>10, <2>1
  <2>4. ~Removing(me, other)
    BY <1>1, <2>2, WhatFor DEF Removing, At, Doing, EndsApart
  <2> QED BY <2>1, <2>2, <2>3, <2>4 DEF ConverseInv, CachedAreFriends
<1>13. s # "storeFriends"
  BY <1>6, <1>10
<1>14. ReadAreFriends(th)' /\ ReadApart(th)
  BY <1>3, <1>4, <1>11, <1>13 DEF ConverseInv, ReadAreFriends, ReadApart
<1> QED BY <1>2, <1>3, <1>4, <1>11, <1>12, <1>14, WritesApartStill, ConverseMoves

\* Whose cached friend leaves the cache, in the other threads.
LEMMA RemovingStill ==
  ASSUME NEW th \in Threads, OthersWait(th), At(th) # "eraseFriends", NEW u, NEW v, Removing(u, v)
  PROVE  Removing(u, v)'
  BY DEF Removing, OthersWait, Couple

LEMMA DeleteFriendsConverse ==
  ASSUME FriendsInv, RegistryInv, ConverseInv, NEW th \in Threads, DeleteFriends(th), overlapped' = overlapped
  PROVE  ConverseInv'
<1>1. FriendStep(th) /\ pc \in [Threads -> FriendPlaces] /\ FriendTypes /\ About(th)
  BY InvIs, Zenon DEF FriendStep
<1>2. OthersWait(th) /\ Doing(th)' \in FewNames
  BY <1>1, StepConverse
<1>3. AtStep(th, "deleteFriends") /\ Friends' = Friends /\ fl' = fl
  BY DEF DeleteFriends, friendCaches
<1>4. PICK p \in FriendPlaces : p = pc[th] /\ Step(p) = "deleteFriends" /\ At(th) = "deleteFriends" /\ Call(p) = Doing(th)
  BY <1>1, <1>3, AtStepIs
<1>5. Doing(th) = "RemoveFriend" /\ Step(Rest(p)) = "eraseFriends"
  BY <1>4, WhatFor, WhatNext
<1>6. Advance(th) => Moves(th, "eraseFriends")
  BY <1>1, <1>3, <1>4, <1>5, Advanced
<1>7. Return(th) => Moves(th, "RemoveFriend")
  BY <1>1, <1>3, <1>5, Returned
<1>8. Writes(th)
  BY <1>5 DEF Writes, FriendWriters
<1>9. PICK me \in Users : \E other \in Users : me = fl[th].me /\ other = fl[th].other /\ me # other /\ Couple(th) = {me, other}
  BY <1>1, <1>8, CoupleIs DEF Couple
<1>10. PICK other \in Users : me = fl[th].me /\ other = fl[th].other /\ me # other /\ Couple(th) = {me, other}
  BY <1>9
<1>11. ASSUME NEW s \in {"eraseFriends", "RemoveFriend"}, Moves(th, s)
       PROVE  /\ At(th)' = s /\ Doing(th)' = Doing(th) /\ Couple(th)' = Couple(th)
              /\ ReadAreFriends(th)' /\ OfFriends(th)' /\ ReadApart(th)
  BY <1>3, <1>4, <1>5, <1>11 DEF Moves, Couple, ConverseInv, ReadAreFriends, OfFriends, ReadApart
<1>12. CASE friend_list' = [friend_list EXCEPT ![<<me, other>>] = 0, ![<<other, me>>] = 0] /\ Advance(th) /\ UNCHANGED friendDoubts
  <2>1. doubted' = doubted
    BY <1>12 DEF friendDoubts
  <2>2. \A q \in Pairs : q \notin {<<me, other>>, <<other, me>>} => friend_list'[q] = friend_list[q]
    BY <1>1, <1>10, <1>12 DEF Pairs, FriendTypes
  <2>3. ASSUME NEW u \in Users, NEW v \in Users, {u, v} # {me, other}
        PROVE  RowsBetween(u, v)' = RowsBetween(u, v)
    BY <2>2, <2>3 DEF RowsBetween, Pairs
  <2>4. At(th)' = "eraseFriends" /\ Doing(th)' = Doing(th) /\ Couple(th)' = Couple(th)
    BY <1>6, <1>11, <1>12
  <2>5. CachedAreFriends'
    <3> SUFFICES ASSUME NEW u \in Users, NEW v \in Users, u # v, {u, v} \notin doubted, Friends[u][v] > 0
                 PROVE  RowsBetween(u, v)' > 0 \/ Removing(u, v)'
      BY <1>3, <2>1 DEF CachedAreFriends
    <3>1. CASE {u, v} = {me, other}
      BY <1>10, <2>4, <3>1 DEF Removing
    <3>2. CASE {u, v} # {me, other}
      BY <1>2, <1>4, <2>3, <3>2, RemovingStill DEF ConverseInv, CachedAreFriends
    <3> QED BY <3>1, <3>2
  <2>6. ASSUME NEW o \in Threads \ {th}
        PROVE  ReadAreFriends(o)' /\ OfFriends(o)'
    <3>1. At(o)' = At(o) /\ Doing(o)' = Doing(o) /\ fl'[o] = fl[o]
      BY <1>2 DEF OthersWait
    <3>2. ReadAreFriends(o) /\ ReadsApart
      BY DEF ConverseInv
    <3>3. ASSUME NEW v \in Users, At(o) = "storeFriends", fl[o].me # v, {fl[o].me, v} \notin doubted, fl[o].friends[v] > 0
          PROVE  RowsBetween(fl[o].me, v)' > 0
      <4>1. fl[o].friends # NoFriends
        BY <3>3 DEF NoFriends
      <4>2. fl[o].me \in Users
        BY <1>1, <3>3, WhereThread, InvIs, FriendsAssumption DEF About
      <4>3. {fl[o].me, v} # {me, other}
        BY <1>8, <1>10, <3>2, <3>3, <4>1 DEF ReadsApart
      <4>4. RowsBetween(fl[o].me, v) > 0
        BY <3>2, <3>3 DEF ReadAreFriends
      <4>5. PICK reader \in Users : reader = fl[o].me /\ reader = fl'[o].me
        BY <3>1, <4>2
      <4>6. RowsBetween(reader, v)' > 0
        BY <2>3, <4>3, <4>4, <4>5
      <4> QED BY <4>5, <4>6
    <3>4. ReadAreFriends(o)'
      BY <2>1, <3>1, <3>2, <3>3 DEF ReadAreFriends
    <3>5. OfFriends(o)'
      BY <1>5, <3>1 DEF RegistryInv, RegistryAgrees, EndsApart, OfFriends
    <3> QED BY <3>4, <3>5
  <2>7. ReadAreFriends(th)' /\ OfFriends(th)' /\ ReadApart(th)
    BY <1>6, <1>11, <1>12
  <2>8. \A o \in Threads : ReadAreFriends(o)' /\ OfFriends(o)'
    BY <2>6, <2>7
  <2>9. WriteApart(th)
    BY <2>1, <2>4, WritesApartStill
  <2> QED BY <1>2, <2>1, <2>5, <2>7, <2>8, <2>9, ConverseAfter
<1>13. CASE /\ \/ Return(th) /\ UNCHANGED <<doubted, doubled>>
               \/ Advance(th) /\ Doubt({Couple(th)})
            /\ UNCHANGED <<friend_list, partial>>
  BY <1>2, <1>3, <1>4, <1>6, <1>7, <1>11, <1>13, WritesApartStill, ConverseMoves DEF Doubt
<1> QED BY <1>10, <1>12, <1>13, Zenon DEF DeleteFriends

LEMMA EraseFriendsConverse ==
  ASSUME FriendsInv, ConverseInv, NEW th \in Threads, EraseFriends(th), overlapped' = overlapped
  PROVE  ConverseInv'
<1>1. FriendStep(th) /\ pc \in [Threads -> FriendPlaces] /\ FriendTypes /\ About(th)
  BY InvIs, Zenon DEF FriendStep
<1>2. OthersWait(th) /\ Doing(th)' \in FewNames
  BY <1>1, StepConverse
<1>3. AtStep(th, "eraseFriends") /\ friend_list' = friend_list /\ fl' = fl /\ doubted' = doubted /\ Advance(th)
  BY DEF EraseFriends, friendTables, friendDoubts
<1>4. PICK p \in FriendPlaces : p = pc[th] /\ Step(p) = "eraseFriends" /\ At(th) = "eraseFriends" /\ Call(p) = Doing(th)
  BY <1>1, <1>3, AtStepIs
<1>5. Doing(th) = "RemoveFriend" /\ Step(Rest(p)) = "RemoveFriend"
  BY <1>4, WhatFor, WhatNext
<1>6. Moves(th, "RemoveFriend")
  BY <1>1, <1>3, <1>4, <1>5, Advanced
<1>7. At(th)' = "RemoveFriend" /\ Doing(th)' = Doing(th) /\ Couple(th)' = Couple(th)
  BY <1>3, <1>6 DEF Moves, Couple
<1>8. Writes(th)
  BY <1>5 DEF Writes, FriendWriters
<1>9. PICK me \in Users : \E other \in Users : me = fl[th].me /\ other = fl[th].other /\ me # other /\ Couple(th) = {me, other}
  BY <1>1, <1>8, CoupleIs DEF Couple
<1>10. PICK other \in Users : me = fl[th].me /\ other = fl[th].other /\ me # other /\ Couple(th) = {me, other}
  BY <1>9
<1>11. Friends' = [Friends EXCEPT ![me][other] = 0, ![other][me] = 0]
  BY <1>10 DEF EraseFriends
<1>12. /\ \A u, v \in Users : {u, v} # {me, other} => Friends'[u][v] = Friends[u][v]
       /\ Friends'[me][other] = 0 /\ Friends'[other][me] = 0
  BY <1>1, <1>10, <1>11 DEF FriendTypes
<1>13. \A u, v : RowsBetween(u, v)' = RowsBetween(u, v)
  BY <1>3 DEF RowsBetween
<1>14. ASSUME NEW u, NEW v, {u, v} # {me, other}, Removing(u, v)
       PROVE  Removing(u, v)'
  BY <1>2, <1>10, <1>14 DEF Removing, OthersWait, Couple
<1>15. CachedAreFriends'
  BY <1>3, <1>12, <1>13, <1>14 DEF CachedAreFriends, ConverseInv
<1>16. ReadAreFriends(th)' /\ OfFriends(th)' /\ ReadApart(th)
  BY <1>3, <1>4, <1>5, <1>7 DEF ConverseInv, ReadAreFriends, OfFriends, ReadApart
<1>17. WriteApart(th)
  BY <1>3, <1>7, WritesApartStill
<1>18. \A o \in Threads : ReadAreFriends(o)' /\ OfFriends(o)'
  BY <1>2, <1>3, <1>16, OthersConverse
<1> QED BY <1>2, <1>3, <1>15, <1>16, <1>17, <1>18, ConverseAfter

LEMMA FriendReplyConverse ==
  ASSUME FriendsInv, ConverseInv, NEW th \in Threads, FriendReply(th), overlapped' = overlapped
  PROVE  ConverseInv'
<1>1. pc \in [Threads -> FriendPlaces] /\ fl \in [Threads -> FriendCallType]
  BY InvIs DEF FriendTypes
<1>2. /\ fl' = [fl EXCEPT ![th] = NoFriendCall]
      /\ pc' = [pc EXCEPT ![th] = <<>>]
      /\ friend_list' = friend_list /\ Friends' = Friends /\ doubted' = doubted
  BY DEF FriendReply, Finish, friendTables, friendCaches, friendDoubts
<1>3. <<>> \in FriendPlaces /\ Step(<<>>) = "idle" /\ Call(<<>>) = "none"
  BY DEF FriendPlaces, Step, Call
<1>4. /\ At(th)' = "idle" /\ Doing(th)' = "none"
      /\ \A o \in Threads \ {th} : At(o)' = At(o) /\ Doing(o)' = Doing(o)
  BY <1>1, <1>2, <1>3, MovedTo
<1>5. OthersWait(th) /\ fl'[th] = NoFriendCall
  BY <1>1, <1>2, <1>4 DEF OthersWait
<1>6. At(th) # "eraseFriends"
  BY <1>1, WhereThread DEF FriendReply, FriendOps, FriendWriters
<1>7. ReadAreFriends(th)' /\ OfFriends(th)' /\ ReadApart(th) /\ WriteApart(th) /\ Doing(th)' \in FewNames
  BY <1>4, <1>5 DEF ReadAreFriends, OfFriends, ReadApart, WriteApart, Writes, FriendWriters, FewNames, NoFriendCall
<1> QED BY <1>2, <1>5, <1>6, <1>7, ConverseMoves

LEMMA FriendStepConverse ==
  ASSUME FriendsInv, RegistryInv, ConverseInv, NEW th \in Threads, FriendStep(th), UNCHANGED registryVars
  PROVE  ConverseInv'
  BY FewSteps, ListAskedConverse, SelectFriendsConverse, StoreFriendsConverse,
     CheckIsFriendConverse, DeleteFriendsConverse, EraseFriendsConverse, FriendReplyConverse DEF
     registryVars, ConverseInv

\* Nobody is here, and nothing is cached: at the beginning and after a restart.
LEMMA NobodyConverses ==
  ASSUME pc' = Idle, Friends' = [u \in Users |-> NoFriends], fl' = [th \in Threads |-> NoFriendCall]
  PROVE  ConverseInv'
<1>1. \A o \in Threads : At(o)' = "idle" /\ Doing(o)' = "none" /\ fl'[o].friends = NoFriends
  BY DEF Step, Call, At, Doing, Idle, NoFriendCall
<1>2. FewCalls' /\ ReadsApart'
  BY <1>1 DEF FewCalls, ReadsApart
<1>3. \A u, v \in Users : Friends'[u][v] = 0
  BY DEF NoFriends
<1>4. CachedAreFriends'
  BY <1>3 DEF CachedAreFriends
<1>5. \A o \in Threads : ReadAreFriends(o)' /\ OfFriends(o)'
  BY <1>1 DEF ReadAreFriends, OfFriends
<1> QED BY <1>2, <1>4, <1>5 DEF ConverseInv

LEMMA NobodyConversesYet ==
  ASSUME ConversationsInit, pc = Idle
  PROVE  ConverseInv
<1>1. Friends = [u \in Users |-> NoFriends] /\ fl = [th \in Threads |-> NoFriendCall]
  BY DEF ConversationsInit, FriendsStart
<1>2. \A o \in Threads : At(o) = "idle" /\ Doing(o) = "none" /\ fl[o].friends = NoFriends
  BY <1>1 DEF Step, Call, At, Doing, Idle, NoFriendCall
<1>3. FewCalls /\ ReadsApart
  BY <1>2 DEF FewCalls, ReadsApart
<1>4. \A u, v \in Users : Friends[u][v] = 0
  BY <1>1 DEF NoFriends
<1>5. CachedAreFriends
  BY <1>4 DEF CachedAreFriends
<1>6. \A o \in Threads : ReadAreFriends(o) /\ OfFriends(o)
  BY <1>2 DEF ReadAreFriends, OfFriends
<1> QED BY <1>3, <1>5, <1>6 DEF ConverseInv

\* A conversation's steps never clear that calls overlapped.
LEMMA OverlapStays ==
  ASSUME NEW th \in Threads, ConversationStep(th)
  PROVE  ~overlapped' => ~overlapped
<1>1. ConversationFault => overlapped'
  BY DEF ConversationFault
<1>2. NoFault => overlapped' = overlapped
  BY DEF NoFault
<1>3. CASE FindConversation2Ids(th) \/ CacheConversation(th) \/ AddConversationsForUserToCache(th)
  BY <1>1, <1>2, <1>3 DEF FindConversation2Ids, CacheConversation, AddConversationsForUserToCache
<1>4. CASE FoundConversation(th)
  BY <1>4 DEF FoundConversation, registryVars
<1>5. CASE InsertConversation(th) \/ InsertCaller(th) \/ InsertOther(th)
  BY <1>1, <1>2, <1>5 DEF InsertConversation, InsertCaller, InsertOther, InsertParticipant
<1>6. CASE SelectConversations(th) \/ SkipCached(th) \/ NextConversation(th) \/ SelectParticipants(th) \/ ConversationReply(th)
  BY <1>1, <1>2, <1>6 DEF SelectConversations, SkipCached, NextConversation, SelectParticipants,
     ConversationReply
<1> QED BY <1>3, <1>4, <1>5, <1>6, Zenon DEF ConversationStep

LEMMA ConverseKeeps ==
  ASSUME FriendsInv, RegistryInv, ConverseInv, ConversationsNext
  PROVE  ConverseInv'
  BY ConversationReplyConverse, InvIs, ConversationGoes, OverlapStays, RegistryGoesConverse,
     ConversationCallIs, RegistryBeginConverse, RemoveConverse, NobodyConverses, FriendStepConverse
     DEF ConversationsRestart, FriendsRestart, ConversationsNext

LEMMA ConverseStays ==
  ASSUME ConverseInv, UNCHANGED <<pc, friendVars, registryVars>>
  PROVE  ConverseInv'
<1>1. /\ pc' = pc /\ fl' = fl /\ Friends' = Friends /\ friend_list' = friend_list /\ doubted' = doubted
      /\ overlapped' = overlapped
  BY DEF friendVars, friendTables, friendCaches, friendDoubts, registryVars
<1>2. \A o : At(o)' = At(o) /\ Doing(o)' = Doing(o) /\ Couple(o)' = Couple(o) /\ Writes(o)' = Writes(o)
  BY <1>1 DEF At, Doing, Couple, Writes
<1>3. \A u, v : RowsBetween(u, v)' = RowsBetween(u, v) /\ Removing(u, v)' = Removing(u, v)
  BY <1>1 DEF RowsBetween, Removing, At, Couple
<1>4. FewCalls' /\ ReadsApart'
  BY <1>1, <1>2 DEF ConverseInv, FewCalls, ReadsApart
<1>5. CachedAreFriends'
  BY <1>1, <1>3 DEF ConverseInv, CachedAreFriends
<1>6. ASSUME NEW o \in Threads
      PROVE  ReadAreFriends(o)' /\ OfFriends(o)'
  BY <1>1, <1>2, <1>3 DEF ConverseInv, ReadAreFriends, OfFriends
<1> QED BY <1>4, <1>5, <1>6 DEF ConverseInv

LEMMA ConverseAlways == ConversationsSpec => [](FriendsInv /\ RegistryInv /\ ConverseInv)
<1>1. ConversationsInit /\ pc = Idle => ConverseInv
  BY NobodyConversesYet
<1>2. FriendsInv /\ RegistryInv /\ ConverseInv /\ [ConversationsNext]_<<pc, friendVars, registryVars>> => ConverseInv'
  BY ConverseKeeps, ConverseStays
<1> QED BY <1>1, <1>2, RegistryAlways, PTL DEF ConversationsSpec

\* Only InsertConversation makes one.
LEMMA OnlyInsertMakes ==
  ASSUME ConversationsNext, conversations' # conversations
  PROVE  \E th \in Threads : InsertConversation(th) /\ Advance(th) /\ NoFault
<1>1. ~ConversationsRestart
  BY DEF ConversationsRestart, conversationTables
<1>2. ASSUME NEW th \in Threads
      PROVE  ~ConversationCall(th)
  BY ConversationCallIs DEF RemoveFriendMeanwhile, conversationTables
<1>3. ~UNCHANGED registryVars
  BY DEF registryVars, conversationTables
<1>4. PICK th \in Threads : ConversationStep(th)
  BY <1>1, <1>2, <1>3 DEF ConversationsNext
<1>5. ~(FindConversation2Ids(th) \/ CacheConversation(th) \/ AddConversationsForUserToCache(th))
  BY DEF FindConversation2Ids, CacheConversation, AddConversationsForUserToCache, conversationTables
<1>6. ~(FoundConversation(th) \/ InsertCaller(th) \/ InsertOther(th))
  BY DEF FoundConversation, InsertCaller, InsertOther, InsertParticipant, registryVars, conversationTables
<1>7. ~(SelectConversations(th) \/ SkipCached(th) \/ NextConversation(th) \/ SelectParticipants(th) \/ ConversationReply(th))
  BY DEF SelectConversations, SkipCached, NextConversation, SelectParticipants, ConversationReply, conversationTables
<1>8. InsertConversation(th)
  BY <1>4, <1>5, <1>6, <1>7, Zenon DEF ConversationStep
<1>9. Advance(th) /\ NoFault
  BY <1>8 DEF InsertConversation
<1> QED BY <1>8, <1>9

LEMMA MadeBetweenFriends ==
  ASSUME FriendsInv, ConverseInv, ConversationsNext, conversations' # conversations, ~overlapped
  PROVE  \E th \in Threads :
             /\ AtStep(th, "insertConversation") /\ ~AtStep(th, "insertConversation")'
             /\ RowsBetween(fl[th].me, fl[th].other) > 0 \/ Couple(th) \in doubted
<1>1. PICK th \in Threads : InsertConversation(th) /\ Advance(th) /\ NoFault
  BY OnlyInsertMakes
<1>2. pc \in [Threads -> FriendPlaces]
  BY InvIs
<1>3. AtStep(th, "insertConversation") /\ UNCHANGED friendVars
  BY <1>1 DEF InsertConversation
<1>4. AdvanceIf(th, TRUE)
  BY <1>1 DEF AdvanceIf
<1>5. Doing(th) = "AddConversation" /\ RegistryGoes(th, "insertConversation", "insertCaller")
  BY <1>2, <1>3, <1>4, InsertGoes
<1>6. At(th) = "insertConversation" /\ At(th)' = "insertCaller" /\ pc' \in [Threads -> FriendPlaces]
  BY <1>5, LocalsAre
<1>7. ~AtStep(th, "insertConversation")'
  BY <1>6 DEF AtStep, Busy, At, Step
<1>8. RowsBetween(fl[th].me, fl[th].other) > 0 \/ Couple(th) \in doubted
  BY <1>5, <1>6 DEF ConverseInv, OfFriends, CreatingSteps
<1> QED BY <1>3, <1>7, <1>8

\* A conversation is created only between friends: IsFriend may answer from the caller's cached
\* list and statements later, the table still says so when the conversation is inserted, unless
\* the friendship was ending, calls of the couple overlapped or a statement failed.
THEOREM ConversationsBeginBetweenFriends == ConversationsSpec => FriendsConverse
<1> DEFINE Made == conversations' > conversations /\ ~overlapped =>
           \E th \in Threads :
               /\ AtStep(th, "insertConversation") /\ ~AtStep(th, "insertConversation")'
               /\ RowsBetween(fl[th].me, fl[th].other) > 0 \/ Couple(th) \in doubted
<1>1. FriendsInv /\ RegistryInv /\ ConverseInv /\ [ConversationsNext]_<<pc, friendVars, registryVars>> => [Made]_conversations
  BY MadeBetweenFriends DEF registryVars, conversationTables
<1> QED BY <1>1, ConverseAlways, PTL DEF ConversationsSpec, FriendsConverse

(***************************************************************************)
(* The messages of a conversation.                                         *)
(***************************************************************************)

(***************************************************************************)
(* The places of a call: what a thread has still to do.  M: posting.       *)
(* E, D: editing and deleting.  R: a page of the history.  G: the first    *)
(* download.  A: opening the conversation.                                 *)
(***************************************************************************)
\* What a thread may have still to do.
MessageSteps == MessageOps \cup
    {"insertMessage", "pushFront", "editable", "updateEdit", "showEdit", "updateDelete", "showDelete", "range",
     "selectRange", "missing", "participants", "firstPage", "pushFirstPage", "found"}

M1 == <<"insertMessage", "pushFront", "Message">>
M2 == <<"pushFront", "Message">>
M3 == <<"Message">>
E1 == <<"editable", "updateEdit", "showEdit", "MessageEdit">>
E2 == <<"updateEdit", "showEdit", "MessageEdit">>
E3 == <<"showEdit", "MessageEdit">>
E4 == <<"MessageEdit">>
D1 == <<"editable", "updateDelete", "showDelete", "MessageDelete">>
D2 == <<"updateDelete", "showDelete", "MessageDelete">>
D3 == <<"showDelete", "MessageDelete">>
D4 == <<"MessageDelete">>
R1 == <<"range", "LoadMoreMessages">>
R2 == <<"selectRange", "range", "LoadMoreMessages">>
R3 == <<"LoadMoreMessages">>
G1 == <<"missing", "participants", "firstPage", "pushFirstPage", "GetConversations">>
G2 == <<"participants", "firstPage", "pushFirstPage", "GetConversations">>
G3 == <<"firstPage", "pushFirstPage", "GetConversations">>
G4 == <<"pushFirstPage", "GetConversations">>
G5 == <<"GetConversations">>
A1 == <<"found", "AddConversation">>
A2 == <<"AddConversation">>

PostPlaces == {M1, M2, M3}
ChangePlaces == {E1, E2, E3, E4, D1, D2, D3, D4}
ReadPlaces == {R1, R2, R3, G1, G2, G3, G4, G5}
OtherPlaces == {<<>>, A1, A2}
Places == PostPlaces \cup ChangePlaces \cup ReadPlaces \cup OtherPlaces

(***************************************************************************)
(* The invariant.                                                          *)
(***************************************************************************)
\* Calls that overlap when nothing is mixed up.
Apart ==
    ~mixed_up => \A th, o \in Threads : th # o =>
        /\ pc[th] \in ReadPlaces => pc[o] \notin PostPlaces \cup ChangePlaces \cup ReadPlaces
        /\ pc[th] \in PostPlaces => pc[o] \notin PostPlaces

\* Without an object nothing is cached, and nobody is in a call that needs one.
UnknownEmpty ==
    cached = "no" =>
        /\ MessagesDeque = <<>>
        /\ \A th \in Threads : pc[th] \in {G1, G2, G5} \cup OtherPlaces

Pending == IF \E th \in Threads : pc[th] = M2 THEN 1 ELSE 0

\* The rows s are those from offset on, newest first.
AreNewest(s, offset) == \A i \in DOMAIN s : s[i].id + i + offset = Len(messages) + 1
AreRows(s) == \A i \in DOMAIN s : s[i].status = messages[s[i].id]

Newest == ~mixed_up => AreNewest(MessagesDeque, Pending)

\* Memory shows of id what its row says.
Agree(id) == \A i \in DOMAIN MessagesDeque : MessagesDeque[i].id = id => MessagesDeque[i].status = messages[id]

Changed(id) == \E th \in Threads : pc[th] \in ChangePlaces /\ cm[th].id = id
Shows == ~mixed_up => \A id \in MessageIds : id \in contested \/ Changed(id) \/ Agree(id)

\* Two change one message only when that is contested, and none changes the one being posted.
ChangesApart ==
    /\ \A th, o \in Threads :
           th # o /\ pc[th] \in ChangePlaces /\ pc[o] \in ChangePlaces /\ cm[th].id = cm[o].id /\ cm[th].id # 0 =>
               cm[th].id \in contested
    /\ ~mixed_up => \A th, o \in Threads : pc[th] = M2 /\ pc[o] \in ChangePlaces => cm[o].id < Len(messages)

Posted(th) == pc[th] = M2 => cm[th].id = Len(messages) /\ cm[th].id # 0 /\ messages[cm[th].id] = "Sent"

Change(th) ==
    /\ pc[th] \in {M2, E2, E3, D2, D3} => cm[th].id \in MessageIds
    /\ pc[th] \in ChangePlaces /\ ~mixed_up /\ cm[th].id \in MessageIds \ contested =>
           /\ pc[th] = E3 => messages[cm[th].id] = "Edited"
           /\ pc[th] = D3 => messages[cm[th].id] = "Deleted"
           /\ pc[th] \notin {E3, D3} => Agree(cm[th].id)

Downloaded(th) ==
    pc[th] \in {G2, G3, G4} /\ ~mixed_up =>
        MessagesDeque = <<>> /\ AreNewest(cm[th].rows, 0) /\ AreRows(cm[th].rows)

Page(th) ==
    /\ cm[th].fetched => pc[th] = R3
    /\ pc[th] = R2 => cm[th].offset \in Nat \ {0} /\ cm[th].count \in Nat \ {0}
    /\ pc[th] = R2 /\ ~mixed_up => Len(MessagesDeque) < cm[th].offset + cm[th].count
    /\ cm[th].fetched /\ ~mixed_up =>
          \A i \in cm[th].offset + 1..cm[th].offset + cm[th].count : Len(messages) + 1 - i \in MessageIds =>
              \E j \in DOMAIN cm[th].answer : cm[th].answer[j].id = Len(messages) + 1 - i

Locals(th) ==
    /\ pc[th] \in {<<>>, M1, E1, D1, R1, G1, G2, G3, A1, A2} => cm[th] = NoMessage

MessageCall == [id : Nat, offset : Nat, count : Nat, rows : Seq(Entry(MessageIds)), answer : Seq(Entry(MessageIds)),
                fetched : BOOLEAN]

HistoryTypes ==
    /\ messages \in Seq(Statuses)
    /\ cached \in {"no", "known", "unknown"}
    /\ MessagesDeque \in Seq(Entry(MessageIds))
    /\ pc \in [Threads -> Places]
    /\ cm \in [Threads -> MessageCall]
    /\ \A th \in Threads : cm[th].id \in 0..Len(messages)
    /\ mixed_up \in BOOLEAN
    /\ contested \subseteq MessageIds
    /\ post_faults \in 0..MaxPostFaults

ThreadInv(th) == Change(th) /\ Downloaded(th) /\ Page(th) /\ Locals(th) /\ (~mixed_up => Posted(th))

HistoryInv ==
    /\ HistoryTypes
    /\ Apart /\ UnknownEmpty /\ Newest /\ Shows /\ ChangesApart
    /\ \A th \in Threads : ThreadInv(th)

LEMMA PostPlacesAre ==
  /\ M1 # <<>> /\ Head(M1) = "insertMessage" /\ Tail(M1) = M2 /\ M1[Len(M1)] = "Message"
  /\ M2 # <<>> /\ Head(M2) = "pushFront" /\ Tail(M2) = M3 /\ M2[Len(M2)] = "Message"
  /\ M3 # <<>> /\ Head(M3) = "Message" /\ Tail(M3) = <<>> /\ M3[Len(M3)] = "Message"
  BY DEF M1, M2, M3

LEMMA EditPlacesAre ==
  /\ E1 # <<>> /\ Head(E1) = "editable" /\ Tail(E1) = E2 /\ E1[Len(E1)] = "MessageEdit"
  /\ E2 # <<>> /\ Head(E2) = "updateEdit" /\ Tail(E2) = E3 /\ E2[Len(E2)] = "MessageEdit"
  /\ E3 # <<>> /\ Head(E3) = "showEdit" /\ Tail(E3) = E4 /\ E3[Len(E3)] = "MessageEdit"
  /\ E4 # <<>> /\ Head(E4) = "MessageEdit" /\ Tail(E4) = <<>> /\ E4[Len(E4)] = "MessageEdit"
  BY DEF E1, E2, E3, E4

LEMMA DeletePlacesAre ==
  /\ D1 # <<>> /\ Head(D1) = "editable" /\ Tail(D1) = D2 /\ D1[Len(D1)] = "MessageDelete"
  /\ D2 # <<>> /\ Head(D2) = "updateDelete" /\ Tail(D2) = D3 /\ D2[Len(D2)] = "MessageDelete"
  /\ D3 # <<>> /\ Head(D3) = "showDelete" /\ Tail(D3) = D4 /\ D3[Len(D3)] = "MessageDelete"
  /\ D4 # <<>> /\ Head(D4) = "MessageDelete" /\ Tail(D4) = <<>> /\ D4[Len(D4)] = "MessageDelete"
  BY DEF D1, D2, D3, D4

LEMMA PagePlacesAre ==
  /\ R1 # <<>> /\ Head(R1) = "range" /\ R1[Len(R1)] = "LoadMoreMessages"
  /\ R2 # <<>> /\ Head(R2) = "selectRange" /\ R2[Len(R2)] = "LoadMoreMessages"
  /\ R3 # <<>> /\ Head(R3) = "LoadMoreMessages" /\ Tail(R3) = <<>> /\ R3[Len(R3)] = "LoadMoreMessages"
  BY DEF R1, R2, R3

LEMMA DownloadPlacesAre ==
  /\ G1 # <<>> /\ Head(G1) = "missing" /\ Tail(G1) = G2 /\ G1[Len(G1)] = "GetConversations"
  /\ G2 # <<>> /\ Head(G2) = "participants" /\ Tail(G2) = G3 /\ G2[Len(G2)] = "GetConversations"
  /\ G3 # <<>> /\ Head(G3) = "firstPage" /\ Tail(G3) = G4 /\ G3[Len(G3)] = "GetConversations"
  /\ G4 # <<>> /\ Head(G4) = "pushFirstPage" /\ Tail(G4) = G5 /\ G4[Len(G4)] = "GetConversations"
  /\ G5 # <<>> /\ Head(G5) = "GetConversations" /\ Tail(G5) = <<>> /\ G5[Len(G5)] = "GetConversations"
  BY DEF G1, G2, G3, G4, G5

LEMMA OpenPlacesAre ==
  /\ A1 # <<>> /\ Head(A1) = "found" /\ Tail(A1) = A2 /\ A1[Len(A1)] = "AddConversation"
  /\ A2 # <<>> /\ Head(A2) = "AddConversation" /\ Tail(A2) = <<>> /\ A2[Len(A2)] = "AddConversation"
  BY DEF A1, A2

\* Where calls begin and replies are.
LEMMA MessagesAppendIs ==
  ASSUME NEW S, NEW s \in Seq(S), NEW r \in Seq(S), NEW e \in S, Len(r) = Len(s) + 1, r[Len(r)] = e,
         \A i \in 1..Len(s) : r[i] = s[i]
  PROVE  Append(s, e) = r
  BY SeqEqual

LEMMA CallsBegin ==
  /\ Append(AddMessage, "Message") = M1
  /\ Append(EditMessage, "MessageEdit") = E1
  /\ Append(DeleteMessage, "MessageDelete") = D1
  /\ Append(GetConversationMessagesForRange, "LoadMoreMessages") = R1
  /\ Append(FirstDownload, "GetConversations") = G1
  /\ Append(FindOnly, "AddConversation") = A1
  <1>1. Append(AddMessage, "Message") = M1
    <2>1. AddMessage \in Seq(MessageSteps) /\ M1 \in Seq(MessageSteps) /\ Len(M1) = Len(AddMessage) + 1 /\ M1[Len(M1)] = "Message"
      BY DEF AddMessage, M1, MessageSteps, MessageOps, Changes, Posts, Reads
    <2>2. \A i \in 1..Len(AddMessage) : M1[i] = AddMessage[i]
      BY DEF AddMessage, M1
    <2> QED BY <2>1, <2>2, MessagesAppendIs
  <1>2. Append(EditMessage, "MessageEdit") = E1
    <2>1. EditMessage \in Seq(MessageSteps) /\ E1 \in Seq(MessageSteps) /\ Len(E1) = Len(EditMessage) + 1 /\ E1[Len(E1)] = "MessageEdit"
      BY DEF EditMessage, E1, MessageSteps, MessageOps, Changes, Posts, Reads
    <2>2. \A i \in 1..Len(EditMessage) : E1[i] = EditMessage[i]
      BY DEF EditMessage, E1
    <2> QED BY <2>1, <2>2, MessagesAppendIs
  <1>3. Append(DeleteMessage, "MessageDelete") = D1
    <2>1. DeleteMessage \in Seq(MessageSteps) /\ D1 \in Seq(MessageSteps) /\ Len(D1) = Len(DeleteMessage) + 1 /\ D1[Len(D1)] = "MessageDelete"
      BY DEF DeleteMessage, D1, MessageSteps, MessageOps, Changes, Posts, Reads
    <2>2. \A i \in 1..Len(DeleteMessage) : D1[i] = DeleteMessage[i]
      BY DEF DeleteMessage, D1
    <2> QED BY <2>1, <2>2, MessagesAppendIs
  <1>4. Append(GetConversationMessagesForRange, "LoadMoreMessages") = R1
    <2>1. /\ GetConversationMessagesForRange \in Seq(MessageSteps) /\ R1 \in Seq(MessageSteps)
          /\ Len(R1) = Len(GetConversationMessagesForRange) + 1 /\ R1[Len(R1)] = "LoadMoreMessages"
      BY DEF GetConversationMessagesForRange, R1, MessageSteps, MessageOps, Changes, Posts, Reads
    <2>2. \A i \in 1..Len(GetConversationMessagesForRange) : R1[i] = GetConversationMessagesForRange[i]
      BY DEF GetConversationMessagesForRange, R1
    <2> QED BY <2>1, <2>2, MessagesAppendIs
  <1>5. Append(FirstDownload, "GetConversations") = G1
    <2>1. /\ FirstDownload \in Seq(MessageSteps) /\ G1 \in Seq(MessageSteps)
          /\ Len(G1) = Len(FirstDownload) + 1 /\ G1[Len(G1)] = "GetConversations"
      BY DEF FirstDownload, G1, MessageSteps, MessageOps, Changes, Posts, Reads
    <2>2. \A i \in 1..Len(FirstDownload) : G1[i] = FirstDownload[i]
      BY DEF FirstDownload, G1
    <2> QED BY <2>1, <2>2, MessagesAppendIs
  <1>6. Append(FindOnly, "AddConversation") = A1
    <2>1. /\ FindOnly \in Seq(MessageSteps) /\ A1 \in Seq(MessageSteps)
          /\ Len(A1) = Len(FindOnly) + 1 /\ A1[Len(A1)] = "AddConversation"
      BY DEF FindOnly, A1, MessageSteps, MessageOps, Changes, Posts, Reads
    <2>2. \A i \in 1..Len(FindOnly) : A1[i] = FindOnly[i]
      BY DEF FindOnly, A1
    <2> QED BY <2>1, <2>2, MessagesAppendIs
  <1> QED BY <1>1, <1>2, <1>3, <1>4, <1>5, <1>6

LEMMA SelectComesFirst == <<"selectRange">> \o R1 = R2
  <1> DEFINE sel == <<"selectRange">>
  <1>0. sel \in Seq(MessageSteps) /\ Len(sel) = 1 /\ sel[1] = "selectRange"
    BY DEF MessageSteps
  <1>4. R2 \in Seq(MessageSteps) /\ R1 \in Seq(MessageSteps) /\ Len(R1) = 2 /\ Len(R2) = 3
    BY DEF R1, R2, MessageSteps, MessageOps, Reads
  <1> HIDE DEF sel
  <1>1. /\ sel \o R1 \in Seq(MessageSteps) /\ Len(sel \o R1) = Len(sel) + Len(R1)
        /\ \A i \in 1..Len(sel) + Len(R1) : (sel \o R1)[i] = IF i <= Len(sel) THEN sel[i] ELSE R1[i - Len(sel)]
    BY <1>0, <1>4, ConcatProperties
  <1>2. Len(sel \o R1) = 3
    BY <1>0, <1>1, <1>4
  <1>3. \A i \in 1..3 : (sel \o R1)[i] = R2[i]
    BY <1>0, <1>1, <1>4 DEF R1, R2
  <1>5. sel \o R1 = R2
    BY <1>1, <1>2, <1>3, <1>4, SeqEqual
  <1> QED BY <1>5 DEF sel

LEMMA RepliesAre ==
  /\ <<"Message">> = M3 /\ <<"MessageEdit">> = E4 /\ <<"MessageDelete">> = D4 /\ <<"LoadMoreMessages">> = R3
  /\ <<"GetConversations">> = G5 /\ <<"AddConversation">> = A2
  BY DEF M3, E4, D4, R3, G5, A2

LEMMA HeadIs ==
  ASSUME NEW p \in Places \ {<<>>}
  PROVE  /\ Head(p) = "insertMessage" => p = M1
         /\ Head(p) = "pushFront" => p = M2
         /\ Head(p) = "editable" => p \in {E1, D1}
         /\ Head(p) = "updateEdit" => p = E2
         /\ Head(p) = "showEdit" => p = E3
         /\ Head(p) = "updateDelete" => p = D2
         /\ Head(p) = "showDelete" => p = D3
         /\ Head(p) = "range" => p = R1
         /\ Head(p) = "selectRange" => p = R2
         /\ Head(p) = "missing" => p = G1
         /\ Head(p) = "participants" => p = G2
         /\ Head(p) = "firstPage" => p = G3
         /\ Head(p) = "pushFirstPage" => p = G4
         /\ Head(p) = "found" => p = A1
         /\ Head(p) \in MessageOps => p \in {M3, E4, D4, R3, G5, A2}
  <1>1. CASE p \in PostPlaces
    BY <1>1, PostPlacesAre DEF MessageOps, Changes, Posts, Reads, PostPlaces
  <1>2. CASE p \in ChangePlaces
    BY <1>2, EditPlacesAre, DeletePlacesAre DEF MessageOps, Changes, Posts, Reads, ChangePlaces
  <1>3. CASE p \in ReadPlaces
    BY <1>3, PagePlacesAre, DownloadPlacesAre DEF MessageOps, Changes, Posts, Reads, ReadPlaces
  <1>4. CASE p \in {A1, A2}
    BY <1>4, OpenPlacesAre DEF MessageOps, Changes, Posts, Reads
  <1> QED BY <1>1, <1>2, <1>3, <1>4 DEF Places, OtherPlaces

\* The op of a place.
LEMMA OpIs ==
  /\ \A p \in PostPlaces : p # <<>> /\ p[Len(p)] = "Message"
  /\ \A p \in ChangePlaces : p # <<>> /\ p[Len(p)] \in Changes
  /\ \A p \in {R1, R2, R3} : p # <<>> /\ p[Len(p)] = "LoadMoreMessages"
  /\ \A p \in {G1, G2, G3, G4, G5} : p # <<>> /\ p[Len(p)] = "GetConversations"
  /\ \A p \in {A1, A2} : p # <<>> /\ p[Len(p)] = "AddConversation"
  <1>1. \A p \in PostPlaces : p # <<>> /\ p[Len(p)] = "Message"
    BY PostPlacesAre DEF PostPlaces
  <1>2. \A p \in ChangePlaces : p # <<>> /\ p[Len(p)] \in Changes
    BY EditPlacesAre, DeletePlacesAre DEF ChangePlaces, Changes
  <1>3. \A p \in {R1, R2, R3} : p # <<>> /\ p[Len(p)] = "LoadMoreMessages"
    BY PagePlacesAre
  <1>4. \A p \in {G1, G2, G3, G4, G5} : p # <<>> /\ p[Len(p)] = "GetConversations"
    BY DownloadPlacesAre
  <1>5. \A p \in {A1, A2} : p # <<>> /\ p[Len(p)] = "AddConversation"
    BY OpenPlacesAre
  <1> QED BY <1>1, <1>2, <1>3, <1>4, <1>5

LEMMA KindIs ==
  ASSUME NEW p \in Places
  PROVE  /\ (p # <<>> /\ p[Len(p)] \in Posts) <=> p \in PostPlaces
         /\ (p # <<>> /\ p[Len(p)] \in Changes) <=> p \in ChangePlaces
         /\ (p # <<>> /\ p[Len(p)] \in Reads) <=> p \in ReadPlaces
         /\ (p # <<>> /\ p[Len(p)] \in {"GetConversations"}) <=> p \in {G1, G2, G3, G4, G5}
  <1> DEFINE op == p[Len(p)]
  <1>1. \/ p = <<>>
        \/ p \in PostPlaces /\ op = "Message"
        \/ p \in ChangePlaces /\ op \in Changes
        \/ p \in {R1, R2, R3} /\ op = "LoadMoreMessages"
        \/ p \in {G1, G2, G3, G4, G5} /\ op = "GetConversations"
        \/ p \in {A1, A2} /\ op = "AddConversation"
    BY OpIs DEF Places, OtherPlaces, ReadPlaces
  <1>2. /\ p \in PostPlaces => p # <<>> /\ op = "Message"
        /\ p \in ChangePlaces => p # <<>> /\ op \in Changes
        /\ p \in {R1, R2, R3} => p # <<>> /\ op = "LoadMoreMessages"
        /\ p \in {G1, G2, G3, G4, G5} => p # <<>> /\ op = "GetConversations"
    BY OpIs
  <1>3. ReadPlaces = {R1, R2, R3} \cup {G1, G2, G3, G4, G5}
    BY DEF ReadPlaces
  <1>4. \A o \in Changes : o \notin Posts /\ o \notin Reads /\ o # "GetConversations" /\ o # "Message" /\ o # "LoadMoreMessages"
                           /\ o # "AddConversation"
    BY DEF Changes, Posts, Reads
  <1>5. Posts = {"Message"} /\ Reads = {"LoadMoreMessages", "GetConversations"}
    BY DEF Posts, Reads
  <1>6. "Message" \notin Changes /\ "LoadMoreMessages" \notin Changes /\ "GetConversations" \notin Changes
        /\ "AddConversation" \notin Changes
    BY DEF Changes
  <1> HIDE DEF op
  <1>7. /\ (p # <<>> /\ op \in Posts) <=> p \in PostPlaces
        /\ (p # <<>> /\ op \in Changes) <=> p \in ChangePlaces
    BY <1>1, <1>2, <1>4, <1>5, <1>6
  <1>8. /\ (p # <<>> /\ op \in Reads) <=> p \in ReadPlaces
        /\ (p # <<>> /\ op \in {"GetConversations"}) <=> p \in {G1, G2, G3, G4, G5}
    BY <1>1, <1>2, <1>3, <1>4, <1>5, <1>6
  <1> QED BY <1>7, <1>8 DEF op

\* Places are told apart by their first step, the two that look for a message by their last.
LEMMA PlacesApart ==
  /\ \A p \in Places : p = <<>> \/ p # <<>>
  /\ Head(M1) = "insertMessage" /\ Head(M2) = "pushFront" /\ Head(M3) = "Message"
  /\ Head(E1) = "editable" /\ Head(E2) = "updateEdit" /\ Head(E3) = "showEdit" /\ Head(E4) = "MessageEdit"
  /\ Head(D1) = "editable" /\ Head(D2) = "updateDelete" /\ Head(D3) = "showDelete" /\ Head(D4) = "MessageDelete"
  /\ Head(R1) = "range" /\ Head(R2) = "selectRange" /\ Head(R3) = "LoadMoreMessages"
  /\ Head(G1) = "missing" /\ Head(G2) = "participants" /\ Head(G3) = "firstPage" /\ Head(G4) = "pushFirstPage"
  /\ Head(G5) = "GetConversations" /\ Head(A1) = "found" /\ Head(A2) = "AddConversation"
  /\ <<>> \notin PostPlaces \cup ChangePlaces \cup ReadPlaces /\ <<>> \notin {A1, A2}
  BY PostPlacesAre, EditPlacesAre, DeletePlacesAre, PagePlacesAre, DownloadPlacesAre, OpenPlacesAre
  DEF PostPlaces, ChangePlaces, ReadPlaces

\* The kinds of calls have no place in common.
LEMMA KindsApart ==
  /\ PostPlaces \cap ChangePlaces = {} /\ PostPlaces \cap ReadPlaces = {} /\ ChangePlaces \cap ReadPlaces = {}
  /\ OtherPlaces \cap (PostPlaces \cup ChangePlaces \cup ReadPlaces) = {}
  BY PlacesApart DEF PostPlaces, ChangePlaces, ReadPlaces, OtherPlaces

LEMMA StepPlaces ==
  ASSUME pc \in [Threads -> Places], NEW th \in Threads
  PROVE  /\ Busy(th) <=> pc[th] # <<>>
         /\ AtStep(th, "insertMessage") => pc[th] = M1
         /\ AtStep(th, "pushFront") <=> pc[th] = M2
         /\ AtStep(th, "editable") => pc[th] \in {E1, D1}
         /\ AtStep(th, "updateEdit") => pc[th] = E2
         /\ AtStep(th, "showEdit") => pc[th] = E3
         /\ AtStep(th, "updateDelete") => pc[th] = D2
         /\ AtStep(th, "showDelete") => pc[th] = D3
         /\ AtStep(th, "range") => pc[th] = R1
         /\ AtStep(th, "selectRange") => pc[th] = R2
         /\ AtStep(th, "missing") => pc[th] = G1
         /\ AtStep(th, "participants") => pc[th] = G2
         /\ AtStep(th, "firstPage") => pc[th] = G3
         /\ AtStep(th, "pushFirstPage") => pc[th] = G4
         /\ AtStep(th, "found") => pc[th] = A1
         /\ Busy(th) /\ Head(pc[th]) \in MessageOps => pc[th] \in {M3, E4, D4, R3, G5, A2}
  BY PostPlacesAre, HeadIs DEF Busy, AtStep

LEMMA KindsOf ==
  ASSUME pc \in [Threads -> Places], NEW th \in Threads
  PROVE  /\ (Busy(th) /\ Op(th) \in Posts) <=> pc[th] \in PostPlaces
         /\ (Busy(th) /\ Op(th) \in Changes) <=> pc[th] \in ChangePlaces
         /\ (Busy(th) /\ Op(th) \in Reads) <=> pc[th] \in ReadPlaces
         /\ (Busy(th) /\ Op(th) \in {"GetConversations"}) <=> pc[th] \in {G1, G2, G3, G4, G5}
  BY KindIs DEF Busy, Op

LEMMA Advances ==
  ASSUME NEW th \in Threads, Advance(th)
  PROVE  /\ pc[th] = M1 => pc' = [pc EXCEPT ![th] = M2]
         /\ pc[th] = M2 => pc' = [pc EXCEPT ![th] = M3]
         /\ pc[th] = E1 => pc' = [pc EXCEPT ![th] = E2]
         /\ pc[th] = E2 => pc' = [pc EXCEPT ![th] = E3]
         /\ pc[th] = E3 => pc' = [pc EXCEPT ![th] = E4]
         /\ pc[th] = D1 => pc' = [pc EXCEPT ![th] = D2]
         /\ pc[th] = D2 => pc' = [pc EXCEPT ![th] = D3]
         /\ pc[th] = D3 => pc' = [pc EXCEPT ![th] = D4]
         /\ pc[th] = G1 => pc' = [pc EXCEPT ![th] = G2]
         /\ pc[th] = G2 => pc' = [pc EXCEPT ![th] = G3]
         /\ pc[th] = G3 => pc' = [pc EXCEPT ![th] = G4]
         /\ pc[th] = G4 => pc' = [pc EXCEPT ![th] = G5]
         /\ pc[th] = A1 => pc' = [pc EXCEPT ![th] = A2]
  <1>1. pc' = [pc EXCEPT ![th] = Tail(pc[th])]
    BY DEF Advance
  <1>2. \A p : Tail(pc[th]) = p => pc' = [pc EXCEPT ![th] = p]
    BY <1>1
  <1>3. /\ pc[th] = M1 => Tail(pc[th]) = M2
        /\ pc[th] = M2 => Tail(pc[th]) = M3
    BY PostPlacesAre
  <1>4. /\ pc[th] = E1 => Tail(pc[th]) = E2
        /\ pc[th] = E2 => Tail(pc[th]) = E3
        /\ pc[th] = E3 => Tail(pc[th]) = E4
    BY EditPlacesAre
  <1>5. /\ pc[th] = D1 => Tail(pc[th]) = D2
        /\ pc[th] = D2 => Tail(pc[th]) = D3
        /\ pc[th] = D3 => Tail(pc[th]) = D4
    BY DeletePlacesAre
  <1>6. /\ pc[th] = G1 => Tail(pc[th]) = G2
        /\ pc[th] = G2 => Tail(pc[th]) = G3
        /\ pc[th] = G3 => Tail(pc[th]) = G4
        /\ pc[th] = G4 => Tail(pc[th]) = G5
    BY DownloadPlacesAre
  <1>7. pc[th] = A1 => Tail(pc[th]) = A2
    BY OpenPlacesAre
  <1> QED BY <1>2, <1>3, <1>4, <1>5, <1>6, <1>7

LEMMA Returns ==
  ASSUME NEW th \in Threads, Return(th)
  PROVE  /\ pc[th] = M1 => pc' = [pc EXCEPT ![th] = M3]
         /\ pc[th] \in {E1, E2} => pc' = [pc EXCEPT ![th] = E4]
         /\ pc[th] \in {D1, D2} => pc' = [pc EXCEPT ![th] = D4]
         /\ pc[th] \in {R1, R2} => pc' = [pc EXCEPT ![th] = R3]
         /\ pc[th] = G1 => pc' = [pc EXCEPT ![th] = G5]
  <1> DEFINE op == pc[th][Len(pc[th])]
  <1>1. pc' = [pc EXCEPT ![th] = <<op>>]
    BY DEF Return, Op
  <1>2. pc[th] = M1 => op = "Message"
    BY PostPlacesAre
  <1>3. pc[th] \in {E1, E2} => op = "MessageEdit"
    BY EditPlacesAre
  <1>4. pc[th] \in {D1, D2} => op = "MessageDelete"
    BY DeletePlacesAre
  <1>5. pc[th] \in {R1, R2} => op = "LoadMoreMessages"
    BY PagePlacesAre
  <1>6. pc[th] = G1 => op = "GetConversations"
    BY DownloadPlacesAre
  <1> HIDE DEF op
  <1>7. pc[th] = M1 => pc' = [pc EXCEPT ![th] = M3]
    BY <1>1, <1>2, RepliesAre
  <1>8. pc[th] \in {E1, E2} => pc' = [pc EXCEPT ![th] = E4]
    BY <1>1, <1>3, RepliesAre
  <1>9. pc[th] \in {D1, D2} => pc' = [pc EXCEPT ![th] = D4]
    BY <1>1, <1>4, RepliesAre
  <1>10. pc[th] \in {R1, R2} => pc' = [pc EXCEPT ![th] = R3]
    BY <1>1, <1>5, RepliesAre
  <1>11. pc[th] = G1 => pc' = [pc EXCEPT ![th] = G5]
    BY <1>1, <1>6, RepliesAre
  <1> QED BY <1>7, <1>8, <1>9, <1>10, <1>11

(***************************************************************************)
(* What the invariant says of the properties.                              *)
(***************************************************************************)
LEMMA Constants ==
  /\ FirstPage \in Nat \ {0} /\ Retained \in Nat \ {0} /\ MaxPageOffset \in Nat \ {0}
  /\ MaxPosts \in Nat /\ MaxLookback \in Nat /\ MaxPostFaults \in Nat
  BY ConversationMessagesAssumption

LEMMA Pends == Pending \in {0, 1}
  BY DEF Pending

LEMMA Typed ==
  ASSUME HistoryInv
  PROVE  /\ Len(messages) \in Nat /\ DOMAIN messages = MessageIds /\ MessageIds = 1..Len(messages)
         /\ \A i \in MessageIds : messages[i] \in Statuses
         /\ Len(MessagesDeque) \in Nat /\ DOMAIN MessagesDeque = 1..Len(MessagesDeque)
         /\ \A i \in DOMAIN MessagesDeque : MessagesDeque[i] \in Entry(MessageIds) /\ MessagesDeque[i].id \in MessageIds
         /\ \A th \in Threads : pc[th] \in Places /\ cm[th] \in MessageCall /\ cm[th].id \in 0..Len(messages)
  <1>1. messages \in Seq(Statuses) /\ MessagesDeque \in Seq(Entry(MessageIds))
    BY DEF HistoryInv, HistoryTypes
  <1>2. Len(messages) \in Nat /\ DOMAIN messages = 1..Len(messages) /\ \A i \in 1..Len(messages) : messages[i] \in Statuses
    BY <1>1
  <1>3. Len(MessagesDeque) \in Nat /\ DOMAIN MessagesDeque = 1..Len(MessagesDeque)
        /\ \A i \in 1..Len(MessagesDeque) : MessagesDeque[i] \in Entry(MessageIds)
    BY <1>1
  <1>4. \A e \in Entry(MessageIds) : e.id \in MessageIds
    BY DEF Entry
  <1>5. \A th \in Threads : pc[th] \in Places /\ cm[th] \in MessageCall /\ cm[th].id \in 0..Len(messages)
    BY DEF HistoryInv, HistoryTypes
  <1> QED BY <1>2, <1>3, <1>4, <1>5 DEF MessageIds

LEMMA InFlightIs ==
  ASSUME pc \in [Threads -> Places], Apart, ~mixed_up
  PROVE  Cardinality(InFlight) = Pending
  <1>1. \A th \in Threads : AtStep(th, "pushFront") <=> pc[th] = M2
    BY StepPlaces
  <1>2. CASE \E th \in Threads : pc[th] = M2
    BY <1>1, <1>2, FS_Singleton DEF Apart, PostPlaces, InFlight, Pending
  <1>3. CASE ~\E th \in Threads : pc[th] = M2
    BY <1>1, <1>3, FS_EmptySet DEF InFlight, Pending
  <1> QED BY <1>2, <1>3

LEMMA InvShows == HistoryInv => HistoryConsistent
  <1> SUFFICES ASSUME HistoryInv PROVE HistoryConsistent
    OBVIOUS
  <1>1. ConversationMessagesTypeOK
    BY Typed DEF MessageCall, HistoryInv, HistoryTypes, ConversationMessagesTypeOK
  <1>2. DequeIsNewest
    BY InFlightIs DEF DequeIsNewest, HistoryInv, HistoryTypes, Newest, AreNewest
  <1>3. DequeShowsRows
    BY Typed, KindsOf DEF DequeShowsRows, HistoryInv, Shows, Changed, HistoryTypes, Agree
  <1>4. PageHasAsked
    BY DEF PageHasAsked, HistoryInv, ThreadInv, Page
  <1> QED BY <1>1, <1>2, <1>3, <1>4 DEF HistoryConsistent

(***************************************************************************)
(* What a step leaves.                                                     *)
(***************************************************************************)
LEMMA ApartStays ==
  ASSUME HistoryInv, NEW th \in Threads, NEW p, pc' = [pc EXCEPT ![th] = p], mixed_up => mixed_up',
         p \in ReadPlaces => pc[th] \in ReadPlaces,
         p \in PostPlaces => pc[th] \in PostPlaces,
         p \in ChangePlaces => pc[th] \in ChangePlaces
  PROVE  Apart'
  BY DEF Apart, HistoryInv, HistoryTypes

LEMMA OtherThread ==
  ASSUME HistoryInv, NEW o \in Threads, pc'[o] = pc[o], cm'[o] = cm[o], mixed_up => mixed_up',
         contested \subseteq contested', Len(messages') \in Nat, Len(messages') >= Len(messages),
         ~mixed_up' /\ pc[o] \in ReadPlaces => UNCHANGED <<messages, MessagesDeque>>,
         ~mixed_up' /\ pc[o] \in ChangePlaces /\ cm[o].id \in MessageIds \ contested' =>
             messages'[cm[o].id] = messages[cm[o].id] /\ (Agree(cm[o].id) => Agree(cm[o].id)'),
         ~mixed_up' /\ pc[o] = M2 =>
             Len(messages') = Len(messages) /\ (cm[o].id # 0 => messages'[cm[o].id] = messages[cm[o].id])
  PROVE  ThreadInv(o)'
  <1>1. ThreadInv(o) /\ cm[o].id \in 0..Len(messages) /\ Len(messages) \in Nat /\ MessageIds = 1..Len(messages)
        /\ MessageIds' = 1..Len(messages')
    BY Typed DEF HistoryInv, MessageIds
  <1>2. Change(o)'
    BY <1>1 DEF ThreadInv, Change, Agree
  <1>3. Downloaded(o)'
    BY <1>1 DEF Downloaded, AreNewest, AreRows, ReadPlaces, ThreadInv
  <1>4. Page(o)'
    BY <1>1 DEF ReadPlaces, ThreadInv, Page, MessageIds
  <1>5. Locals(o)' /\ (~mixed_up' => Posted(o)')
    BY <1>1 DEF ThreadInv, Locals, Posted
  <1> QED BY <1>2, <1>3, <1>4, <1>5 DEF ThreadInv

LEMMA TypesKept ==
  ASSUME HistoryInv, NEW th \in Threads, NEW p \in Places, NEW rec \in MessageCall',
         pc' = [pc EXCEPT ![th] = p], cm' = [cm EXCEPT ![th] = rec], rec.id \in 0..Len(messages'),
         messages' \in Seq(Statuses), Len(messages') >= Len(messages),
         cached' \in {"no", "known", "unknown"},
         MessagesDeque' \in Seq(Entry(MessageIds)'),
         mixed_up' \in BOOLEAN, contested' \subseteq MessageIds', post_faults' \in 0..MaxPostFaults
  PROVE  HistoryTypes'
  <1>1. Len(messages) \in Nat /\ Len(messages') \in Nat
    BY Typed
  <1>2. MessageIds \subseteq MessageIds'
    BY <1>1 DEF MessageIds
  <1>3. Entry(MessageIds) \subseteq Entry(MessageIds)'
    BY <1>2 DEF Entry
  <1>4. \A s : s \in Seq(Entry(MessageIds)) => s \in Seq(Entry(MessageIds)')
    BY <1>3, SeqMonotonic
  <1>5. \A r \in MessageCall : r \in MessageCall'
    BY <1>4 DEF MessageCall
  <1>6. cm \in [Threads -> MessageCall] /\ pc \in [Threads -> Places] /\ \A o \in Threads : cm[o].id \in 0..Len(messages)
    BY DEF HistoryInv, HistoryTypes
  <1>7. pc' \in [Threads -> Places]
    BY <1>6
  <1>8. cm' \in [Threads -> MessageCall']
    BY <1>5, <1>6
  <1>9. \A o \in Threads : cm'[o].id \in 0..Len(messages')
    BY <1>1, <1>6
  <1>10. HistoryTypes' <=>
           /\ messages' \in Seq(Statuses)
           /\ cached' \in {"no", "known", "unknown"}
           /\ MessagesDeque' \in Seq(Entry(MessageIds)')
           /\ pc' \in [Threads -> Places]
           /\ cm' \in [Threads -> MessageCall']
           /\ \A o \in Threads : cm'[o].id \in 0..Len(messages')
           /\ mixed_up' \in BOOLEAN
           /\ contested' \subseteq MessageIds'
           /\ post_faults' \in 0..MaxPostFaults
    BY DEF HistoryTypes
  <1> QED BY <1>7, <1>8, <1>9, <1>10

\* The thread that steps, and the others.
LEMMA StepOf ==
  ASSUME HistoryInv, NEW th \in Threads, NEW p, NEW rec,
         pc' = [pc EXCEPT ![th] = p], cm' = [cm EXCEPT ![th] = rec]
  PROVE  /\ pc'[th] = p /\ cm'[th] = rec
         /\ \A o \in Threads : o # th => pc'[o] = pc[o] /\ cm'[o] = cm[o]
  BY DEF HistoryInv, HistoryTypes

\* A step that changes neither the table nor the deque.
LEMMA QuietStep ==
  ASSUME HistoryInv, NEW th \in Threads, NEW p \in Places, NEW rec \in MessageCall,
         pc' = [pc EXCEPT ![th] = p], cm' = [cm EXCEPT ![th] = rec], rec.id \in 0..Len(messages),
         messages' = messages, MessagesDeque' = MessagesDeque, cached' \in {"no", "known", "unknown"},
         mixed_up' \in BOOLEAN, mixed_up => mixed_up',
         contested' \subseteq MessageIds, contested \subseteq contested', post_faults' \in 0..MaxPostFaults,
         Apart',
         cached' = "no" => cached = "no" /\ p \in {G1, G2, G5} \cup OtherPlaces,
         p # M2, pc[th] # M2,
         ~mixed_up' /\ pc[th] \in ChangePlaces /\ cm[th].id \in MessageIds \ contested' =>
             (p \in ChangePlaces /\ rec.id = cm[th].id) \/ Agree(cm[th].id),
         p \in ChangePlaces /\ rec.id # 0 =>
             \A o \in Threads \ {th} : pc[o] \in ChangePlaces /\ cm[o].id = rec.id => rec.id \in contested',
         p \in ChangePlaces /\ ~mixed_up' => \A o \in Threads : pc[o] = M2 => rec.id < Len(messages),
         ThreadInv(th)'
  PROVE  HistoryInv'
  <1>1. /\ Len(messages) \in Nat /\ MessageIds' = MessageIds /\ MessageIds = 1..Len(messages)
        /\ \A o \in Threads : cm[o].id \in 0..Len(messages)
    BY Typed DEF MessageIds
  <1>2. /\ pc'[th] = p /\ cm'[th] = rec
        /\ \A o \in Threads : o # th => pc'[o] = pc[o] /\ cm'[o] = cm[o]
    BY StepOf
  <1>3. HistoryTypes'
    BY <1>1, TypesKept DEF HistoryInv, HistoryTypes, MessageCall, Entry
  <1>4. UnknownEmpty'
    BY <1>2 DEF HistoryInv, UnknownEmpty
  <1>5. ~mixed_up' => Pending' = Pending
    BY <1>2 DEF Pending
  <1>6. Newest'
    BY <1>5 DEF HistoryInv, Newest, AreNewest
  <1>7. \A id : Agree(id)' <=> Agree(id)
    BY DEF Agree
  <1>8. Shows'
    BY <1>1, <1>2, <1>7 DEF Shows, HistoryInv, Changed
  <1>9. ChangesApart'
    BY <1>2 DEF HistoryInv, ChangesApart
  <1>10. ASSUME NEW o \in Threads PROVE ThreadInv(o)'
    BY <1>1, <1>2, <1>7, OtherThread DEF Agree
  <1> QED BY <1>3, <1>4, <1>6, <1>8, <1>9, <1>10 DEF HistoryInv

(***************************************************************************)
(* Calls begin and end.                                                    *)
(***************************************************************************)
Fresh == {<<>>, M1, M3, E1, D1, E4, D4, R1, G1, G5, A1, A2}

LEMMA FreshApart == \A p \in Fresh : p \notin {M2, E2, E3, D2, D3, R2, R3, G2, G3, G4}
  <1> DEFINE steps == {"pushFront", "updateEdit", "showEdit", "updateDelete", "showDelete", "selectRange",
                       "LoadMoreMessages", "participants", "firstPage", "pushFirstPage"}
  <1>1. \A p \in {M2, E2, E3, D2, D3, R2, R3, G2, G3, G4} : p # <<>> /\ Head(p) \in steps
    <2>1. \A p \in {M2, E2, E3} : p # <<>> /\ Head(p) \in steps
      BY PostPlacesAre, EditPlacesAre
    <2>2. \A p \in {D2, D3, R2, R3} : p # <<>> /\ Head(p) \in steps
      BY DeletePlacesAre, PagePlacesAre
    <2>3. \A p \in {G2, G3, G4} : p # <<>> /\ Head(p) \in steps
      BY DownloadPlacesAre
    <2> QED BY <2>1, <2>2, <2>3
  <1>2. \A p \in Fresh \ {<<>>} : Head(p) \notin steps
    BY PostPlacesAre, EditPlacesAre, DeletePlacesAre, PagePlacesAre, DownloadPlacesAre,
       OpenPlacesAre DEF Fresh
  <1> HIDE DEF steps
  <1> QED BY <1>1, <1>2

LEMMA FreshThread ==
  ASSUME NEW th \in Threads, pc'[th] \in Fresh, cm'[th] = NoMessage
  PROVE  ThreadInv(th)'
  BY FreshApart DEF NoMessage, MessageIds, Change, Downloaded, Page, Locals, Posted, ThreadInv

LEMMA NoMessageIs == NoMessage \in MessageCall /\ NoMessage.id = 0
  BY DEF NoMessage, MessageCall

LEMMA IdleThread ==
  ASSUME HistoryInv, NEW th \in Threads, ~Busy(th)
  PROVE  pc[th] = <<>> /\ cm[th] = NoMessage
  BY DEF Busy, HistoryInv, ThreadInv, Locals

LEMMA BusyKinds ==
  ASSUME HistoryInv
  PROVE  /\ ~BusyIn(Posts \cup Reads) => \A o \in Threads : pc[o] \notin PostPlaces \cup ReadPlaces
         /\ ~BusyIn(Reads) => \A o \in Threads : pc[o] \notin ReadPlaces
         /\ ~BusyIn(Posts \cup Changes \cup Reads) =>
                \A o \in Threads : pc[o] \notin PostPlaces \cup ChangePlaces \cup ReadPlaces
         /\ ~BusyIn({"GetConversations"}) => \A o \in Threads : pc[o] \notin {G1, G2, G3, G4, G5}
  BY KindsOf DEF HistoryInv, HistoryTypes, BusyIn

LEMMA ApartBegins ==
  ASSUME HistoryInv, NEW th \in Threads, NEW p, pc' = [pc EXCEPT ![th] = p], mixed_up => mixed_up',
         ~mixed_up' /\ p \in ReadPlaces => \A o \in Threads : pc[o] \notin PostPlaces \cup ChangePlaces \cup ReadPlaces,
         ~mixed_up' /\ p \in PostPlaces => \A o \in Threads : pc[o] \notin PostPlaces \cup ReadPlaces,
         ~mixed_up' /\ p \in ChangePlaces => \A o \in Threads : pc[o] \notin ReadPlaces
  PROVE  Apart'
  BY KindsApart DEF Apart, HistoryInv, HistoryTypes

LEMMA Begins ==
  ASSUME HistoryInv, NEW th \in Threads, NEW p \in {M1, E1, D1, R1, G1, A1}, ~Busy(th), pc' = [pc EXCEPT ![th] = p],
         UNCHANGED <<messages, cached, MessagesDeque, cm, contested, post_faults>>,
         mixed_up' \in BOOLEAN, mixed_up => mixed_up', Apart',
         cached = "no" => p \in {G1, A1}
  PROVE  HistoryInv'
  <1>1. pc[th] = <<>> /\ cm[th] = NoMessage
    BY IdleThread
  <1>2. cm' = [cm EXCEPT ![th] = NoMessage]
    BY <1>1 DEF HistoryInv, HistoryTypes
  <1>3. p \in Fresh /\ p \in Places
    BY DEF Fresh, Places, PostPlaces, ChangePlaces, ReadPlaces, OtherPlaces
  <1>4. p # M2 /\ pc[th] # M2 /\ pc[th] \notin ChangePlaces
    BY <1>1, <1>3, FreshApart, PlacesApart DEF Fresh
  <1>5. ThreadInv(th)'
    BY <1>1, <1>2, <1>3, StepOf, FreshThread
  <1>6. NoMessage \in MessageCall /\ NoMessage.id = 0 /\ 0 \in 0..Len(messages)
    BY NoMessageIs, Typed
  <1>7. /\ cached' \in {"no", "known", "unknown"} /\ contested' \subseteq MessageIds /\ post_faults' \in 0..MaxPostFaults
        /\ contested \subseteq contested' /\ messages' = messages /\ MessagesDeque' = MessagesDeque
    BY DEF HistoryInv, HistoryTypes
  <1>8. cached' = "no" => cached = "no" /\ p \in {G1, G2, G5} \cup OtherPlaces
    BY DEF OtherPlaces
  <1>9. \A o \in Threads : p \in ChangePlaces /\ pc[o] = M2 /\ ~mixed_up' => 0 < Len(messages)
    BY Typed DEF HistoryInv, ThreadInv, Change
  <1> QED BY <1>2, <1>3, <1>4, <1>5, <1>6, <1>7, <1>8, <1>9, QuietStep

LEMMA CallsKeep ==
  ASSUME HistoryInv, NEW th \in Threads, ConversationMessageCall(th)
  PROVE  HistoryInv'
  <1>1. mixed_up \in BOOLEAN
    BY DEF HistoryInv, HistoryTypes
  <1>2. ASSUME NEW op, NEW steps, NEW overlap \in BOOLEAN, BeginMessageCall(th, op, steps, overlap),
               NEW p \in {M1, E1, D1, R1, G1, A1}, Append(steps, op) = p, cached = "no" => p \in {G1, A1},
               ~overlap /\ p \in ReadPlaces => \A o \in Threads : pc[o] \notin PostPlaces \cup ChangePlaces \cup ReadPlaces,
               ~overlap /\ p \in PostPlaces => \A o \in Threads : pc[o] \notin PostPlaces \cup ReadPlaces,
               ~overlap /\ p \in ChangePlaces => \A o \in Threads : pc[o] \notin ReadPlaces
        PROVE  HistoryInv'
    BY <1>1, <1>2, ApartBegins, Begins DEF BeginMessageCall, Enter
  <1>3. CASE OnMessageReceived_Message(th)
    BY <1>2, <1>3, KindsApart, CallsBegin, BusyKinds DEF PostPlaces, BusyIn,
       OnMessageReceived_Message
  <1>4. CASE OnMessageReceived_MessageEdit(th)
    BY <1>2, <1>4, KindsApart, CallsBegin, BusyKinds DEF ChangePlaces, BusyIn,
       OnMessageReceived_MessageEdit
  <1>5. CASE OnMessageReceived_MessageDelete(th)
    BY <1>2, <1>5, KindsApart, CallsBegin, BusyKinds DEF ChangePlaces, BusyIn,
       OnMessageReceived_MessageDelete
  <1>6. CASE OnMessageReceived_LoadMoreMessages(th)
    BY <1>2, <1>6, KindsApart, CallsBegin, BusyKinds DEF ReadPlaces, BusyIn,
       OnMessageReceived_LoadMoreMessages
  <1>7. CASE GetConversations(th)
    BY <1>2, <1>7, KindsApart, CallsBegin, BusyKinds DEF ReadPlaces, BusyIn, GetConversations
  <1>8. CASE OpenConversation(th)
    BY <1>2, <1>8, KindsApart, CallsBegin DEF OtherPlaces, OpenConversation
  <1> QED BY <1>3, <1>4, <1>5, <1>6, <1>7, <1>8 DEF ConversationMessageCall

LEMMA ReplyKeeps ==
  ASSUME HistoryInv, NEW th \in Threads, MessageReply(th)
  PROVE  HistoryInv'
  <1>1. pc' = [pc EXCEPT ![th] = <<>>] /\ cm' = [cm EXCEPT ![th] = NoMessage]
        /\ UNCHANGED <<messages, cached, MessagesDeque, mixed_up, contested, post_faults>>
    BY DEF MessageReply, Finish, conversationDoubts
  <1>2. pc[th] \in {M3, E4, D4, R3, G5, A2}
    BY StepPlaces DEF MessageReply, HistoryInv, HistoryTypes
  <1>3. <<>> \in Fresh /\ <<>> \in Places /\ <<>> # M2 /\ <<>> \in OtherPlaces
        /\ <<>> \notin PostPlaces /\ <<>> \notin ChangePlaces /\ <<>> \notin ReadPlaces
    BY PlacesApart, PostPlacesAre DEF Fresh, Places, OtherPlaces
  <1>4. pc[th] \notin {M2, E3, D3}
    <2>1. R3 \notin {M2, E3, D3}
      BY PagePlacesAre, PostPlacesAre, EditPlacesAre, DeletePlacesAre
    <2> QED BY <1>2, <2>1, FreshApart DEF Fresh
  <1>5. ThreadInv(th)'
    BY <1>1, <1>3, FreshThread DEF HistoryInv, HistoryTypes
  <1>6. mixed_up \in BOOLEAN /\ cached \in {"no", "known", "unknown"} /\ contested \subseteq MessageIds
        /\ post_faults \in 0..MaxPostFaults
    BY DEF HistoryInv, HistoryTypes
  <1>7. Apart'
    BY <1>1, <1>3, ApartStays
  <1>8. ~mixed_up /\ pc[th] \in ChangePlaces /\ cm[th].id \in MessageIds \ contested => Agree(cm[th].id)
    BY <1>4 DEF HistoryInv, ThreadInv, Change
  <1>9. NoMessage \in MessageCall /\ NoMessage.id \in 0..Len(messages)
    BY NoMessageIs, Typed
  <1> QED BY <1>1, <1>3, <1>4, <1>5, <1>6, <1>7, <1>8, <1>9, QuietStep

(***************************************************************************)
(* Pages and searches.                                                     *)
(***************************************************************************)
LEMMA FromToIs ==
  ASSUME NEW S, NEW s \in Seq(S), NEW first \in Nat \ {0}, NEW last \in Int
  PROVE  /\ FromTo(s, first, last) \in Seq(S)
         /\ \A i \in DOMAIN FromTo(s, first, last) :
                i \in Nat \ {0} /\ first + i - 1 \in 1..Len(s) /\ FromTo(s, first, last)[i] = s[first + i - 1]
         /\ \A i \in Nat \ {0} : first + i - 1 <= last /\ first + i - 1 <= Len(s) => i \in DOMAIN FromTo(s, first, last)
  <1> DEFINE end == IF last < Len(s) THEN last ELSE Len(s)
             f == SubSeq(s, first, end)
  <1>1. Len(s) \in Nat /\ end \in Int /\ end <= Len(s) /\ (last <= Len(s) => end = last) /\ (last >= Len(s) => end = Len(s))
    OBVIOUS
  <1> HIDE DEF end
  <1>2. \A i \in first..end : s[i] \in S
    BY <1>1
  <1>3. /\ f \in Seq(S) /\ Len(f) = (IF first <= end THEN end - first + 1 ELSE 0)
        /\ \A i \in 1..end - first + 1 : f[i] = s[first + i - 1]
    BY <1>1, <1>2, SubSeqProperties
  <1> HIDE DEF f
  <1>4. DOMAIN f = 1..Len(f)
    BY <1>3
  <1>5. \A i \in DOMAIN f : i \in Nat \ {0} /\ first + i - 1 \in 1..Len(s) /\ f[i] = s[first + i - 1]
    BY <1>1, <1>3, <1>4
  <1>6. \A i \in Nat \ {0} : first + i - 1 <= last /\ first + i - 1 <= Len(s) => i \in DOMAIN f
    BY <1>1, <1>3, <1>4
  <1>7. FromTo(s, first, last) = f
    BY DEF FromTo, f, end
  <1> QED BY <1>3, <1>5, <1>6, <1>7

LEMMA DownloadIs ==
  ASSUME HistoryInv, NEW offset \in Nat, NEW limit \in Int, NEW rows, rows = DownloadConversationMessages(offset, limit)
  PROVE  /\ rows \in Seq(Entry(MessageIds)) /\ AreNewest(rows, offset) /\ AreRows(rows)
         /\ \A i \in Nat \ {0} : i <= limit /\ offset + i <= Len(messages) => i \in DOMAIN rows
  <1> DEFINE newest == [i \in MessageIds |-> [id |-> Len(messages) + 1 - i, status |-> messages[Len(messages) + 1 - i]]]
  <1>1. Len(messages) \in Nat /\ MessageIds = 1..Len(messages) /\ \A i \in MessageIds : messages[i] \in Statuses
    BY Typed
  <1>2. \A i \in MessageIds : newest[i] \in Entry(MessageIds) /\ newest[i].id = Len(messages) + 1 - i
                              /\ newest[i].status = messages[newest[i].id]
    BY <1>1 DEF Entry
  <1>3. newest \in [1..Len(messages) -> Entry(MessageIds)]
    BY <1>1, <1>2
  <1>4. rows = FromTo(newest, offset + 1, offset + limit)
    BY DEF DownloadConversationMessages
  <1> HIDE DEF newest
  <1>5. newest \in Seq(Entry(MessageIds)) /\ Len(newest) = Len(messages)
    BY <1>1, <1>3
  <1>6. PICK first \in Nat \ {0}, last \in Int : first = offset + 1 /\ last = offset + limit
    OBVIOUS
  <1>9. /\ rows \in Seq(Entry(MessageIds))
        /\ \A i \in DOMAIN rows : i \in Nat \ {0} /\ first + i - 1 \in 1..Len(newest) /\ rows[i] = newest[first + i - 1]
        /\ \A i \in Nat \ {0} : first + i - 1 <= last /\ first + i - 1 <= Len(newest) => i \in DOMAIN rows
    <2>1. rows = FromTo(newest, first, last)
      BY <1>4, <1>6
    <2>2. PICK s, S : s = newest /\ S = Entry(MessageIds)
      OBVIOUS
    <2>3. s \in Seq(S) /\ rows = FromTo(s, first, last)
      BY <1>5, <2>1, <2>2
    <2> DEFINE f == FromTo(s, first, last)
    <2>4. /\ f \in Seq(S)
          /\ \A i \in DOMAIN f : i \in Nat \ {0} /\ first + i - 1 \in 1..Len(s) /\ f[i] = s[first + i - 1]
          /\ \A i \in Nat \ {0} : first + i - 1 <= last /\ first + i - 1 <= Len(s) => i \in DOMAIN f
      BY <2>3, FromToIs, Zenon
    <2> QED BY <2>2, <2>3, <2>4
  <1>7. ASSUME NEW i \in DOMAIN rows
        PROVE  rows[i].id + i + offset = Len(messages) + 1 /\ rows[i].status = messages[rows[i].id]
    <2>1. i \in Nat /\ offset + i \in MessageIds /\ rows[i] = newest[offset + i]
      <3>1. i \in Nat \ {0} /\ first + i - 1 \in 1..Len(newest) /\ rows[i] = newest[first + i - 1]
        BY <1>9
      <3>2. first + i - 1 = offset + i
        BY <1>6, <3>1
      <3> QED BY <1>1, <1>5, <3>1, <3>2
    <2>2. rows[i].id = Len(messages) + 1 - (offset + i) /\ rows[i].status = messages[rows[i].id]
      BY <1>2, <2>1
    <2>3. Len(messages) + 1 - (offset + i) + i + offset = Len(messages) + 1
      BY <1>1, <2>1
    <2> QED BY <2>2, <2>3
  <1>8. ASSUME NEW i \in Nat \ {0}, i <= limit, offset + i <= Len(messages)
        PROVE  i \in DOMAIN rows
    BY <1>5, <1>6, <1>8, <1>9
  <1> QED BY <1>9, <1>7, <1>8 DEF AreNewest, AreRows

\* The search finds what is there: the deque has no message twice and is in order.
LEMMA FoundIs ==
  ASSUME HistoryInv, ~mixed_up, NEW id \in Nat
  PROVE  /\ Found(id) # 0 => Found(id) \in DOMAIN MessagesDeque /\ MessagesDeque[Found(id)].id = id
         /\ Found(id) = 0 => \A i \in DOMAIN MessagesDeque : MessagesDeque[i].id # id
         /\ \A i \in DOMAIN MessagesDeque : MessagesDeque[i].id = id => i = Found(id)
  <1> DEFINE I == {i \in 1..Len(MessagesDeque) : MessagesDeque[i].id = id}
  <1>1. Len(MessagesDeque) \in Nat /\ DOMAIN MessagesDeque = 1..Len(MessagesDeque) /\ Len(messages) \in Nat
        /\ \A i \in DOMAIN MessagesDeque : MessagesDeque[i].id \in Nat
    BY Typed
  <1>2. \A i \in DOMAIN MessagesDeque : MessagesDeque[i].id + i + Pending = Len(messages) + 1
    BY DEF HistoryInv, Newest, AreNewest
  <1>3. \A i, j \in I : i = j
    <2> SUFFICES ASSUME NEW i \in I, NEW j \in I PROVE i = j
      OBVIOUS
    <2>1. PICK p \in Nat : p = Pending
      BY Pends
    <2>2. id + i + p = Len(messages) + 1 /\ id + j + p = Len(messages) + 1
      BY <1>1, <1>2, <2>1
    <2> QED BY <1>1, <2>2
  <1>4. Found(id) = IF I = {} THEN 0 ELSE CHOOSE i \in I : \A j \in I : i <= j
    BY DEF Found, SelectInSeq, Min
  <1>5. CASE I = {}
    BY <1>1, <1>4, <1>5
  <1>6. CASE I # {}
    <2>1. PICK k \in I : TRUE
      BY <1>6
    <2>2. I = {k}
      BY <1>3, <2>1
    <2>3. Found(id) = k
      BY <1>1, <1>4, <2>1, <2>2
    <2> QED BY <1>1, <2>1, <2>2, <2>3
  <1> QED BY <1>5, <1>6

\* A smaller id is behind it.
LEMMA PassedIs ==
  ASSUME HistoryInv, ~mixed_up, NEW id \in Nat, Found(id) # 0
  PROVE  Passed(id) = 0 \/ ~(Passed(id) < Found(id))
  <1> DEFINE I == {i \in 1..Len(MessagesDeque) : MessagesDeque[i].id < id}
             k == Found(id)
  <1>1. Len(MessagesDeque) \in Nat /\ DOMAIN MessagesDeque = 1..Len(MessagesDeque) /\ Len(messages) \in Nat
        /\ \A i \in DOMAIN MessagesDeque : MessagesDeque[i].id \in Nat
    BY Typed
  <1>2. \A i \in DOMAIN MessagesDeque : MessagesDeque[i].id + i + Pending = Len(messages) + 1
    BY DEF HistoryInv, Newest, AreNewest
  <1>3. k \in DOMAIN MessagesDeque /\ MessagesDeque[k].id = id
    BY FoundIs
  <1>4. Passed(id) = IF I = {} THEN 0 ELSE CHOOSE i \in I : \A j \in I : i <= j
    BY DEF Passed, SelectInSeq, Min
  <1> HIDE DEF k
  <1>0. PICK p \in Nat : p = Pending
    BY Pends
  <1>8. id + k + p = Len(messages) + 1
    BY <1>0, <1>2, <1>3
  <1>5. \A i \in I : i > k
    <2> TAKE i \in I
    <2>1. PICK d \in Nat : d = MessagesDeque[i].id
      BY <1>1
    <2>2. d + i + p = Len(messages) + 1 /\ d < id
      BY <1>0, <1>1, <1>2, <2>1
    <2> QED BY <1>1, <1>3, <1>8, <2>2
  <1>6. CASE I = {}
    BY <1>4, <1>6
  <1>7. CASE I # {}
    <2>1. k + 1 \in I /\ \A j \in I : k + 1 <= j
      <3>1. PICK i \in I : TRUE
        BY <1>7
      <3>2. k + 1 \in DOMAIN MessagesDeque
        BY <1>1, <1>3, <1>5, <3>1
      <3>3. MessagesDeque[k + 1].id < id
        <4>1. PICK d \in Nat : d = MessagesDeque[k + 1].id
          BY <1>1, <3>2
        <4>2. d + (k + 1) + p = Len(messages) + 1
          BY <1>0, <1>1, <1>2, <3>2, <4>1
        <4>3. PICK n \in Nat : n = Len(messages)
          BY <1>1
        <4>4. k \in Nat /\ d + (k + 1) + p = n + 1 /\ id + k + p = n + 1
          BY <1>1, <1>3, <1>8, <4>2, <4>3
        <4>5. d < id
          BY <4>4
        <4> QED BY <4>1, <4>5
      <3>4. k + 1 \in I
        BY <1>1, <3>2, <3>3
      <3>5. \A j \in I : k + 1 <= j
        BY <1>1, <1>3, <1>5
      <3> QED BY <3>4, <3>5
    <2>2. Passed(id) \in I
      BY <1>4, <1>7, <2>1
    <2> QED BY <1>1, <1>3, <1>5, <2>2 DEF k
  <1> QED BY <1>6, <1>7

(***************************************************************************)
(* The steps that change neither the table nor the deque.                  *)
(***************************************************************************)
LEMMA LocalsApart ==
  \A p \in {<<>>, M1, E1, D1, R1, G1, G2, G3, A1, A2} : p \notin {M2, M3, E2, E3, E4, D2, D3, D4, R2, R3, G4}
  <1> DEFINE steps == {"pushFront", "Message", "updateEdit", "showEdit", "MessageEdit", "updateDelete", "showDelete",
                       "MessageDelete", "selectRange", "LoadMoreMessages", "pushFirstPage"}
  <1>1. \A p \in {M2, M3, E2, E3, E4, D2, D3, D4, R2, R3, G4} : p # <<>> /\ Head(p) \in steps
    <2>1. \A p \in {M2, M3, E2, E3, E4} : p # <<>> /\ Head(p) \in steps
      BY PostPlacesAre, EditPlacesAre
    <2>2. \A p \in {D2, D3, D4, R2, R3, G4} : p # <<>> /\ Head(p) \in steps
      BY DeletePlacesAre, PagePlacesAre, DownloadPlacesAre
    <2> QED BY <2>1, <2>2
  <1>2. \A p \in {M1, E1, D1, R1, G1, G2, G3, A1, A2} : Head(p) \notin steps
    BY PostPlacesAre, EditPlacesAre, DeletePlacesAre, PagePlacesAre, DownloadPlacesAre,
       OpenPlacesAre
  <1> HIDE DEF steps
  <1> QED BY <1>1, <1>2

LEMMA PagesApart == R2 # R3 /\ {R2, R3} \cap {G1, G2, G3, G4, G5} = {}
  BY PagePlacesAre, DownloadPlacesAre

LEMMA ReadPlaceIs ==
  ASSUME NEW p \in ReadPlaces
  PROVE  p \in Places /\ p \notin ChangePlaces /\ p # M2 /\ p \notin PostPlaces
  BY KindsApart DEF Places, PostPlaces

LEMMA FaultCounted ==
  ASSUME HistoryInv, PostFault \/ UNCHANGED post_faults
  PROVE  post_faults' \in 0..MaxPostFaults
  BY Constants DEF HistoryInv, HistoryTypes, PostFault

\* A quiet step of a call that changes no message.
LEMMA ReadStep ==
  ASSUME HistoryInv, NEW th \in Threads, NEW p \in Places, NEW rec \in MessageCall,
         p \notin ChangePlaces, p # M2, pc[th] \notin ChangePlaces, pc[th] # M2,
         pc' = [pc EXCEPT ![th] = p], cm' = [cm EXCEPT ![th] = rec], rec.id \in 0..Len(messages),
         messages' = messages, MessagesDeque' = MessagesDeque, cached' \in {"no", "known", "unknown"},
         mixed_up' \in BOOLEAN, mixed_up => mixed_up', contested' = contested, post_faults' \in 0..MaxPostFaults,
         p \in ReadPlaces => pc[th] \in ReadPlaces,
         p \in PostPlaces => pc[th] \in PostPlaces,
         cached' = "no" => cached = "no" /\ p \in {G1, G2, G5} \cup OtherPlaces,
         ThreadInv(th)'
  PROVE  HistoryInv'
  BY ApartStays, QuietStep DEF HistoryInv, HistoryTypes

LEMMA Unfetched ==
  ASSUME HistoryInv, NEW th \in Threads, pc[th] # R3
  PROVE  ~cm[th].fetched
  BY DEF HistoryInv, ThreadInv, Page

\* A step on to G2 or G3 of a download that has read nothing yet.
LEMMA SkipKnownKeeps ==
  ASSUME HistoryInv, NEW th \in Threads, SkipKnown(th)
  PROVE  HistoryInv'
  <1>1. pc[th] = G1
    BY StepPlaces DEF SkipKnown, HistoryInv, HistoryTypes
  <1>2. /\ UNCHANGED <<messages, cached, MessagesDeque, cm, mixed_up, contested>>
        /\ PostFault \/ UNCHANGED post_faults
        /\ \/ pc' = [pc EXCEPT ![th] = G2] /\ cached = "no"
           \/ pc' = [pc EXCEPT ![th] = G5]
    BY <1>1, Advances, Returns DEF SkipKnown, AdvanceIf
  <1>3. cm[th] = NoMessage
    BY <1>1 DEF HistoryInv, ThreadInv, Locals
  <1>4. cm' = [cm EXCEPT ![th] = NoMessage] /\ cached' \in {"no", "known", "unknown"} /\ mixed_up' \in BOOLEAN
        /\ contested' = contested /\ messages' = messages /\ MessagesDeque' = MessagesDeque /\ mixed_up' = mixed_up
        /\ cached' = cached
    BY <1>2, <1>3 DEF HistoryInv, HistoryTypes
  <1>5. post_faults' \in 0..MaxPostFaults
    BY <1>2, FaultCounted
  <1>6. G1 \in ReadPlaces /\ G2 \in ReadPlaces /\ G5 \in ReadPlaces
    BY DEF ReadPlaces
  <1>7. NoMessage \in MessageCall /\ NoMessage.id \in 0..Len(messages)
    BY NoMessageIs, Typed
  <1>8. ASSUME NEW p \in {G2, G5}, pc' = [pc EXCEPT ![th] = p], p = G2 => cached = "no"
        PROVE  HistoryInv'
    <2>1. pc'[th] = p /\ cm'[th] = NoMessage
      BY <1>4, <1>8, StepOf
    <2>2. ThreadInv(th)'
      <3>1. CASE p = G5
        BY <2>1, <3>1, FreshThread DEF Fresh
      <3>2. CASE p = G2
        <4>1. MessagesDeque' = <<>> /\ NoMessage.rows = <<>> /\ NoMessage.fetched = FALSE
          BY <1>4, <1>8, <3>2 DEF HistoryInv, UnknownEmpty, NoMessage
        <4>2. Downloaded(th)'
          BY <2>1, <4>1 DEF Downloaded, AreNewest, AreRows
        <4>3. Change(th)' /\ Posted(th)'
          BY <2>1, <3>2, <1>6, ReadPlaceIs DEF Change, Posted, ChangePlaces
        <4>4. Page(th)' /\ Locals(th)'
          BY <2>1, <3>2, <4>1, PagesApart DEF Page, Locals
        <4> QED BY <4>2, <4>3, <4>4 DEF ThreadInv
      <3> QED BY <1>8, <3>1, <3>2
    <2>3. p \in Places /\ p \notin ChangePlaces /\ p # M2 /\ p \in ReadPlaces /\ p \notin PostPlaces
          /\ pc[th] \notin ChangePlaces /\ pc[th] # M2 /\ pc[th] \in ReadPlaces
      BY <1>1, <1>6, <1>8, ReadPlaceIs
    <2> QED BY <1>4, <1>5, <1>7, <1>8, <2>2, <2>3, ReadStep
  <1> QED BY <1>2, <1>8, DownloadPlacesAre

LEMMA ReadParticipantsKeeps ==
  ASSUME HistoryInv, NEW th \in Threads, ReadParticipants(th)
  PROVE  HistoryInv'
  <1>0. PICK p : p = G3
    OBVIOUS
  <1>1. pc[th] = G2
    BY StepPlaces DEF ReadParticipants, HistoryInv, HistoryTypes
  <1>2. /\ UNCHANGED <<messages, MessagesDeque, cm, mixed_up, contested>>
        /\ PostFault \/ UNCHANGED post_faults
    BY DEF ReadParticipants
  <1>11. pc' = [pc EXCEPT ![th] = p]
    BY <1>0, <1>1, Advances DEF ReadParticipants
  <1>12. cached' # "no" /\ cached' \in {"no", "known", "unknown"}
    BY DEF ReadParticipants, HistoryInv, HistoryTypes
  <1>3. cm[th] = NoMessage
    BY <1>1 DEF HistoryInv, ThreadInv, Locals
  <1>4. cm' = [cm EXCEPT ![th] = NoMessage] /\ mixed_up' \in BOOLEAN
        /\ contested' = contested /\ messages' = messages /\ MessagesDeque' = MessagesDeque /\ mixed_up' = mixed_up
    BY <1>2, <1>3 DEF HistoryInv, HistoryTypes
  <1>5. post_faults' \in 0..MaxPostFaults
    BY <1>2, FaultCounted
  <1>6. G2 \in ReadPlaces /\ p \in ReadPlaces
    BY <1>0 DEF ReadPlaces
  <1>7. NoMessage \in MessageCall /\ NoMessage.id \in 0..Len(messages)
    BY NoMessageIs, Typed
  <1>8. pc'[th] = p /\ cm'[th] = NoMessage
    BY <1>11, <1>4 DEF HistoryInv, HistoryTypes
  <1>9. ThreadInv(th)'
    <2>1. NoMessage.fetched = FALSE
      BY DEF NoMessage
    <2>2. Downloaded(th)'
      BY <1>1, <1>3, <1>4, <1>8 DEF HistoryInv, ThreadInv, Downloaded, AreNewest, AreRows
    <2>3. Change(th)' /\ Posted(th)'
      BY <1>8, <1>6, ReadPlaceIs DEF Change, Posted, ChangePlaces
    <2>4. Page(th)' /\ Locals(th)'
      BY <1>0, <1>8, <2>1, PagesApart DEF Page, Locals
    <2> QED BY <2>2, <2>3, <2>4 DEF ThreadInv
  <1>10. p \in Places /\ p \notin ChangePlaces /\ p # M2 /\ p \notin PostPlaces
         /\ pc[th] \notin ChangePlaces /\ pc[th] # M2 /\ pc[th] \in ReadPlaces
    BY <1>1, <1>6, ReadPlaceIs
  <1> QED BY <1>4, <1>5, <1>6, <1>7, <1>9, <1>10, <1>11, <1>12, ReadStep

LEMMA DownloadFirstPageKeeps ==
  ASSUME HistoryInv, NEW th \in Threads, DownloadFirstPage(th)
  PROVE  HistoryInv'
  <1>0. PICK p : p = G4
    OBVIOUS
  <1>1. pc[th] = G3
    BY StepPlaces DEF DownloadFirstPage, HistoryInv, HistoryTypes
  <1>2. PICK rows \in Seq(Entry(MessageIds)) :
          AreNewest(rows, 0) /\ AreRows(rows) /\ cm' = [cm EXCEPT ![th] = [cm[th] EXCEPT !.rows = rows]]
    <2>1. CASE UNCHANGED cm
      <3>1. cm[th].rows = <<>> /\ cm[th] = [cm[th] EXCEPT !.rows = <<>>]
        BY <1>1 DEF HistoryInv, ThreadInv, Locals, NoMessage
      <3>2. cm' = [cm EXCEPT ![th] = [cm[th] EXCEPT !.rows = <<>>]]
        BY <2>1, <3>1 DEF HistoryInv, HistoryTypes
      <3>3. <<>> \in Seq(Entry(MessageIds)) /\ AreNewest(<<>>, 0) /\ AreRows(<<>>)
        BY DEF AreNewest, AreRows
      <3> QED BY <3>2, <3>3
    <2>2. CASE SetLocal(th, [cm[th] EXCEPT !.rows = DownloadConversationMessages(0, FirstPage)])
      <3>1. PICK rows : rows = DownloadConversationMessages(0, FirstPage)
        OBVIOUS
      <3>2. rows \in Seq(Entry(MessageIds)) /\ AreNewest(rows, 0) /\ AreRows(rows)
        BY <3>1, DownloadIs, Constants
      <3> QED BY <2>2, <3>1, <3>2 DEF SetLocal
    <2> QED BY <2>1, <2>2 DEF DownloadFirstPage
  <1>3. /\ UNCHANGED <<messages, cached, MessagesDeque, mixed_up, contested>>
        /\ PostFault \/ UNCHANGED post_faults
    BY DEF DownloadFirstPage
  <1>15. pc' = [pc EXCEPT ![th] = p]
    BY <1>0, <1>1, Advances DEF DownloadFirstPage
  <1>4. cm[th] = NoMessage
    BY <1>1 DEF HistoryInv, ThreadInv, Locals
  <1>5. PICK rec : rec = [cm[th] EXCEPT !.rows = rows]
    OBVIOUS
  <1>6. rec.rows = rows /\ rec.id = 0 /\ rec.fetched = FALSE /\ rec \in MessageCall
    BY <1>4, <1>5, NoMessageIs DEF NoMessage, MessageCall
  <1>7. cm' = [cm EXCEPT ![th] = rec] /\ cached' \in {"no", "known", "unknown"} /\ mixed_up' \in BOOLEAN
        /\ contested' = contested /\ messages' = messages /\ MessagesDeque' = MessagesDeque /\ mixed_up' = mixed_up
        /\ cached' = cached
    BY <1>2, <1>3, <1>5 DEF HistoryInv, HistoryTypes
  <1>8. post_faults' \in 0..MaxPostFaults
    BY <1>3, FaultCounted
  <1>9. G3 \in ReadPlaces /\ p \in ReadPlaces
    BY <1>0 DEF ReadPlaces
  <1>10. pc'[th] = p /\ cm'[th] = rec
    BY <1>15, <1>7 DEF HistoryInv, HistoryTypes
  <1>11. ThreadInv(th)'
    <2>1. Downloaded(th)'
      BY <1>1, <1>2, <1>6, <1>7, <1>10 DEF HistoryInv, ThreadInv, Downloaded, AreNewest, AreRows
    <2>2. Change(th)' /\ Posted(th)'
      BY <1>10, <1>9, ReadPlaceIs DEF Change, Posted, ChangePlaces
    <2>3. Page(th)' /\ Locals(th)'
      BY <1>0, <1>10, <1>6, PagesApart, LocalsApart DEF Page, Locals
    <2> QED BY <2>1, <2>2, <2>3 DEF ThreadInv
  <1>12. p \in Places /\ p \notin ChangePlaces /\ p # M2 /\ p \notin PostPlaces
         /\ pc[th] \notin ChangePlaces /\ pc[th] # M2 /\ pc[th] \in ReadPlaces
    BY <1>1, <1>9, ReadPlaceIs
  <1>13. cached # "no"
    BY <1>1, DownloadPlacesAre, OpenPlacesAre DEF OtherPlaces, HistoryInv, UnknownEmpty
  <1>14. rec.id \in 0..Len(messages)
    BY <1>6, Typed
  <1> QED BY <1>6, <1>7, <1>8, <1>9, <1>11, <1>12, <1>13, <1>14, <1>15, ReadStep

LEMMA CacheFoundKeeps ==
  ASSUME HistoryInv, NEW th \in Threads, CacheFound(th)
  PROVE  HistoryInv'
  <1>0. PICK p : p = A2
    OBVIOUS
  <1>1. pc[th] = A1
    BY StepPlaces DEF CacheFound, HistoryInv, HistoryTypes
  <1>2. /\ UNCHANGED <<messages, MessagesDeque, cm, contested, post_faults>>
    BY DEF CacheFound
  <1>10. pc' = [pc EXCEPT ![th] = p]
    BY <1>0, <1>1, Advances DEF CacheFound
  <1>11. cached' # "no" /\ cached' \in {"no", "known", "unknown"}
    BY DEF CacheFound, HistoryInv, HistoryTypes
  <1>3. mixed_up' \in BOOLEAN /\ (mixed_up => mixed_up')
    BY DEF CacheFound, HistoryInv, HistoryTypes
  <1>4. cm[th] = NoMessage
    BY <1>1 DEF HistoryInv, ThreadInv, Locals
  <1>5. cm' = [cm EXCEPT ![th] = NoMessage] /\ post_faults' \in 0..MaxPostFaults
        /\ contested' = contested /\ messages' = messages /\ MessagesDeque' = MessagesDeque
    BY <1>2, <1>4 DEF HistoryInv, HistoryTypes
  <1>6. pc'[th] = p /\ cm'[th] = NoMessage
    BY <1>10, <1>5 DEF HistoryInv, HistoryTypes
  <1>7. ThreadInv(th)'
    BY <1>0, <1>6, FreshThread DEF Fresh
  <1>8. NoMessage \in MessageCall /\ NoMessage.id \in 0..Len(messages)
    BY NoMessageIs, Typed
  <1>9. /\ p \in Places /\ p \notin ChangePlaces /\ p # M2 /\ p \notin PostPlaces /\ p \notin ReadPlaces
        /\ pc[th] \notin ChangePlaces /\ pc[th] # M2
    BY <1>0, <1>1, KindsApart DEF Places, OtherPlaces, PostPlaces
  <1> QED BY <1>3, <1>5, <1>7, <1>8, <1>9, <1>10, <1>11, ReadStep

\* A page that is in memory is answered; for the others something is missing.
LEMMA ReadRangeKeeps ==
  ASSUME HistoryInv, NEW th \in Threads, NEW offset \in 1..MaxPageOffset, NEW count \in 1..MaxPageOffset,
         ReadRange(th, offset, count)
  PROVE  HistoryInv'
  <1>1. pc[th] = R1
    BY StepPlaces DEF ReadRange, HistoryInv, HistoryTypes
  <1>2. UNCHANGED <<messages, cached, MessagesDeque, mixed_up, contested, post_faults>>
    BY DEF ReadRange, conversationDoubts
  <1>3. offset \in Nat \ {0} /\ count \in Nat \ {0} /\ offset + 1 \in Nat \ {0} /\ offset + count \in Nat
    BY Constants
  <1>4. cm[th] = NoMessage
    BY <1>1 DEF HistoryInv, ThreadInv, Locals
  <1>5. MessagesDeque \in Seq(Entry(MessageIds)) /\ Len(MessagesDeque) \in Nat /\ Len(messages) \in Nat
    BY Typed DEF HistoryInv, HistoryTypes
  <1>6. R1 \in ReadPlaces /\ R2 \in ReadPlaces /\ R3 \in ReadPlaces
    BY DEF ReadPlaces
  <1>7. cached' \in {"no", "known", "unknown"} /\ mixed_up' \in BOOLEAN /\ contested' = contested
        /\ messages' = messages /\ MessagesDeque' = MessagesDeque /\ mixed_up' = mixed_up
        /\ post_faults' \in 0..MaxPostFaults /\ cached' = cached
    BY <1>2 DEF HistoryInv, HistoryTypes
  <1>8. cached # "no"
    BY <1>1, PagePlacesAre, DownloadPlacesAre, OpenPlacesAre DEF OtherPlaces, HistoryInv,
       UnknownEmpty
  <1>9. ASSUME NEW p \in {R2, R3}, NEW rec \in MessageCall, pc' = [pc EXCEPT ![th] = p], cm' = [cm EXCEPT ![th] = rec],
               rec.id = 0, Page(th)'
        PROVE  HistoryInv'
    <2>1. p \in Places /\ p \notin ChangePlaces /\ p # M2 /\ p \in ReadPlaces /\ p \notin PostPlaces
          /\ pc[th] \notin ChangePlaces /\ pc[th] # M2 /\ pc[th] \in ReadPlaces
      BY <1>1, <1>6, <1>9, ReadPlaceIs
    <2>2. pc'[th] = p /\ cm'[th] = rec
      BY <1>9 DEF HistoryInv, HistoryTypes
    <2>3. Change(th)' /\ Posted(th)'
      BY <2>2, <2>1, FreshApart, LocalsApart DEF Change, Posted, ChangePlaces
    <2>4. Downloaded(th)' /\ Locals(th)'
      BY <1>9, <2>2, PagesApart, LocalsApart DEF Downloaded, Locals
    <2>5. ThreadInv(th)'
      BY <1>9, <2>3, <2>4 DEF ThreadInv
    <2>6. rec.id \in 0..Len(messages)
      BY <1>5, <1>9
    <2> QED BY <1>7, <1>8, <1>9, <2>1, <2>5, <2>6, ReadStep
  <1>10. CASE Len(MessagesDeque) < offset + count
    <2>1. PICK rec : rec = [cm[th] EXCEPT !.offset = offset, !.count = count]
      OBVIOUS
    <2>2. cm' = [cm EXCEPT ![th] = rec] /\ Insert(th, <<"selectRange">>)
      BY <1>10, <2>1 DEF ReadRange, SetLocal
    <2>3. rec.id = 0 /\ rec.fetched = FALSE /\ rec.offset = offset /\ rec.count = count /\ rec \in MessageCall
      BY <1>3, <1>4, <2>1, NoMessageIs DEF NoMessage, MessageCall
    <2>4. pc' = [pc EXCEPT ![th] = R2]
      BY <1>1, <2>2, SelectComesFirst DEF Insert
    <2>5. pc'[th] = R2 /\ cm'[th] = rec
      BY <2>2, <2>4 DEF HistoryInv, HistoryTypes
    <2>6. Page(th)'
      BY <1>3, <1>7, <1>10, <2>3, <2>5 DEF Page
    <2> QED BY <1>9, <2>2, <2>3, <2>4, <2>6
  <1>11. CASE ~(Len(MessagesDeque) < offset + count)
    <2>1. PICK answer : answer = GetRange(offset, count)
      OBVIOUS
    <2>2. PICK rec : rec = [[cm[th] EXCEPT !.offset = offset, !.count = count] EXCEPT !.answer = answer, !.fetched = TRUE]
      OBVIOUS
    <2>3. cm' = [cm EXCEPT ![th] = rec] /\ Return(th)
      BY <1>11, <2>1, <2>2 DEF ReadRange, SetLocal
    <2>4. PICK first \in Nat \ {0}, last \in Int : first = offset + 1 /\ last = offset + count
      BY <1>3
    <2>5. PICK f : f = FromTo(MessagesDeque, first, last)
      OBVIOUS
    <2>6. f = answer
      BY <2>1, <2>4, <2>5 DEF GetRange
    <2>7. /\ f \in Seq(Entry(MessageIds))
          /\ \A i \in DOMAIN f : i \in Nat \ {0} /\ first + i - 1 \in 1..Len(MessagesDeque) /\ f[i] = MessagesDeque[first + i - 1]
          /\ \A i \in Nat \ {0} : first + i - 1 <= last /\ first + i - 1 <= Len(MessagesDeque) => i \in DOMAIN f
      <3>1. PICK s, S : s = MessagesDeque /\ S = Entry(MessageIds)
        OBVIOUS
      <3>2. s \in Seq(S)
        BY <1>5, <3>1
      <3> DEFINE g == FromTo(s, first, last)
      <3>3. /\ g \in Seq(S)
            /\ \A i \in DOMAIN g : i \in Nat \ {0} /\ first + i - 1 \in 1..Len(s) /\ g[i] = s[first + i - 1]
            /\ \A i \in Nat \ {0} : first + i - 1 <= last /\ first + i - 1 <= Len(s) => i \in DOMAIN g
        BY <3>2, FromToIs, Zenon
      <3> QED BY <2>5, <3>1, <3>3
    <2>8. rec.id = 0 /\ rec.offset = offset /\ rec.count = count /\ rec.answer = f /\ rec.fetched = TRUE /\ rec \in MessageCall
      BY <1>3, <1>4, <2>2, <2>6, <2>7, NoMessageIs DEF NoMessage, MessageCall
    <2>9. pc' = [pc EXCEPT ![th] = R3]
      BY <1>1, <2>3, Returns
    <2>10. pc'[th] = R3 /\ cm'[th] = rec
      BY <2>3, <2>9 DEF HistoryInv, HistoryTypes
    <2>11. ASSUME ~mixed_up, NEW i \in offset + 1..offset + count, Len(messages) + 1 - i \in MessageIds
           PROVE  \E j \in DOMAIN f : f[j].id = Len(messages) + 1 - i
      <3>1. i \in Nat \ {0} /\ i <= Len(MessagesDeque) /\ i - offset \in Nat \ {0} /\ first + (i - offset) - 1 = i /\ i <= last
        BY <1>3, <1>5, <1>11, <2>4
      <3>2. i - offset \in DOMAIN f
        BY <2>7, <3>1
      <3>3. f[i - offset] = MessagesDeque[i]
        BY <2>7, <3>1, <3>2
      <3>4. Pending = 0
        BY <1>1, <1>6, <2>11, ReadPlaceIs DEF HistoryInv, Apart, PostPlaces, Pending
      <3>5. MessagesDeque[i].id + i + 0 = Len(messages) + 1 /\ MessagesDeque[i].id \in Nat
        BY <1>5, <2>11, <3>1, <3>4, Typed DEF HistoryInv, Newest, AreNewest
      <3>6. f[i - offset].id = Len(messages) + 1 - i
        <4>1. PICK d \in Nat, n \in Nat : d = MessagesDeque[i].id /\ n = Len(messages)
          BY <1>5, <3>5
        <4>2. d + i + 0 = n + 1
          BY <3>5, <4>1
        <4>3. d = n + 1 - i
          BY <3>1, <4>2
        <4> QED BY <3>3, <4>1, <4>3
      <3> QED BY <3>2, <3>6
    <2>12. Page(th)'
      BY <1>7, <2>8, <2>10, <2>11, PagesApart DEF Page, MessageIds
    <2> QED BY <1>9, <2>3, <2>8, <2>9, <2>12
  <1> QED BY <1>10, <1>11

LEMMA FoundInDeque ==
  ASSUME HistoryInv, ~mixed_up, NEW th \in Threads, pc[th] = M2, NEW id \in MessageIds, Editable(id)
  PROVE  id < Len(messages)
  <1>1. Found(id) # 0 /\ id \in Nat
    BY Typed, Constants DEF Editable
  <1>2. PICK i \in DOMAIN MessagesDeque : MessagesDeque[i].id = id
    BY <1>1, FoundIs
  <1>3. Pending = 1
    BY DEF Pending
  <1>4. id + i + 1 = Len(messages) + 1 /\ i \in Nat \ {0} /\ Len(messages) \in Nat
    BY <1>2, <1>3, Typed DEF HistoryInv, Newest, AreNewest
  <1> QED BY <1>1, <1>4

(***************************************************************************)
(* Edits and deletions.                                                    *)
(***************************************************************************)
LEMMA ChangePlaceIs ==
  ASSUME NEW p \in ChangePlaces
  PROVE  p \in Places /\ p \notin ReadPlaces /\ p \notin PostPlaces /\ p # M2 /\ p # R2 /\ p # R3 /\ p # <<>>
         /\ p \notin {G1, G2, G3, G4, G5} \cup OtherPlaces
  BY KindsApart, PlacesApart DEF Places, PostPlaces, ReadPlaces

LEMMA ShowsApart == {E1, E2, E4, D1, D2, D4} \cap {E3, D3} = {} /\ E3 # D3
  BY EditPlacesAre, DeletePlacesAre

LEMMA ChangeKnows ==
  ASSUME HistoryInv, NEW th \in Threads, pc[th] \in ChangePlaces
  PROVE  cached # "no"
  BY ChangePlaceIs DEF HistoryInv, UnknownEmpty

LEMMA IsMessageInConversationKeeps ==
  ASSUME HistoryInv, NEW th \in Threads, NEW id \in MessageIds, IsMessageInConversation(th, id)
  PROVE  HistoryInv'
  <1>1. pc[th] \in {E1, D1}
    BY StepPlaces DEF IsMessageInConversation, HistoryInv, HistoryTypes
  <1>2. messages' = messages /\ MessagesDeque' = MessagesDeque /\ cached' = cached /\ mixed_up' = mixed_up
        /\ post_faults' = post_faults
    BY DEF IsMessageInConversation
  <1>3. cm[th] = NoMessage
    BY <1>1 DEF HistoryInv, ThreadInv, Locals
  <1>4. contested' = contested \cup
           {m \in {id} : \E t \in Threads \ {th} : Busy(t) /\ Op(t) \in Changes /\ cm[t].id = id}
    BY DEF IsMessageInConversation
  <1>5. contested' \subseteq MessageIds /\ contested \subseteq contested'
    BY <1>4 DEF HistoryInv, HistoryTypes
  <1>6. \A o \in Threads \ {th} : pc[o] \in ChangePlaces /\ cm[o].id = id => id \in contested'
    BY <1>4, KindsOf DEF HistoryInv, HistoryTypes
  <1>7. cached' \in {"no", "known", "unknown"} /\ mixed_up' \in BOOLEAN /\ post_faults' \in 0..MaxPostFaults
    BY <1>2 DEF HistoryInv, HistoryTypes
  <1>8. id \in Nat \ {0} /\ MessageIds' = MessageIds /\ Len(messages) \in Nat
    BY <1>2, Typed DEF MessageIds
  <1>9. pc[th] \in ChangePlaces
    BY <1>1 DEF ChangePlaces
  <1>10. pc[th] # M2 /\ cached # "no"
    BY <1>9, ChangePlaceIs, ChangeKnows
  <1>11. cm[th].id = 0 /\ 0 \notin MessageIds
    BY <1>3, Typed DEF NoMessage
  <1>12. CASE Editable(id)
    <2>1. PICK rec : rec = [cm[th] EXCEPT !.id = id]
      OBVIOUS
    <2>2. cm' = [cm EXCEPT ![th] = rec] /\ Advance(th)
      BY <1>12, <2>1 DEF IsMessageInConversation, SetLocal
    <2>3. PICK p \in {E2, D2} : pc' = [pc EXCEPT ![th] = p]
      BY <1>1, <2>2, Advances
    <2>4. rec.id = id /\ rec.fetched = FALSE /\ rec \in MessageCall /\ rec.id \in 0..Len(messages)
      BY <1>3, <1>8, <2>1, NoMessageIs, Typed DEF NoMessage, MessageCall
    <2>5. p \in ChangePlaces
      BY <2>3 DEF ChangePlaces
    <2>6. p \in Places /\ p \notin ReadPlaces /\ p \notin PostPlaces /\ p # M2 /\ p # R2 /\ p \notin {E3, D3}
          /\ p \notin {G1, G2, G3, G4, G5}
      BY <2>3, <2>5, ChangePlaceIs, ShowsApart
    <2>7. Apart'
      BY <1>2, <1>9, <2>3, <2>6, ApartStays
    <2>8. pc'[th] = p /\ cm'[th] = rec
      BY <2>2, <2>3 DEF HistoryInv, HistoryTypes
    <2>9. ~mixed_up /\ id \notin contested' => Agree(id)
      BY <1>5, <1>6, <1>8, <1>11 DEF HistoryInv, Shows, Changed
    <2>10. Agree(id)' <=> Agree(id)
      BY <1>2 DEF Agree
    <2>11. Change(th)'
      BY <1>2, <1>8, <2>4, <2>6, <2>8, <2>9, <2>10 DEF Change, Agree
    <2>12. Downloaded(th)' /\ Page(th)' /\ Posted(th)' /\ Locals(th)'
      BY <2>3, <2>4, <2>6, <2>8, LocalsApart DEF Downloaded, Page, Posted, Locals
    <2>13. ThreadInv(th)'
      BY <2>11, <2>12 DEF ThreadInv
    <2>14. ~mixed_up' => \A o \in Threads : pc[o] = M2 => rec.id < Len(messages)
      BY <1>2, <1>12, <2>4, FoundInDeque
    <2>15. \A o \in Threads \ {th} : pc[o] \in ChangePlaces /\ cm[o].id = rec.id => rec.id \in contested'
      BY <1>6, <2>4
    <2> QED BY <1>2, <1>5, <1>7, <1>10, <1>11, <2>2, <2>3, <2>4, <2>6, <2>7, <2>13, <2>14, <2>15, QuietStep
  <1>13. CASE ~Editable(id)
    <2>1. cm' = [cm EXCEPT ![th] = NoMessage] /\ Return(th)
      BY <1>3, <1>13 DEF IsMessageInConversation, HistoryInv, HistoryTypes
    <2>2. PICK p \in {E4, D4} : pc' = [pc EXCEPT ![th] = p]
      BY <1>1, <2>1, Returns
    <2>3. p \in ChangePlaces /\ p \in Fresh
      BY <2>2 DEF ChangePlaces, Fresh
    <2>4. p \in Places /\ p \notin ReadPlaces /\ p \notin PostPlaces /\ p # M2
      BY <2>3, ChangePlaceIs
    <2>5. Apart'
      BY <1>2, <1>9, <2>2, <2>4, ApartStays
    <2>6. pc'[th] = p /\ cm'[th] = NoMessage
      BY <2>1, <2>2 DEF HistoryInv, HistoryTypes
    <2>7. ThreadInv(th)'
      BY <2>3, <2>6, FreshThread
    <2>8. NoMessage \in MessageCall /\ NoMessage.id = 0 /\ 0 \in 0..Len(messages)
      BY NoMessageIs, Typed
    <2>9. \A o \in Threads : pc[o] = M2 => 0 < Len(messages)
      BY <1>8, Typed
    <2> QED BY <1>2, <1>5, <1>7, <1>10, <1>11, <2>1, <2>2, <2>4, <2>5, <2>7, <2>8, <2>9, QuietStep
  <1> QED BY <1>12, <1>13

LEMMA NotAuthorKeeps ==
  ASSUME HistoryInv, NEW th \in Threads, NEW p \in {E4, D4}, pc[th] \in {E2, D2}, pc' = [pc EXCEPT ![th] = p],
         NEW rec, rec = cm[th], cm' = [cm EXCEPT ![th] = rec],
         messages' = messages, MessagesDeque' = MessagesDeque, cached' = cached, mixed_up' = mixed_up,
         contested' = contested, post_faults' = post_faults
  PROVE  HistoryInv'
  <1>4. rec \in MessageCall /\ rec.id \in 0..Len(messages)
    BY Typed
  <1>5. p \in ChangePlaces /\ p \in Fresh /\ pc[th] \in ChangePlaces
    BY DEF ChangePlaces, Fresh
  <1>6. /\ p \in Places /\ p \notin ReadPlaces /\ p \notin PostPlaces /\ p # M2 /\ p # R2 /\ p \notin {E3, D3}
        /\ p \notin {G1, G2, G3, G4, G5} /\ p \notin {M2, E2, E3, D2, D3}
        /\ pc[th] # M2 /\ pc[th] # R3 /\ pc[th] \notin {E3, D3}
    BY <1>5, ChangePlaceIs, ShowsApart, FreshApart
  <1>7. Apart'
    BY <1>5, <1>6, ApartStays
  <1>8. pc'[th] = p /\ cm'[th] = rec
    BY DEF HistoryInv, HistoryTypes
  <1>9. contested \subseteq MessageIds /\ mixed_up \in BOOLEAN /\ post_faults \in 0..MaxPostFaults
        /\ cached \in {"no", "known", "unknown"} /\ cached # "no"
    BY <1>5, ChangeKnows DEF HistoryInv, HistoryTypes
  <1>10. ThreadInv(th)'
    <2>1. ~mixed_up /\ rec.id \in MessageIds \ contested => Agree(rec.id)
      BY <1>5, <1>6 DEF HistoryInv, ThreadInv, Change
    <2>2. Agree(rec.id)' <=> Agree(rec.id)
      BY DEF Agree
    <2>3. MessageIds' = MessageIds
      BY DEF MessageIds
    <2>4. Change(th)' <=>
              /\ p \in {M2, E2, E3, D2, D3} => rec.id \in MessageIds'
              /\ p \in ChangePlaces /\ ~mixed_up' /\ rec.id \in MessageIds' \ contested' =>
                     /\ p = E3 => messages'[rec.id] = "Edited"
                     /\ p = D3 => messages'[rec.id] = "Deleted"
                     /\ p \notin {E3, D3} => Agree(rec.id)'
      BY <1>8 DEF Change, Agree
    <2>5. Change(th)'
      BY <1>6, <2>1, <2>2, <2>3, <2>4
    <2>6. ~rec.fetched
      BY <1>6, Unfetched
    <2>7. Downloaded(th)' /\ Page(th)' /\ Posted(th)' /\ Locals(th)'
      BY <1>6, <1>8, <2>6, LocalsApart DEF Downloaded, Page, Posted, Locals
    <2> QED BY <2>5, <2>7 DEF ThreadInv
  <1>11. \A o \in Threads \ {th} : rec.id # 0 /\ pc[o] \in ChangePlaces /\ cm[o].id = rec.id => rec.id \in contested'
    BY <1>5 DEF HistoryInv, ChangesApart
  <1>12. ~mixed_up => \A o \in Threads : pc[o] = M2 => rec.id < Len(messages)
    BY <1>5 DEF HistoryInv, ChangesApart
  <1> QED BY <1>4, <1>5, <1>6, <1>7, <1>9, <1>10, <1>11, <1>12, QuietStep

LEMMA PendingStays ==
  ASSUME HistoryInv, NEW th \in Threads, NEW p, pc' = [pc EXCEPT ![th] = p], p # M2, pc[th] # M2
  PROVE  Pending' = Pending
  BY DEF HistoryInv, HistoryTypes, Pending

LEMMA ChangesApartStay ==
  ASSUME HistoryInv, NEW th \in Threads, NEW p, NEW rec, pc' = [pc EXCEPT ![th] = p], cm' = [cm EXCEPT ![th] = rec],
         contested' = contested, Len(messages') = Len(messages), mixed_up => mixed_up', p # M2,
         p \in ChangePlaces => pc[th] \in ChangePlaces /\ rec.id = cm[th].id
  PROVE  ChangesApart'
  BY DEF HistoryInv, HistoryTypes, ChangesApart

\* A call that changes a message is apart from the reads, and from the post of another message.
LEMMA ChangeAlone ==
  ASSUME HistoryInv, ~mixed_up, NEW th \in Threads, pc[th] \in ChangePlaces
  PROVE  \A o \in Threads :
           /\ pc[o] \notin ReadPlaces
           /\ pc[o] = M2 => cm[th].id < Len(messages) /\ cm[o].id = Len(messages)
           /\ o # th /\ pc[o] \in ChangePlaces /\ cm[o].id \in MessageIds \ contested => cm[o].id # cm[th].id
  BY KindsApart DEF HistoryInv, Apart, ChangesApart, ThreadInv, Posted, MessageIds

LEMMA RowChanged ==
  ASSUME HistoryInv, NEW th \in Threads, NEW p, NEW status,
         \/ pc[th] = E2 /\ p = E3 /\ status = "Edited"
         \/ pc[th] = D2 /\ p = D3 /\ status = "Deleted",
         pc' = [pc EXCEPT ![th] = p], NEW rec, rec = cm[th], cm' = [cm EXCEPT ![th] = rec],
         messages' = [messages EXCEPT ![rec.id] = status],
         MessagesDeque' = MessagesDeque, cached' = cached, mixed_up' = mixed_up,
         contested' = contested, post_faults' = post_faults
  PROVE  HistoryInv'
  <1>1. p \in ChangePlaces /\ pc[th] \in ChangePlaces /\ pc[th] \in {E2, E3, D2, D3} /\ status \in Statuses
    BY DEF ChangePlaces, Statuses
  <1>2. p \in Places /\ p \notin ReadPlaces /\ p \notin PostPlaces /\ p # M2 /\ p # R2 /\ p \notin {G1, G2, G3, G4, G5}
        /\ p # <<>> /\ pc[th] # M2 /\ pc[th] # R3
    BY <1>1, ChangePlaceIs
  <1>3. PICK id \in MessageIds : id = rec.id
    BY <1>1 DEF HistoryInv, ThreadInv, Change
  <1>4. messages \in Seq(Statuses) /\ Len(messages) \in Nat /\ MessageIds = 1..Len(messages)
    BY Typed DEF HistoryInv, HistoryTypes
  <1>5. messages' \in Seq(Statuses) /\ Len(messages') = Len(messages)
        /\ \A j \in 1..Len(messages) : messages'[j] = IF j = id THEN status ELSE messages[j]
    BY <1>1, <1>3, <1>4, ExceptSeq
  <1>6. MessageIds' = MessageIds
    BY <1>4, <1>5 DEF MessageIds
  <1>7. rec \in MessageCall /\ rec.id \in 0..Len(messages)
    BY Typed
  <1>8. \A o \in Threads : pc'[o] = IF o = th THEN p ELSE pc[o]
    BY DEF HistoryInv, HistoryTypes
  <1>9. \A o \in Threads : cm'[o] = cm[o]
    BY DEF HistoryInv, HistoryTypes
  <1>10. HistoryTypes'
    BY <1>2, <1>4, <1>5, <1>6, <1>7, TypesKept DEF MessageCall, Entry, HistoryInv, HistoryTypes
  <1>11. Apart'
    BY <1>1, <1>2, ApartStays
  <1>12. UnknownEmpty'
    BY <1>1, ChangeKnows DEF UnknownEmpty
  <1>13. Newest'
    BY <1>2, <1>5, PendingStays DEF HistoryInv, Newest, AreNewest
  <1>14. \A j : j # id => (Agree(j)' <=> Agree(j))
    BY <1>4, <1>5, Typed DEF Agree
  <1>15. Shows'
    BY <1>1, <1>3, <1>6, <1>8, <1>9, <1>14 DEF Shows, Changed, HistoryInv
  <1>16. ChangesApart'
    BY <1>1, <1>2, <1>5, ChangesApartStay
  <1>17. ThreadInv(th)'
    BY <1>2, <1>3, <1>4, <1>5, <1>6, <1>8, <1>9, Unfetched, ShowsApart, LocalsApart DEF Change,
       Agree, Downloaded, Page, Posted, Locals, ThreadInv
  <1>18. ASSUME NEW o \in Threads, o # th PROVE ThreadInv(o)'
    BY <1>1, <1>3, <1>4, <1>5, <1>8, <1>9, <1>14, <1>18, ChangeAlone, OtherThread DEF Agree
  <1> QED BY <1>10, <1>11, <1>12, <1>13, <1>15, <1>16, <1>17, <1>18 DEF HistoryInv

LEMMA UpdateRowKeeps ==
  ASSUME HistoryInv, NEW th \in Threads, UpdateMessageEditInDB(th) \/ UpdateMessageDeleteInDB(th)
  PROVE  HistoryInv'
  <1>1. PICK rec : rec = cm[th]
    OBVIOUS
  <1>3. /\ MessagesDeque' = MessagesDeque /\ cached' = cached /\ mixed_up' = mixed_up
        /\ contested' = contested /\ post_faults' = post_faults /\ cm' = cm
    BY DEF UpdateMessageEditInDB, UpdateMessageDeleteInDB, UpdateRow, conversationDoubts
  <1>4. cm' = [cm EXCEPT ![th] = rec]
    BY <1>1, <1>3 DEF HistoryInv, HistoryTypes
  <1>5. MessagesDeque' = MessagesDeque /\ cached' = cached /\ mixed_up' = mixed_up
        /\ contested' = contested /\ post_faults' = post_faults
    BY <1>3
  <1>6. PICK step, status :
          /\ (step = "updateEdit" /\ status = "Edited") \/ (step = "updateDelete" /\ status = "Deleted")
          /\ UpdateRow(th, step, status)
    BY DEF UpdateMessageEditInDB, UpdateMessageDeleteInDB
  <1>7. pc[th] \in {E2, D2} /\ (pc[th] = E2 => status = "Edited") /\ (pc[th] = D2 => status = "Deleted")
    <2>1. AtStep(th, step)
      BY <1>6 DEF UpdateRow
    <2>2. (step = "updateEdit" => pc[th] = E2) /\ (step = "updateDelete" => pc[th] = D2)
      BY <2>1, StepPlaces DEF HistoryInv, HistoryTypes
    <2>3. E2 # D2
      BY EditPlacesAre, DeletePlacesAre
    <2> QED BY <1>6, <2>2, <2>3
  <1>8. \/ messages' = [messages EXCEPT ![rec.id] = status] /\ Advance(th)
        \/ messages' = messages /\ Return(th)
    BY <1>1, <1>6 DEF UpdateRow
  <1>9. CASE messages' = [messages EXCEPT ![rec.id] = status] /\ Advance(th)
    <2>1. PICK p : \/ pc[th] = E2 /\ p = E3 /\ status = "Edited" /\ pc' = [pc EXCEPT ![th] = p]
                   \/ pc[th] = D2 /\ p = D3 /\ status = "Deleted" /\ pc' = [pc EXCEPT ![th] = p]
      BY <1>7, <1>9, Advances
    <2> QED BY <1>1, <1>4, <1>5, <1>9, <2>1, RowChanged
  <1>10. CASE messages' = messages /\ Return(th)
    BY <1>1, <1>4, <1>5, <1>7, <1>10, Returns, NotAuthorKeeps
  <1> QED BY <1>8, <1>9, <1>10

LEMMA DequeShown ==
  ASSUME HistoryInv, NEW th \in Threads, NEW p, NEW status, NEW k,
         \/ pc[th] = E3 /\ p = E4 /\ status = "Edited"
         \/ pc[th] = D3 /\ p = D4 /\ status = "Deleted",
         pc' = [pc EXCEPT ![th] = p], NEW rec, rec = cm[th], cm' = [cm EXCEPT ![th] = rec],
         MessagesDeque' = IF k = 0 THEN MessagesDeque ELSE [MessagesDeque EXCEPT ![k].status = status],
         ~mixed_up => /\ k # 0 => k \in DOMAIN MessagesDeque /\ MessagesDeque[k].id = rec.id
                      /\ \A i \in DOMAIN MessagesDeque : MessagesDeque[i].id = rec.id => i = k,
         messages' = messages, cached' = cached, mixed_up' = mixed_up,
         contested' = contested, post_faults' = post_faults
  PROVE  HistoryInv'
  <1>1. p \in ChangePlaces /\ p \in Fresh /\ pc[th] \in ChangePlaces /\ pc[th] \in {E2, E3, D2, D3} /\ status \in Statuses
    BY DEF ChangePlaces, Statuses, Fresh
  <1>2. p \in Places /\ p \notin ReadPlaces /\ p \notin PostPlaces /\ p # M2 /\ p # R2 /\ p \notin {G1, G2, G3, G4, G5}
        /\ p # <<>> /\ pc[th] # M2 /\ pc[th] # R3 /\ p \notin {E3, D3} /\ p \in {E4, D4} /\ p \notin {M2, E2, E3, D2, D3}
    BY <1>1, ChangePlaceIs, ShowsApart, FreshApart
  <1>3. PICK id \in MessageIds : id = rec.id
    BY <1>1 DEF HistoryInv, ThreadInv, Change
  <1>4. MessagesDeque \in Seq(Entry(MessageIds)) /\ Len(MessagesDeque) \in Nat
        /\ DOMAIN MessagesDeque = 1..Len(MessagesDeque)
        /\ \A i \in DOMAIN MessagesDeque : MessagesDeque[i] \in Entry(MessageIds)
    BY Typed DEF HistoryInv, HistoryTypes
  <1>5. /\ MessagesDeque' \in Seq(Entry(MessageIds)) /\ DOMAIN MessagesDeque' = DOMAIN MessagesDeque
        /\ \A i \in DOMAIN MessagesDeque :
               /\ MessagesDeque'[i].id = MessagesDeque[i].id
               /\ MessagesDeque'[i].status = IF k # 0 /\ i = k THEN status ELSE MessagesDeque[i].status
    <2>1. CASE k = 0 \/ k \notin DOMAIN MessagesDeque
      <3>1. MessagesDeque' = MessagesDeque
        BY <1>4, <2>1
      <3> QED BY <1>4, <2>1, <3>1
    <2>2. CASE k # 0 /\ k \in DOMAIN MessagesDeque
      <3>1. PICK e : e = [MessagesDeque[k] EXCEPT !.status = status]
        OBVIOUS
      <3>2. e \in Entry(MessageIds) /\ e.id = MessagesDeque[k].id /\ e.status = status
        BY <1>1, <1>4, <2>2, <3>1 DEF Entry
      <3>3. MessagesDeque' = [MessagesDeque EXCEPT ![k] = e]
        BY <2>2, <3>1
      <3>4. /\ MessagesDeque' \in Seq(Entry(MessageIds)) /\ Len(MessagesDeque') = Len(MessagesDeque)
            /\ \A j \in 1..Len(MessagesDeque) : MessagesDeque'[j] = IF j = k THEN e ELSE MessagesDeque[j]
        BY <1>4, <2>2, <3>2, <3>3, ExceptSeq
      <3> QED BY <1>4, <2>2, <3>2, <3>4
    <2> QED BY <2>1, <2>2
  <1>6. MessageIds' = MessageIds /\ Len(messages) \in Nat
    BY Typed DEF MessageIds
  <1>7. rec \in MessageCall /\ rec.id \in 0..Len(messages)
    BY Typed
  <1>8. \A o \in Threads : pc'[o] = IF o = th THEN p ELSE pc[o]
    BY DEF HistoryInv, HistoryTypes
  <1>9. \A o \in Threads : cm'[o] = cm[o]
    BY DEF HistoryInv, HistoryTypes
  <1>10. HistoryTypes'
    BY <1>2, <1>5, <1>6, <1>7, TypesKept DEF MessageCall, Entry, HistoryInv, HistoryTypes
  <1>11. Apart'
    BY <1>1, <1>2, ApartStays
  <1>12. UnknownEmpty'
    BY <1>1, ChangeKnows DEF UnknownEmpty
  <1>13. Newest'
    BY <1>2, <1>5, PendingStays DEF HistoryInv, Newest, AreNewest
  <1>14. ~mixed_up => \A j : j # id /\ Agree(j) => Agree(j)'
    BY <1>3, <1>5 DEF Agree
  <1>15. ~mixed_up /\ id \notin contested => Agree(id)'
    BY <1>1, <1>3, <1>4, <1>5 DEF Agree, HistoryInv, ThreadInv, Change
  <1>16. Shows'
    BY <1>3, <1>6, <1>8, <1>9, <1>14, <1>15 DEF Shows, HistoryInv, Changed
  <1>17. ChangesApart'
    BY <1>1, <1>2, ChangesApartStay
  <1>18. ThreadInv(th)'
    BY <1>2, <1>3, <1>8, <1>9, <1>15, Unfetched, LocalsApart DEF Change, Agree, Downloaded, Page,
       Posted, Locals, ThreadInv
  <1>19. ASSUME NEW o \in Threads, o # th PROVE ThreadInv(o)'
    BY <1>1, <1>3, <1>6, <1>8, <1>9, <1>14, <1>19, ChangeAlone, OtherThread DEF Agree
  <1> QED BY <1>10, <1>11, <1>12, <1>13, <1>16, <1>17, <1>18, <1>19 DEF HistoryInv

LEMMA ShownKeeps ==
  ASSUME HistoryInv, NEW th \in Threads, NEW step, NEW k, NEW status, Shown(th, step, k, status),
         (step = "showEdit" /\ status = "Edited") \/ (step = "showDelete" /\ status = "Deleted"),
         ~mixed_up /\ pc[th] \in {E3, D3} => k = Found(cm[th].id)
  PROVE  HistoryInv'
  <1>1. PICK rec : rec = cm[th]
    OBVIOUS
  <1>2. cm' = [cm EXCEPT ![th] = rec]
    BY <1>1 DEF Shown, HistoryInv, HistoryTypes
  <1>3. messages' = messages /\ cached' = cached /\ mixed_up' = mixed_up /\ contested' = contested
        /\ post_faults' = post_faults /\ Advance(th)
    BY DEF Shown, conversationDoubts
  <1>4. MessagesDeque' = IF k = 0 THEN MessagesDeque ELSE [MessagesDeque EXCEPT ![k].status = status]
    BY DEF Shown
  <1>5. pc[th] \in {E3, D3} /\ (pc[th] = E3 => status = "Edited") /\ (pc[th] = D3 => status = "Deleted")
    BY StepPlaces, ShowsApart DEF Shown, HistoryInv, HistoryTypes
  <1>6. PICK p : \/ pc[th] = E3 /\ p = E4 /\ status = "Edited" /\ pc' = [pc EXCEPT ![th] = p]
                 \/ pc[th] = D3 /\ p = D4 /\ status = "Deleted" /\ pc' = [pc EXCEPT ![th] = p]
    BY <1>3, <1>5, Advances
  <1>7. ~mixed_up => /\ k # 0 => k \in DOMAIN MessagesDeque /\ MessagesDeque[k].id = rec.id
                     /\ \A i \in DOMAIN MessagesDeque : MessagesDeque[i].id = rec.id => i = k
    BY <1>1, <1>5, Typed, FoundIs
  <1> QED BY <1>1, <1>2, <1>3, <1>4, <1>6, <1>7, DequeShown

LEMMA ShowKeeps ==
  ASSUME HistoryInv, NEW th \in Threads, ShowEdit(th) \/ ShowDelete(th)
  PROVE  HistoryInv'
  BY Typed, PassedIs, ShownKeeps DEF ShowEdit, ShowDelete

(***************************************************************************)
(* Posts.                                                                  *)
(***************************************************************************)
LEMMA PostPlaceIs ==
  ASSUME NEW p \in PostPlaces
  PROVE  p \in Places /\ p \notin ReadPlaces /\ p \notin ChangePlaces /\ p # <<>> /\ p # R2 /\ p # R3
         /\ p \notin {E2, E3, D2, D3} /\ p \notin {G1, G2, G3, G4, G5} \cup OtherPlaces
  BY KindsApart, PlacesApart DEF Places, ReadPlaces, ChangePlaces

LEMMA PostAlone ==
  ASSUME HistoryInv, ~mixed_up, NEW th \in Threads, pc[th] \in PostPlaces
  PROVE  \A o \in Threads : pc[o] \notin ReadPlaces /\ (o # th => pc[o] \notin PostPlaces)
  BY PostPlaceIs DEF HistoryInv, Apart

LEMMA RowInserted ==
  ASSUME HistoryInv, NEW th \in Threads, NEW p, NEW rec, pc[th] = M1,
         \/ p = M2 /\ rec = [NoMessage EXCEPT !.id = Len(messages) + 1] /\ mixed_up' = mixed_up
         \/ p = M3 /\ rec = NoMessage /\ mixed_up' = TRUE,
         pc' = [pc EXCEPT ![th] = p], cm' = [cm EXCEPT ![th] = rec],
         messages' = Append(messages, "Sent"), MessagesDeque' = MessagesDeque, cached' = cached,
         contested' = contested, post_faults' \in 0..MaxPostFaults
  PROVE  HistoryInv'
  <1>1. PICK n \in Nat : n = Len(messages) /\ MessageIds = 1..n
    BY Typed
  <1>2. messages \in Seq(Statuses) /\ MessagesDeque \in Seq(Entry(MessageIds)) /\ mixed_up \in BOOLEAN
    BY DEF HistoryInv, HistoryTypes
  <1>3. /\ messages' \in Seq(Statuses) /\ Len(messages') = n + 1 /\ messages'[n + 1] = "Sent"
        /\ \A j \in 1..n : messages'[j] = messages[j]
    BY <1>1, <1>2 DEF Statuses
  <1>4. MessageIds' = 1..n + 1
    BY <1>3 DEF MessageIds
  <1>5. p \in PostPlaces /\ pc[th] \in PostPlaces /\ pc[th] # M2
    BY PostPlacesAre DEF PostPlaces
  <1>6. p \in Places /\ p \notin ReadPlaces /\ p \notin ChangePlaces /\ p # <<>> /\ p # R2 /\ p # R3
        /\ p \notin {E2, E3, D2, D3} /\ p \notin {G1, G2, G3, G4, G5} /\ pc[th] \notin ChangePlaces
        /\ pc[th] \notin {G1, G2, G5} \cup OtherPlaces
    BY <1>5, PostPlaceIs
  <1>7. M3 # M2
    BY PostPlacesAre
  <1>8. \A s : s \in Seq(Entry(MessageIds)) => s \in Seq(Entry(MessageIds)')
    <2>1. Entry(MessageIds) \subseteq Entry(MessageIds)'
      BY <1>1, <1>4 DEF Entry
    <2> QED BY <2>1, SeqMonotonic
  <1>9. rec.id \in 0..n + 1 /\ rec.fetched = FALSE /\ (p = M2 => rec.id = n + 1) /\ rec \in MessageCall'
    <2>1. <<>> \in Seq(Entry(MessageIds)')
      OBVIOUS
    <2>2. NoMessage \in MessageCall'
      BY <2>1 DEF NoMessage, MessageCall
    <2>3. NoMessage.id = 0 /\ NoMessage.fetched = FALSE
      BY DEF NoMessage
    <2>4. CASE p = M2 /\ rec = [NoMessage EXCEPT !.id = Len(messages) + 1]
      <3>1. rec = [NoMessage EXCEPT !.id = n + 1] /\ n + 1 \in Nat
        BY <1>1, <2>4
      <3>2. rec.id = n + 1 /\ rec.fetched = FALSE
        BY <3>1 DEF NoMessage
      <3>3. rec \in MessageCall'
        BY <2>1, <3>1 DEF NoMessage, MessageCall
      <3> QED BY <3>2, <3>3
    <2>5. CASE p = M3 /\ rec = NoMessage
      BY <1>7, <2>2, <2>3, <2>5
    <2> QED BY <2>4, <2>5
  <1>10. \A o \in Threads : pc'[o] = IF o = th THEN p ELSE pc[o]
    BY DEF HistoryInv, HistoryTypes
  <1>11. \A o \in Threads : cm'[o] = IF o = th THEN rec ELSE cm[o]
    BY DEF HistoryInv, HistoryTypes
  <1>12. mixed_up' \in BOOLEAN /\ (mixed_up => mixed_up') /\ (~mixed_up' => p = M2)
    BY <1>2
  <1>13. HistoryTypes'
    <2>1. MessagesDeque' \in Seq(Entry(MessageIds)') /\ cached' \in {"no", "known", "unknown"}
          /\ contested' \subseteq MessageIds'
      BY <1>1, <1>2, <1>4, <1>8 DEF HistoryInv, HistoryTypes
    <2>2. Len(messages') >= Len(messages) /\ rec.id \in 0..Len(messages')
      BY <1>1, <1>3, <1>9
    <2> QED BY <1>3, <1>6, <1>9, <1>12, <2>1, <2>2, TypesKept
  <1>14. Apart'
    BY <1>5, <1>6, <1>12, ApartStays
  <1>15. cached # "no" /\ UnknownEmpty'
    BY <1>6 DEF HistoryInv, UnknownEmpty
  <1>16. Newest'
    BY <1>1, <1>3, <1>5, <1>10, <1>12, PostAlone, Typed DEF Newest, AreNewest, Pending, PostPlaces,
       HistoryInv
  <1>17. \A i \in DOMAIN MessagesDeque : MessagesDeque[i].id \in 1..n
    BY <1>1, Typed
  <1>18. \A j \in 1..n : Agree(j) => Agree(j)'
    BY <1>3 DEF Agree
  <1>19. Shows'
    BY <1>1, <1>4, <1>6, <1>10, <1>11, <1>12, <1>17, <1>18 DEF Shows, Agree, HistoryInv, Changed
  <1>20. ChangesApart'
    BY <1>1, <1>3, <1>6, <1>10, <1>11, Typed DEF HistoryInv, ChangesApart
  <1>21. ThreadInv(th)'
    BY <1>3, <1>4, <1>6, <1>9, <1>10, <1>11, LocalsApart DEF Change, Downloaded, Page, Locals,
       Posted, ThreadInv
  <1>22. ASSUME NEW o \in Threads, o # th PROVE ThreadInv(o)'
    <2>1. pc'[o] = pc[o] /\ cm'[o] = cm[o] /\ contested \subseteq contested' /\ Len(messages') \in Nat
          /\ Len(messages') >= Len(messages) /\ (mixed_up => mixed_up')
      BY <1>1, <1>3, <1>10, <1>11, <1>12, <1>22
    <2>2. ~(~mixed_up' /\ pc[o] \in ReadPlaces) /\ ~(~mixed_up' /\ pc[o] = M2)
      BY <1>5, <1>12, <1>22, PostAlone DEF PostPlaces
    <2>3. ASSUME cm[o].id \in MessageIds \ contested'
          PROVE  messages'[cm[o].id] = messages[cm[o].id] /\ (Agree(cm[o].id) => Agree(cm[o].id)')
      <3>1. PICK j : j = cm[o].id
        OBVIOUS
      <3>2. j \in 1..n
        BY <1>1, <2>3, <3>1
      <3>3. messages'[j] = messages[j] /\ (Agree(j) => Agree(j)')
        BY <1>3, <1>18, <3>2
      <3> QED BY <2>1, <3>1, <3>3 DEF Agree
    <2> QED BY <2>1, <2>2, <2>3, OtherThread
  <1> QED BY <1>13, <1>14, <1>15, <1>16, <1>19, <1>20, <1>21, <1>22 DEF HistoryInv

LEMMA UploadMessageKeeps ==
  ASSUME HistoryInv, NEW th \in Threads, UploadMessage(th)
  PROVE  HistoryInv'
  <1>1. pc[th] = M1
    BY StepPlaces DEF UploadMessage, HistoryInv, HistoryTypes
  <1>2. cm[th] = NoMessage
    BY <1>1 DEF HistoryInv, ThreadInv, Locals
  <1>3. cached' = cached /\ MessagesDeque' = MessagesDeque /\ contested' = contested
    BY DEF UploadMessage
  <1>4. CASE /\ messages' = Append(messages, "Sent")
             /\ SetLocal(th, [cm[th] EXCEPT !.id = Len(messages')]) /\ Advance(th) /\ UNCHANGED <<mixed_up, post_faults>>
    <2>1. PICK p, rec : p = M2 /\ rec = [NoMessage EXCEPT !.id = Len(messages) + 1]
      OBVIOUS
    <2>2. messages' = Append(messages, "Sent") /\ mixed_up' = mixed_up
      BY <1>4
    <2>3. Len(messages') = Len(messages) + 1
      BY <2>2 DEF HistoryInv, HistoryTypes
    <2>4. cm' = [cm EXCEPT ![th] = rec]
      BY <1>2, <1>4, <2>1, <2>3 DEF SetLocal
    <2>5. pc' = [pc EXCEPT ![th] = p]
      BY <1>1, <1>4, <2>1, Advances
    <2>6. post_faults' \in 0..MaxPostFaults
      BY <1>4 DEF HistoryInv, HistoryTypes
    <2> QED BY <1>1, <1>3, <2>1, <2>2, <2>4, <2>5, <2>6, RowInserted
  <1>5. CASE messages' = Append(messages, "Sent") /\ Return(th) /\ PostFault /\ mixed_up' = TRUE /\ UNCHANGED cm
    <2>1. PICK p, rec : p = M3 /\ rec = NoMessage
      OBVIOUS
    <2>2. messages' = Append(messages, "Sent") /\ mixed_up' = TRUE
      BY <1>5
    <2>3. cm' = [cm EXCEPT ![th] = rec]
      BY <1>2, <1>5, <2>1 DEF HistoryInv, HistoryTypes
    <2>4. pc' = [pc EXCEPT ![th] = p]
      BY <1>1, <1>5, <2>1, Returns
    <2>5. post_faults' \in 0..MaxPostFaults
      BY <1>5, FaultCounted
    <2> QED BY <1>1, <1>3, <2>1, <2>2, <2>3, <2>4, <2>5, RowInserted
  <1>6. CASE Return(th) /\ PostFault /\ UNCHANGED <<messages, cm, mixed_up>>
    <2>1. PICK p, rec : p = M3 /\ rec = NoMessage
      OBVIOUS
    <2>2. messages' = messages /\ mixed_up' = mixed_up /\ mixed_up' \in BOOLEAN /\ cached' \in {"no", "known", "unknown"}
      BY <1>3, <1>6 DEF HistoryInv, HistoryTypes
    <2>3. cm' = [cm EXCEPT ![th] = rec]
      BY <1>2, <1>6, <2>1 DEF HistoryInv, HistoryTypes
    <2>4. pc' = [pc EXCEPT ![th] = p]
      BY <1>1, <1>6, <2>1, Returns
    <2>5. post_faults' \in 0..MaxPostFaults
      BY <1>6, FaultCounted
    <2>6. p \in PostPlaces /\ pc[th] \in PostPlaces /\ pc[th] # M2 /\ p # M2 /\ p \in Fresh
      BY <1>1, <2>1, PostPlacesAre DEF PostPlaces, Fresh
    <2>7. p \in Places /\ p \notin ReadPlaces /\ p \notin ChangePlaces /\ pc[th] \notin ChangePlaces
          /\ pc[th] \notin {G1, G2, G5} \cup OtherPlaces
      BY <2>6, PostPlaceIs
    <2>8. cached # "no"
      BY <2>7 DEF HistoryInv, UnknownEmpty
    <2>9. rec \in MessageCall /\ rec.id \in 0..Len(messages)
      BY <2>1, NoMessageIs, Typed
    <2>10. pc'[th] = p /\ cm'[th] = rec
      BY <2>3, <2>4 DEF HistoryInv, HistoryTypes
    <2>11. ThreadInv(th)'
      BY <2>1, <2>6, <2>10, FreshThread
    <2> QED BY <1>3, <2>2, <2>3, <2>4, <2>5, <2>6, <2>7, <2>8, <2>9, <2>11, ReadStep
  <1> QED BY <1>4, <1>5, <1>6 DEF UploadMessage

LEMMA PushFrontKeeps ==
  ASSUME HistoryInv, NEW th \in Threads, PushFront(th)
  PROVE  HistoryInv'
  <1>1. pc[th] = M2
    BY StepPlaces DEF PushFront, HistoryInv, HistoryTypes
  <1>2. PICK p, rec : p = M3 /\ rec = cm[th]
    OBVIOUS
  <1>3. messages' = messages /\ cached' = cached /\ mixed_up' = mixed_up /\ contested' = contested
        /\ post_faults' = post_faults
    BY DEF PushFront, conversationDoubts
  <1>4. pc' = [pc EXCEPT ![th] = p]
    BY <1>1, <1>2, Advances DEF PushFront
  <1>5. cm' = [cm EXCEPT ![th] = rec]
    BY <1>2 DEF PushFront, HistoryInv, HistoryTypes
  <1>6. p \in PostPlaces /\ pc[th] \in PostPlaces /\ p # M2
    BY <1>1, <1>2, PostPlacesAre DEF PostPlaces
  <1>7. p \in Places /\ p \notin ReadPlaces /\ p \notin ChangePlaces /\ p # <<>> /\ p # R2 /\ p # R3
        /\ p \notin {E2, E3, D2, D3} /\ p \notin {G1, G2, G3, G4, G5} /\ pc[th] \notin ChangePlaces
        /\ pc[th] \notin {G1, G2, G5} \cup OtherPlaces /\ pc[th] # R3
    BY <1>6, PostPlaceIs
  <1>8. PICK n \in Nat, m \in Nat : n = Len(messages) /\ MessageIds = 1..n /\ m = Len(MessagesDeque)
    BY Typed
  <1>9. PICK id \in 1..n : id = rec.id
    BY <1>1, <1>2, <1>8 DEF HistoryInv, ThreadInv, Change
  <1>10. MessageIds' = MessageIds
    BY <1>3 DEF MessageIds
  <1>11. PICK e : e = [id |-> id, status |-> "Sent"]
    OBVIOUS
  <1>12. e \in Entry(MessageIds) /\ e.id = id /\ e.status = "Sent"
    BY <1>8, <1>11 DEF Entry, Statuses
  <1>13. MessagesDeque \in Seq(Entry(MessageIds)) /\ DOMAIN MessagesDeque = 1..m
    BY <1>8, Typed DEF HistoryInv, HistoryTypes
  <1>14. /\ MessagesDeque' \in Seq(Entry(MessageIds)) /\ DOMAIN MessagesDeque' = 1..m + 1 /\ MessagesDeque'[1] = e
         /\ \A i \in 2..m + 1 : MessagesDeque'[i] = MessagesDeque[i - 1]
    BY <1>2, <1>8, <1>9, <1>11, <1>12, <1>13, ConcatProperties DEF PushFront
  <1>15. rec \in MessageCall /\ rec.id \in 0..Len(messages) /\ ~rec.fetched
    BY <1>2, <1>7, Typed, Unfetched
  <1>16. \A o \in Threads : pc'[o] = IF o = th THEN p ELSE pc[o]
    BY <1>4 DEF HistoryInv, HistoryTypes
  <1>17. \A o \in Threads : cm'[o] = cm[o]
    BY <1>2, <1>5 DEF HistoryInv, HistoryTypes
  <1>18. HistoryTypes'
    BY <1>3, <1>4, <1>5, <1>7, <1>8, <1>10, <1>14, <1>15, TypesKept DEF MessageCall, Entry,
       HistoryInv, HistoryTypes
  <1>19. Apart'
    BY <1>3, <1>4, <1>6, <1>7, ApartStays
  <1>20. UnknownEmpty'
    BY <1>3, <1>7 DEF HistoryInv, UnknownEmpty
  <1>21. ~mixed_up => id = n /\ messages[n] = "Sent" /\ Pending = 1 /\ Pending' = 0
    BY <1>1, <1>2, <1>6, <1>8, <1>9, <1>16, PostAlone DEF HistoryInv, ThreadInv, Posted, Pending,
       PostPlaces
  <1>22. ~mixed_up => \A i \in 1..m : MessagesDeque[i].id + i + 1 = n + 1 /\ MessagesDeque[i].id \in Nat
    BY <1>8, <1>13, <1>21, Typed DEF HistoryInv, Newest, AreNewest
  <1>23. Newest'
    <2> SUFFICES ASSUME ~mixed_up, NEW i \in 1..m + 1
                 PROVE  MessagesDeque'[i].id + i + 0 = n + 1
      BY <1>3, <1>8, <1>14, <1>21 DEF Newest, AreNewest
    <2>1. CASE i = 1
      BY <1>12, <1>14, <1>21, <2>1
    <2>2. CASE i # 1
      <3>1. i \in 2..m + 1 /\ i - 1 \in 1..m
        BY <2>2
      <3>2. PICK d \in Nat : d = MessagesDeque[i - 1].id
        BY <1>22, <3>1
      <3>3. d + (i - 1) + 1 = n + 1
        BY <1>22, <3>1, <3>2
      <3>4. d + i + 0 = n + 1
        BY <3>1, <3>3
      <3> QED BY <1>14, <3>1, <3>2, <3>4
    <2> QED BY <2>1, <2>2
  <1>24. \A j : j # id /\ Agree(j) => Agree(j)'
    <2> SUFFICES ASSUME NEW j, j # id, Agree(j), NEW i \in 1..m + 1, MessagesDeque'[i].id = j
                 PROVE  MessagesDeque'[i].status = messages[j]
      BY <1>3, <1>14 DEF Agree
    <2>1. i # 1
      BY <1>12, <1>14
    <2>2. i \in 2..m + 1 /\ i - 1 \in 1..m
      BY <2>1
    <2> QED BY <1>13, <1>14, <2>2 DEF Agree
  <1>25. ~mixed_up => Agree(id)'
    <2> SUFFICES ASSUME ~mixed_up, NEW i \in 1..m + 1, MessagesDeque'[i].id = id
                 PROVE  MessagesDeque'[i].status = messages[id]
      BY <1>3, <1>14 DEF Agree
    <2>1. CASE i = 1
      BY <1>12, <1>14, <1>21, <2>1
    <2>2. CASE i # 1
      <3>1. i \in 2..m + 1 /\ i - 1 \in 1..m
        BY <2>2
      <3>2. n + (i - 1) + 1 = n + 1
        BY <1>14, <1>21, <1>22, <3>1
      <3> QED BY <3>1, <3>2
    <2> QED BY <2>1, <2>2
  <1>26. Shows'
    BY <1>3, <1>7, <1>10, <1>16, <1>17, <1>24, <1>25 DEF Shows, HistoryInv, Changed
  <1>27. ChangesApart'
    BY <1>3, <1>4, <1>5, <1>6, <1>7, ChangesApartStay
  <1>28. ThreadInv(th)'
    BY <1>2, <1>6, <1>7, <1>15, <1>16, <1>17, LocalsApart DEF Change, Posted, Downloaded, Page,
       Locals, ThreadInv
  <1>29. ASSUME NEW o \in Threads, o # th PROVE ThreadInv(o)'
    <2>1. pc'[o] = pc[o] /\ cm'[o] = cm[o] /\ contested \subseteq contested' /\ Len(messages') \in Nat
          /\ Len(messages') >= Len(messages) /\ (mixed_up => mixed_up')
      BY <1>3, <1>8, <1>16, <1>17, <1>29
    <2>2. ~(~mixed_up' /\ pc[o] \in ReadPlaces) /\ ~(~mixed_up' /\ pc[o] = M2)
      BY <1>3, <1>6, <1>29, PostAlone DEF PostPlaces
    <2>3. ASSUME ~mixed_up', pc[o] \in ChangePlaces, cm[o].id \in MessageIds \ contested'
          PROVE  messages'[cm[o].id] = messages[cm[o].id] /\ (Agree(cm[o].id) => Agree(cm[o].id)')
      <3>1. PICK j : j = cm[o].id
        OBVIOUS
      <3>2. j < n /\ j \in Nat
        BY <1>1, <1>3, <1>8, <2>3, <3>1 DEF HistoryInv, ChangesApart
      <3>3. j # id
        BY <1>3, <1>21, <2>3, <3>2
      <3>4. Agree(j) => Agree(j)'
        BY <1>24, <3>3
      <3> QED BY <1>3, <2>1, <3>1, <3>4 DEF Agree
    <2> QED BY <2>1, <2>2, <2>3, OtherThread
  <1> QED BY <1>18, <1>19, <1>20, <1>23, <1>26, <1>27, <1>28, <1>29 DEF HistoryInv

(***************************************************************************)
(* Downloads and pages.                                                    *)
(***************************************************************************)
LEMMA ReadAlone ==
  ASSUME HistoryInv, ~mixed_up, NEW th \in Threads, pc[th] \in ReadPlaces
  PROVE  /\ \A o \in Threads : pc[o] \notin PostPlaces /\ pc[o] \notin ChangePlaces /\ pc[o] # M2
         /\ \A o \in Threads : o # th => pc[o] \notin ReadPlaces
         /\ Pending = 0
  BY ReadPlaceIs DEF HistoryInv, Apart, PostPlaces, Pending

\* The deque grows by rows that are older.
LEMMA DequeExtended ==
  ASSUME HistoryInv, NEW th \in Threads, NEW p \in ReadPlaces, NEW rec \in MessageCall, pc[th] \in ReadPlaces,
         pc' = [pc EXCEPT ![th] = p], cm' = [cm EXCEPT ![th] = rec], rec.id \in 0..Len(messages),
         NEW rows \in Seq(Entry(MessageIds)), MessagesDeque' = MessagesDeque \o rows,
         ~mixed_up => AreNewest(rows, Len(MessagesDeque)) /\ AreRows(rows),
         messages' = messages, cached' = cached, cached # "no", mixed_up' = mixed_up,
         contested' = contested, post_faults' = post_faults, ThreadInv(th)'
  PROVE  HistoryInv'
  <1>1. p \in Places /\ p \notin ChangePlaces /\ p # M2 /\ p \notin PostPlaces /\ pc[th] # M2
    BY ReadPlaceIs
  <1>2. PICK n \in Nat, m \in Nat : n = Len(messages) /\ MessageIds = 1..n /\ m = Len(MessagesDeque)
    BY Typed
  <1>3. MessagesDeque \in Seq(Entry(MessageIds)) /\ DOMAIN MessagesDeque = 1..m
    BY <1>2, Typed DEF HistoryInv, HistoryTypes
  <1>4. PICK r \in Nat : r = Len(rows) /\ DOMAIN rows = 1..r
    OBVIOUS
  <1>5. /\ MessagesDeque' \in Seq(Entry(MessageIds)) /\ DOMAIN MessagesDeque' = 1..m + r
        /\ \A i \in 1..m : MessagesDeque'[i] = MessagesDeque[i]
        /\ \A i \in m + 1..m + r : MessagesDeque'[i] = rows[i - m]
    BY <1>2, <1>3, <1>4, ConcatProperties
  <1>6. MessageIds' = MessageIds
    BY DEF MessageIds
  <1>7. \A o \in Threads : pc'[o] = IF o = th THEN p ELSE pc[o]
    BY DEF HistoryInv, HistoryTypes
  <1>8. \A o \in Threads : o # th => cm'[o] = cm[o]
    BY DEF HistoryInv, HistoryTypes
  <1>9. HistoryTypes'
    BY <1>1, <1>2, <1>5, <1>6, TypesKept DEF MessageCall, Entry, HistoryInv, HistoryTypes
  <1>10. Apart'
    BY <1>1, ApartStays
  <1>11. UnknownEmpty'
    BY DEF UnknownEmpty
  <1>12. Newest'
    <2> SUFFICES ASSUME ~mixed_up, NEW i \in 1..m + r
                 PROVE  MessagesDeque'[i].id + i + 0 = n + 1
      BY <1>1, <1>2, <1>5, PendingStays, ReadAlone DEF Newest, AreNewest
    <2>1. CASE i \in 1..m
      BY <1>2, <1>3, <1>5, <2>1, ReadAlone DEF HistoryInv, Newest, AreNewest
    <2>2. CASE i \notin 1..m
      <3>1. i \in m + 1..m + r /\ i - m \in 1..r
        BY <2>2
      <3>2. PICK d \in Nat : d = rows[i - m].id
        <4>1. rows[i - m] \in Entry(MessageIds)
          BY <1>4, <3>1
        <4>2. rows[i - m].id \in Nat
          BY <1>2, <4>1 DEF Entry
        <4> QED BY <4>2
      <3>3. d + (i - m) + m = n + 1
        BY <1>2, <1>4, <3>1, <3>2 DEF AreNewest
      <3>4. d + i + 0 = n + 1
        BY <3>1, <3>3
      <3> QED BY <1>5, <3>1, <3>2, <3>4
    <2> QED BY <2>1, <2>2
  <1>13. Shows'
    <2> SUFFICES ASSUME ~mixed_up, NEW j \in MessageIds, j \notin contested PROVE Agree(j)'
      BY <1>6 DEF Shows
    <2>1. Agree(j)
      BY ReadAlone DEF HistoryInv, Shows, Changed
    <2> SUFFICES ASSUME NEW i \in 1..m + r, MessagesDeque'[i].id = j PROVE MessagesDeque'[i].status = messages[j]
      BY <1>5 DEF Agree
    <2>2. CASE i \in 1..m
      BY <1>3, <1>5, <2>1, <2>2 DEF Agree
    <2>3. CASE i \notin 1..m
      <3>1. i \in m + 1..m + r /\ i - m \in 1..r
        BY <2>3
      <3>2. PICK k \in 1..r : k = i - m
        BY <3>1
      <3>3. MessagesDeque'[i] = rows[k]
        BY <1>5, <3>1, <3>2
      <3>4. rows[k].status = messages[rows[k].id]
        BY <1>4 DEF AreRows
      <3> QED BY <3>3, <3>4
    <2> QED BY <2>2, <2>3
  <1>14. ChangesApart'
    BY <1>1, ChangesApartStay
  <1>15. ASSUME NEW o \in Threads, o # th PROVE ThreadInv(o)'
    <2>1. pc'[o] = pc[o] /\ cm'[o] = cm[o] /\ contested \subseteq contested' /\ Len(messages') \in Nat
          /\ Len(messages') >= Len(messages) /\ (mixed_up => mixed_up')
      BY <1>2, <1>7, <1>8, <1>15
    <2>2. ~mixed_up' => pc[o] \notin ReadPlaces /\ pc[o] # M2 /\ pc[o] \notin ChangePlaces
      BY <1>15, ReadAlone
    <2> QED BY <2>1, <2>2, OtherThread
  <1> QED BY <1>9, <1>10, <1>11, <1>12, <1>13, <1>14, <1>15 DEF HistoryInv

LEMMA PushFirstPageKeeps ==
  ASSUME HistoryInv, NEW th \in Threads, PushFirstPage(th)
  PROVE  HistoryInv'
  <1>1. pc[th] = G4
    BY StepPlaces DEF PushFirstPage, HistoryInv, HistoryTypes
  <1>2. PICK p, rows : p = G5 /\ rows = cm[th].rows
    OBVIOUS
  <1>3. messages' = messages /\ cached' = cached /\ mixed_up' = mixed_up /\ contested' = contested
        /\ post_faults' = post_faults
    BY DEF PushFirstPage, conversationDoubts
  <1>4. pc' = [pc EXCEPT ![th] = p]
    BY <1>1, <1>2, Advances DEF PushFirstPage
  <1>5. cm' = [cm EXCEPT ![th] = NoMessage]
    BY DEF PushFirstPage, SetLocal
  <1>6. MessagesDeque' = MessagesDeque \o rows
    BY <1>2 DEF PushFirstPage
  <1>7. p \in ReadPlaces /\ pc[th] \in ReadPlaces /\ p \in Fresh
    BY <1>1, <1>2 DEF ReadPlaces, Fresh
  <1>8. rows \in Seq(Entry(MessageIds))
    BY <1>2, Typed DEF MessageCall
  <1>9. ~mixed_up => AreNewest(rows, Len(MessagesDeque)) /\ AreRows(rows)
    BY <1>1, <1>2 DEF HistoryInv, ThreadInv, Downloaded
  <1>10. cached # "no"
    BY <1>1, DownloadPlacesAre, OpenPlacesAre DEF OtherPlaces, HistoryInv, UnknownEmpty
  <1>11. NoMessage \in MessageCall /\ NoMessage.id \in 0..Len(messages)
    BY NoMessageIs, Typed
  <1>12. pc'[th] = p /\ cm'[th] = NoMessage
    BY <1>4, <1>5 DEF HistoryInv, HistoryTypes
  <1>13. ThreadInv(th)'
    BY <1>7, <1>12, FreshThread
  <1> QED BY <1>3, <1>4, <1>5, <1>6, <1>7, <1>8, <1>9, <1>10, <1>11, <1>13, DequeExtended

\* A call that asked for a page has it in the answer, or has none.
LEMMA PagedThread ==
  ASSUME HistoryInv, NEW th \in Threads, pc'[th] = R3, NEW rec, cm'[th] = rec, messages' = messages, mixed_up' = mixed_up,
         rec.fetched /\ ~mixed_up =>
             \A i \in rec.offset + 1..rec.offset + rec.count : Len(messages) + 1 - i \in MessageIds =>
                 \E j \in DOMAIN rec.answer : rec.answer[j].id = Len(messages) + 1 - i
  PROVE  ThreadInv(th)'
  BY ReadPlaceIs, PagesApart, LocalsApart DEF ReadPlaces, ChangePlaces, Change, Downloaded, Posted,
     Locals, MessageIds, Page, ThreadInv

\* What is in the deque of FromTo(MessagesDeque', ...).
LEMMA AnswerIs ==
  ASSUME NEW S, NEW s \in Seq(S), NEW offset \in Nat, NEW size \in Nat, NEW a,
         a = IF size = offset THEN <<>> ELSE FromTo(s, offset + 1, offset + size)
  PROVE  /\ a \in Seq(S)
         /\ size # offset => \A i \in offset + 1..offset + size :
                i <= Len(s) => i - offset \in DOMAIN a /\ a[i - offset] = s[i]
  <1>1. CASE size = offset
    BY <1>1
  <1>2. CASE size # offset
    <2>1. PICK first \in Nat \ {0}, last \in Int : first = offset + 1 /\ last = offset + size
      OBVIOUS
    <2> DEFINE f == FromTo(s, first, last)
    <2>2. a = f
      BY <1>2, <2>1
    <2>3. /\ f \in Seq(S)
          /\ \A i \in DOMAIN f : i \in Nat \ {0} /\ first + i - 1 \in 1..Len(s) /\ f[i] = s[first + i - 1]
          /\ \A i \in Nat \ {0} : first + i - 1 <= last /\ first + i - 1 <= Len(s) => i \in DOMAIN f
      BY FromToIs, Zenon
    <2> HIDE DEF f
    <2>4. ASSUME NEW i \in offset + 1..offset + size, i <= Len(s)
          PROVE  i - offset \in DOMAIN f /\ f[i - offset] = s[i]
      <3>1. PICK k \in Nat \ {0} : k = i - offset /\ first + k - 1 = i
        BY <2>1
      <3>2. k \in DOMAIN f
        BY <2>1, <2>3, <2>4, <3>1
      <3>3. f[k] = s[i]
        BY <2>3, <3>1, <3>2
      <3> QED BY <3>1, <3>2, <3>3
    <2> QED BY <2>2, <2>3, <2>4
  <1> QED BY <1>1, <1>2

LEMMA DownloadRangeKeeps ==
  ASSUME HistoryInv, NEW th \in Threads, DownloadRange(th)
  PROVE  HistoryInv'
  <1>1. pc[th] = R2
    BY StepPlaces DEF DownloadRange, HistoryInv, HistoryTypes
  <1>2. messages' = messages /\ cached' = cached /\ mixed_up' = mixed_up /\ contested' = contested /\ Return(th)
    BY DEF DownloadRange, conversationDoubts
  <1>3. PICK p : p = R3 /\ pc' = [pc EXCEPT ![th] = p]
    BY <1>1, <1>2, Returns
  <1>4. R2 \in ReadPlaces /\ p \in ReadPlaces /\ pc[th] \in ReadPlaces
    BY <1>1, <1>3 DEF ReadPlaces
  <1>5. cached # "no"
    BY <1>1, PagePlacesAre, DownloadPlacesAre, OpenPlacesAre DEF OtherPlaces, HistoryInv,
       UnknownEmpty
  <1>6. PICK call : call = cm[th]
    OBVIOUS
  <1>7. PICK offset, count, size, n : offset = call.offset /\ count = call.count /\ size = Len(MessagesDeque)
                                      /\ n = Len(messages)
    OBVIOUS
  <1>8. offset \in Nat \ {0} /\ count \in Nat \ {0} /\ size \in Nat /\ n \in Nat /\ MessageIds = 1..n
        /\ (~mixed_up => size < offset + count)
    BY <1>1, <1>6, <1>7, Typed DEF HistoryInv, ThreadInv, Page
  <1>9. call \in MessageCall /\ call.id \in 0..Len(messages) /\ ~call.fetched
    BY <1>1, <1>6, PagesApart, Typed, Unfetched
  <1>10. MessagesDeque \in Seq(Entry(MessageIds))
    BY DEF HistoryInv, HistoryTypes
  <1>11. CASE /\ ExtendRange(th, offset, size, DownloadConversationMessages(size, offset + count - size))
              /\ UNCHANGED conversationDoubts
    <2>1. PICK rows, rest : rows = DownloadConversationMessages(size, offset + count - size)
                            /\ rest = IF size = offset THEN <<>> ELSE FromTo(MessagesDeque', offset + 1, offset + size)
      OBVIOUS
    <2>2. PICK rec : rec = [call EXCEPT !.answer = rows \o rest, !.fetched = TRUE]
      OBVIOUS
    <2>3. MessagesDeque' = MessagesDeque \o rows /\ cm' = [cm EXCEPT ![th] = rec]
      BY <1>6, <1>11, <2>1, <2>2 DEF ExtendRange, SetLocal
    <2>4. post_faults' = post_faults
      BY <1>11 DEF conversationDoubts
    <2>5. PICK limit \in Int : limit = offset + count - size
      BY <1>8
    <2>6. /\ rows \in Seq(Entry(MessageIds)) /\ AreNewest(rows, size) /\ AreRows(rows)
          /\ \A i \in Nat \ {0} : i <= limit /\ size + i <= Len(messages) => i \in DOMAIN rows
      BY <1>8, <2>1, <2>5, DownloadIs
    <2>7. PICK r \in Nat : r = Len(rows) /\ DOMAIN rows = 1..r
      BY <2>6
    <2>8. PICK deque, S : deque = MessagesDeque' /\ S = Entry(MessageIds)
      OBVIOUS
    <2>9. /\ deque \in Seq(S) /\ Len(deque) = size + r
          /\ \A i \in 1..size : deque[i] = MessagesDeque[i]
      BY <1>7, <1>8, <1>10, <2>3, <2>6, <2>7, <2>8, ConcatProperties
    <2>10. /\ rest \in Seq(S)
           /\ size # offset => \A i \in offset + 1..offset + size :
                  i <= Len(deque) => i - offset \in DOMAIN rest /\ rest[i - offset] = deque[i]
      <3>1. rest = IF size = offset THEN <<>> ELSE FromTo(deque, offset + 1, offset + size)
        BY <2>1, <2>8
      <3>2. offset \in Nat /\ size \in Nat /\ deque \in Seq(S)
        BY <1>8, <2>9
      <3> QED BY <3>1, <3>2, AnswerIs
    <2>11. PICK answer, k : answer = rows \o rest /\ k = Len(rest)
      OBVIOUS
    <2>12. /\ answer \in Seq(S) /\ k \in Nat /\ DOMAIN rest = 1..k /\ DOMAIN answer = 1..r + k
           /\ \A i \in 1..r : answer[i] = rows[i]
           /\ \A i \in 1..k : r + i \in 1..r + k /\ answer[r + i] = rest[i]
      BY <2>6, <2>7, <2>8, <2>10, <2>11, ConcatProperties
    <2>13. rec.answer = answer /\ rec.offset = offset /\ rec.count = count /\ rec.id = call.id
      BY <1>7, <1>9, <2>2, <2>11 DEF MessageCall
    <2>14. rec \in MessageCall /\ rec.id \in 0..Len(messages)
      BY <1>9, <2>2, <2>8, <2>11, <2>12, <2>13 DEF MessageCall
    <2>15. pc'[th] = R3 /\ cm'[th] = rec
      BY <1>3, <2>3 DEF HistoryInv, HistoryTypes
    <2>16. ASSUME ~mixed_up, NEW i \in offset + 1..offset + count, n + 1 - i \in 1..n
           PROVE  \E j \in 1..r + k : answer[j].id = n + 1 - i
      <3>1. i \in Nat \ {0} /\ i <= n /\ i > offset /\ i <= offset + count
        BY <1>8, <2>16
      <3>2. CASE i > size
        <4>1. PICK j \in Nat \ {0} : j = i - size
          BY <1>8, <3>1, <3>2
        <4>2. j <= limit /\ size + j <= n
          BY <1>8, <2>5, <3>1, <4>1
        <4>3. j \in 1..r
          BY <1>7, <2>6, <2>7, <4>2
        <4>4. rows[j].id + j + size = n + 1
          BY <1>7, <2>6, <2>7, <4>3 DEF AreNewest
        <4>5. rows[j].id \in Nat
          <5>1. rows[j] \in Entry(MessageIds)
            BY <2>6, <2>7, <4>3
          <5> QED BY <1>8, <5>1 DEF Entry
        <4>6. rows[j].id = n + 1 - i
          BY <1>8, <3>1, <4>1, <4>4, <4>5
        <4>7. j \in 1..r + k /\ answer[j] = rows[j]
          BY <2>7, <2>12, <4>3
        <4> QED BY <4>6, <4>7
      <3>3. CASE i <= size
        <4>1. size # offset /\ i <= offset + size /\ i <= size + r
          BY <1>8, <2>7, <3>1, <3>3
        <4>2. PICK j \in Nat \ {0} : j = i - offset
          BY <1>8, <3>1
        <4>3. i \in offset + 1..offset + size
          BY <1>8, <3>1, <4>1
        <4>4. j \in 1..k /\ rest[j] = deque[i]
          BY <2>9, <2>10, <2>12, <4>1, <4>2, <4>3
        <4>5. i \in 1..size /\ i \in DOMAIN MessagesDeque
          BY <1>7, <1>8, <3>1, <3>3, Typed
        <4>6. MessagesDeque[i].id + i + 0 = n + 1 /\ MessagesDeque[i].id \in Nat
          BY <1>4, <1>7, <1>8, <2>16, <4>5, Typed, ReadAlone DEF HistoryInv, Newest, AreNewest
        <4>7. MessagesDeque[i].id = n + 1 - i
          BY <1>8, <3>1, <4>6
        <4>8. r + j \in 1..r + k /\ answer[r + j] = MessagesDeque[i]
          BY <2>9, <2>12, <4>4, <4>5
        <4> QED BY <4>7, <4>8
      <3> QED BY <1>8, <3>1, <3>2, <3>3
    <2>17. ThreadInv(th)'
      <3>1. ~mixed_up =>
                \A i \in rec.offset + 1..rec.offset + rec.count : Len(messages) + 1 - i \in MessageIds =>
                    \E j \in DOMAIN rec.answer : rec.answer[j].id = Len(messages) + 1 - i
        BY <1>7, <1>8, <2>12, <2>13, <2>16
      <3> QED BY <1>2, <2>15, <3>1, PagedThread
    <2>18. pc' = [pc EXCEPT ![th] = p]
      BY <1>3
    <2>19. ~mixed_up => AreNewest(rows, Len(MessagesDeque)) /\ AreRows(rows)
      BY <1>7, <2>6
    <2> QED BY <1>2, <1>4, <1>5, <2>3, <2>4, <2>6, <2>14, <2>17, <2>18, <2>19, DequeExtended
  <1>12. CASE PostFault /\ SetLocal(th, [call EXCEPT !.answer = IF size = offset THEN <<>> ELSE GetRange(offset, size)])
              /\ UNCHANGED <<MessagesDeque, mixed_up, contested>>
    <2>1. PICK rest : rest = IF size = offset THEN <<>> ELSE FromTo(MessagesDeque, offset + 1, offset + size)
      OBVIOUS
    <2>2. PICK rec : rec = [call EXCEPT !.answer = rest]
      OBVIOUS
    <2>3. MessagesDeque' = MessagesDeque
      BY <1>12
    <2>4. cm' = [cm EXCEPT ![th] = rec]
      BY <1>6, <1>12, <2>1, <2>2 DEF SetLocal, GetRange
    <2>5. rest \in Seq(Entry(MessageIds))
      BY <1>8, <1>10, <2>1, AnswerIs
    <2>6. rec \in MessageCall /\ rec.id \in 0..Len(messages) /\ ~rec.fetched
      BY <1>9, <2>2, <2>5 DEF MessageCall
    <2>7. pc'[th] = R3 /\ cm'[th] = rec
      BY <1>3, <2>4 DEF HistoryInv, HistoryTypes
    <2>8. ThreadInv(th)'
      BY <1>2, <2>6, <2>7, PagedThread
    <2>9. post_faults' \in 0..MaxPostFaults
      BY <1>12, FaultCounted
    <2>10. p \in Places /\ p \notin ChangePlaces /\ p # M2 /\ p \notin PostPlaces
           /\ pc[th] \notin ChangePlaces /\ pc[th] # M2
      BY <1>4, ReadPlaceIs
    <2>11. cached' \in {"no", "known", "unknown"} /\ mixed_up' \in BOOLEAN
      BY <1>2 DEF HistoryInv, HistoryTypes
    <2>12. pc' = [pc EXCEPT ![th] = p]
      BY <1>3
    <2> QED BY <1>2, <1>4, <1>5, <2>3, <2>4, <2>6, <2>8, <2>9, <2>10, <2>11, <2>12, ReadStep
  <1> QED BY <1>6, <1>7, <1>11, <1>12 DEF DownloadRange

(***************************************************************************)
(* The trim, a restart and the first state.                                *)
(***************************************************************************)
\* What the trim leaves is the newest part; a download or page under way counts as mixed up.
LEMMA CleanupKeeps ==
  ASSUME HistoryInv, CleanupOldMessages
  PROVE  HistoryInv'
  <1>1. /\ pc' = pc /\ messages' = messages /\ cached' = cached /\ contested' = contested
        /\ post_faults' = post_faults /\ mixed_up' = (mixed_up \/ BusyIn(Reads))
    BY DEF CleanupOldMessages
  <1>2. cm' = cm
    BY DEF CleanupOldMessages
  <1>3. mixed_up' \in BOOLEAN /\ (mixed_up => mixed_up') /\ (~mixed_up' => ~mixed_up /\ ~BusyIn(Reads))
    BY <1>1 DEF HistoryInv, HistoryTypes, BusyIn
  <1>4. PICK m \in Nat, n \in Nat : m = Len(MessagesDeque) /\ n = Len(messages)
    BY Typed
  <1>5. /\ MessagesDeque' \in Seq(Entry(MessageIds)) /\ Len(MessagesDeque') = Retained /\ Retained < m
        /\ \A i \in 1..Retained : MessagesDeque'[i] = MessagesDeque[i]
    BY <1>4, Constants, SubSeqProperties DEF CleanupOldMessages, HistoryInv, HistoryTypes
  <1>6. Retained \in Nat \ {0} /\ DOMAIN MessagesDeque' = 1..Retained /\ \A i \in 1..Retained : i \in DOMAIN MessagesDeque
    BY <1>4, <1>5, Constants, Typed
  <1>7. MessageIds' = MessageIds
    BY <1>1 DEF MessageIds
  <1>8. HistoryTypes'
    BY <1>1, <1>2, <1>3, <1>5, <1>7 DEF MessageCall, Entry, HistoryInv, HistoryTypes
  <1>9. Apart'
    BY <1>1, <1>3 DEF HistoryInv, Apart
  <1>10. UnknownEmpty'
    BY <1>1, <1>4, <1>5, <1>6 DEF HistoryInv, UnknownEmpty
  <1>11. Newest'
    BY <1>1, <1>3, <1>5, <1>6 DEF Pending, HistoryInv, Newest, AreNewest
  <1>12. \A id : Agree(id) => Agree(id)'
    BY <1>1, <1>5, <1>6 DEF Agree
  <1>13. Shows'
    BY <1>1, <1>2, <1>3, <1>7, <1>12 DEF Shows, HistoryInv, Changed
  <1>14. ChangesApart'
    BY <1>1, <1>2, <1>3 DEF HistoryInv, ChangesApart
  <1>15. ASSUME NEW o \in Threads PROVE ThreadInv(o)'
    BY <1>1, <1>2, <1>3, <1>4, <1>12, BusyKinds, OtherThread DEF Agree
  <1> QED BY <1>8, <1>9, <1>10, <1>11, <1>13, <1>14, <1>15 DEF HistoryInv

\* An idle backend with nothing in memory and nothing in doubt.
LEMMA Started ==
  ASSUME messages' \in Seq(Statuses), pc' = Idle, cached' = "no", MessagesDeque' = <<>>,
         cm' = [th \in Threads |-> NoMessage], mixed_up' = FALSE, contested' = {}, post_faults' \in 0..MaxPostFaults
  PROVE  HistoryInv'
  <1>1. \A th \in Threads : pc'[th] = <<>> /\ cm'[th] = NoMessage
    BY DEF Idle
  <1>2. <<>> \in Places /\ <<>> \in OtherPlaces /\ <<>> \in Fresh
        /\ <<>> \notin PostPlaces /\ <<>> \notin ChangePlaces /\ <<>> \notin ReadPlaces /\ <<>> # M2
    BY PlacesApart, PostPlacesAre DEF Fresh, Places, OtherPlaces
  <1>3. Len(messages') \in Nat
    OBVIOUS
  <1>4. HistoryTypes'
    <2>1. MessagesDeque' \in Seq(Entry(MessageIds)')
      OBVIOUS
    <2>2. pc' \in [Threads -> Places]
      BY <1>2 DEF Idle
    <2>3. NoMessage \in MessageCall'
      BY DEF NoMessage, MessageCall
    <2>4. cm' \in [Threads -> MessageCall'] /\ \A th \in Threads : cm'[th].id \in 0..Len(messages')
      BY <1>1, <1>3, <2>3 DEF NoMessage
    <2> QED BY <2>1, <2>2, <2>4 DEF HistoryTypes
  <1>5. Apart' /\ UnknownEmpty' /\ ChangesApart'
    BY <1>1, <1>2 DEF Apart, UnknownEmpty, ChangesApart
  <1>6. DOMAIN MessagesDeque' = {}
    OBVIOUS
  <1>7. Newest' /\ Shows'
    BY <1>6 DEF Newest, AreNewest, Shows, Agree
  <1>8. \A th \in Threads : ThreadInv(th)'
    BY <1>1, <1>2, FreshThread
  <1> QED BY <1>4, <1>5, <1>7, <1>8 DEF HistoryInv

LEMMA RestartKeeps ==
  ASSUME HistoryInv, ConversationMessagesRestart
  PROVE  HistoryInv'
  BY Started DEF ConversationMessagesRestart, HistoryInv, HistoryTypes

LEMMA InitHolds == ConversationMessagesInit /\ pc = Idle => HistoryInv
  <1> SUFFICES ASSUME ConversationMessagesInit, pc = Idle PROVE HistoryInv
    OBVIOUS
  <1>1. /\ MessagesDeque = <<>> /\ cached = "no" /\ cm = [th \in Threads |-> NoMessage] /\ mixed_up = FALSE
        /\ contested = {} /\ post_faults = 0
    BY DEF ConversationMessagesInit
  <1>2. messages \in Seq(Statuses)
    <2>1. CASE messages = <<>>
      BY <2>1
    <2>2. CASE messages = <<"Deleted", "Sent">>
      BY <2>2 DEF Statuses
    <2> QED BY <2>1, <2>2 DEF ConversationMessagesInit
  <1>3. post_faults \in 0..MaxPostFaults
    BY <1>1, Constants
  <1>4. \A th \in Threads : pc[th] = <<>> /\ cm[th] = NoMessage
    BY <1>1 DEF Idle
  <1>5. <<>> \in Places /\ <<>> \in OtherPlaces /\ <<>> \in Fresh
        /\ <<>> \notin PostPlaces /\ <<>> \notin ChangePlaces /\ <<>> \notin ReadPlaces /\ <<>> # M2
    BY PlacesApart, PostPlacesAre DEF Fresh, Places, OtherPlaces
  <1>6. HistoryTypes
    <2>1. MessagesDeque \in Seq(Entry(MessageIds))
      BY <1>1
    <2>2. pc \in [Threads -> Places]
      BY <1>5 DEF Idle
    <2>3. cm \in [Threads -> MessageCall] /\ \A th \in Threads : cm[th].id \in 0..Len(messages)
      BY <1>1, <1>2, <1>4, NoMessageIs
    <2> QED BY <1>1, <1>2, <1>3, <2>1, <2>2, <2>3 DEF HistoryTypes
  <1>7. Apart /\ UnknownEmpty /\ ChangesApart
    BY <1>1, <1>4, <1>5 DEF Apart, UnknownEmpty, ChangesApart
  <1>8. Newest /\ Shows
    BY <1>1 DEF Newest, AreNewest, Shows, Agree
  <1>9. ASSUME NEW th \in Threads PROVE ThreadInv(th)
    BY <1>4, <1>5, FreshApart DEF NoMessage, MessageIds, Change, Downloaded, Page, Locals, Posted,
       ThreadInv
  <1> QED BY <1>6, <1>7, <1>8, <1>9 DEF HistoryInv

LEMMA StepsKeep ==
  ASSUME HistoryInv, NEW th \in Threads, ConversationMessageStep(th)
  PROVE  HistoryInv'
  <1>1. CASE UploadMessage(th)
    BY <1>1, UploadMessageKeeps
  <1>2. CASE PushFront(th)
    BY <1>2, PushFrontKeeps
  <1>3. CASE \E id \in MessageIds : IsMessageInConversation(th, id)
    BY <1>3, IsMessageInConversationKeeps
  <1>4. CASE UpdateMessageEditInDB(th) \/ UpdateMessageDeleteInDB(th)
    BY <1>4, UpdateRowKeeps
  <1>5. CASE ShowEdit(th) \/ ShowDelete(th)
    BY <1>5, ShowKeeps
  <1>6. CASE SkipKnown(th)
    BY <1>6, SkipKnownKeeps
  <1>7. CASE ReadParticipants(th)
    BY <1>7, ReadParticipantsKeeps
  <1>8. CASE DownloadFirstPage(th)
    BY <1>8, DownloadFirstPageKeeps
  <1>9. CASE PushFirstPage(th)
    BY <1>9, PushFirstPageKeeps
  <1>10. CASE CacheFound(th)
    BY <1>10, CacheFoundKeeps
  <1>11. CASE \E offset, count \in 1..MaxPageOffset : ReadRange(th, offset, count)
    BY <1>11, ReadRangeKeeps
  <1>12. CASE DownloadRange(th)
    BY <1>12, DownloadRangeKeeps
  <1>13. CASE MessageReply(th)
    BY <1>13, ReplyKeeps
  <1> QED BY <1>1, <1>2, <1>3, <1>4, <1>5, <1>6, <1>7, <1>8, <1>9, <1>10, <1>11, <1>12, <1>13
          DEF ConversationMessageStep

LEMMA NextKeeps == HistoryInv /\ [ConversationMessagesNext]_<<pc, conversationVars>> => HistoryInv'
  <1> SUFFICES ASSUME HistoryInv, [ConversationMessagesNext]_<<pc, conversationVars>> PROVE HistoryInv'
    OBVIOUS
  <1>1. ASSUME NEW th \in Threads, ConversationMessageStep(th) PROVE HistoryInv'
    BY <1>1, StepsKeep
  <1>2. ASSUME NEW th \in Threads, ConversationMessageCall(th) PROVE HistoryInv'
    BY <1>2, CallsKeep
  <1>3. CASE CleanupOldMessages
    BY <1>3, CleanupKeeps
  <1>4. CASE ConversationMessagesRestart
    BY <1>4, RestartKeeps
  <1>5. CASE UNCHANGED <<pc, conversationVars>>
    <2>1. UNCHANGED <<pc, messages, cached, MessagesDeque, cm, mixed_up, contested, post_faults>>
      BY <1>5 DEF conversationVars, conversationDoubts
    <2>2. HistoryTypes' /\ Apart' /\ UnknownEmpty' /\ Newest'
      BY <2>1 DEF HistoryInv, HistoryTypes, Apart, UnknownEmpty, Newest, AreNewest, Pending, MessageIds, MessageCall
    <2>3. Shows' /\ ChangesApart'
      BY <2>1 DEF HistoryInv, Shows, ChangesApart, Changed, Agree, MessageIds
    <2>4. ASSUME NEW th \in Threads PROVE ThreadInv(th)'
      <3>1. ThreadInv(th)
        BY DEF HistoryInv
      <3>2. Change(th)' /\ Locals(th)' /\ (~mixed_up' => Posted(th)')
        BY <2>1, <3>1 DEF ThreadInv, Change, Locals, Posted, Agree, MessageIds
      <3>3. Downloaded(th)' /\ Page(th)'
        BY <2>1, <3>1 DEF ThreadInv, Downloaded, Page, AreNewest, AreRows, MessageIds
      <3> QED BY <3>2, <3>3 DEF ThreadInv
    <2> QED BY <2>2, <2>3, <2>4 DEF HistoryInv
  <1> QED BY <1>1, <1>2, <1>3, <1>4, <1>5 DEF ConversationMessagesNext

(***************************************************************************)
(* The theorem.                                                            *)
(***************************************************************************)
\* The messages in memory are the newest rows of the table, newest first and none left out, they
\* show the edits and deletions their rows have, and a page that was asked for has every message
\* of it (ConversationsManager.cpp and the message handlers of PrivateSocketData.cpp), for any
\* number of threads, posts and trims, and through any failures and restarts; except what the
\* histories mixed_up and contested name.
THEOREM HistoryStaysConsistent == ConversationMessagesSpec => []HistoryConsistent
  <1>1. ConversationMessagesInit /\ pc = Idle => HistoryInv
    BY InitHolds
  <1>2. HistoryInv /\ [ConversationMessagesNext]_<<pc, conversationVars>> => HistoryInv'
    BY NextKeeps
  <1>3. HistoryInv => HistoryConsistent
    BY InvShows
  <1> QED BY <1>1, <1>2, <1>3, PTL DEF ConversationMessagesSpec

\* A thread is always at a place of one of the calls: a call makes its steps in their order, and
\* every early return of the handlers ends at the reply.
THEOREM CallsKeepTheirPlaces == ConversationMessagesSpec => [](pc \in [Threads -> Places])
  <1>1. ConversationMessagesInit /\ pc = Idle => HistoryInv
    BY InitHolds
  <1>2. HistoryInv /\ [ConversationMessagesNext]_<<pc, conversationVars>> => HistoryInv'
    BY NextKeeps
  <1>3. HistoryInv => pc \in [Threads -> Places]
    BY DEF HistoryInv, HistoryTypes
  <1> QED BY <1>1, <1>2, <1>3, PTL DEF ConversationMessagesSpec
=============================================================================
