--------------------------- MODULE Conversations ---------------------------
(***************************************************************************)
(* The conversations of friends (FConversationsManager and the             *)
(* conversation handlers of FPrivateSocketData): finding or creating the   *)
(* one of a couple, statement by statement, and the two caches made of the *)
(* tables.  Only a friend may be talked to: the call begins with IsFriend, *)
(* of the friend's list, so that fl[th].me is the other one.               *)
(***************************************************************************)
EXTENDS FriendLists

CONSTANTS MaxConversations,      \* bound: conversations created
          MaxConversationFaults  \* bound: statements that fail

ASSUME ConversationsAssumption == {MaxConversations, MaxConversationFaults} \subseteq Nat

VARIABLES
    conversations,             \* table: the ids given out are 1..conversations
    conversation_participants, \* table: rows of conversation and user
    conversationUsers,         \* ConversationIdToConversationData: the users of what is cached
    UserIdToConversation,      \* entries of user and conversation
    cv,                        \* per thread: the conversation it is about, and those left to download
    overlapped,                \* history: two calls created a conversation at once, a download or a
                               \* RemoveFriend overlapped one, or a statement failed
    conversation_faults        \* counted up to their bound

conversationTables == <<conversations, conversation_participants>>
conversationCaches == <<conversationUsers, UserIdToConversation>>
registryVars == <<conversationTables, conversationCaches, cv, overlapped, conversation_faults>>

NoConversation == [id |-> 0, users |-> {}, left |-> {}]
ConversationIds == 0..MaxConversations

GetOrCreateConversation ==
    <<"findConversation", "cacheConversation", "listConversation", "foundConversation",
      "insertConversation", "insertCaller", "insertOther", "cacheConversation", "listConversation">>
AddConversation == IsFriend \o GetOrCreateConversation
DownloadConversationsFromRange == <<"selectConversations", "skipCached", "nextConversation">>
DownloadConversationParticipants == <<"selectParticipants", "cacheConversation", "listConversation">>
RegistryOps == {"GetConversations", "AddConversation", "CallFriend"}

NoConversations ==
    /\ conversations = 0
    /\ conversation_participants = {}
    /\ conversationUsers = [id \in {} |-> {}]
    /\ UserIdToConversation = {}
    /\ cv = [th \in Threads |-> NoConversation]
    /\ overlapped = FALSE
    /\ conversation_faults = 0

\* Two callers are friends, or nobody is.
ConversationsInit ==
    /\ NoConversations
    /\ FriendsStart({}, {}) \/ \E p \in Callers \X Callers : p[1] # p[2] /\ FriendsStart({p}, {})

ConversationFault ==
    /\ conversation_faults < MaxConversationFaults
    /\ conversation_faults' = conversation_faults + 1
    /\ overlapped' = TRUE

NoFault == UNCHANGED <<overlapped, conversation_faults>>

(***************************************************************************)
(* The handlers.                                                           *)
(***************************************************************************)
\* A call about a friend; the calls that start a voice channel or ring go no further here.
BeginWithFriend(th, op, steps, a, b) ==
    /\ Enter(th, steps, op)
    /\ fl' = [fl EXCEPT ![th] = [NoFriendCall EXCEPT !.me = b, !.other = a]]
    /\ overlapped' = (overlapped \/ (op = "AddConversation" /\ BusyIn({"AddConversation", "GetConversations", "RemoveFriend"})))
    /\ UNCHANGED <<friendTables, friendCaches, friendDoubts, conversationTables, conversationCaches, cv, conversation_faults>>

OnMessageReceived_AddConversation(th, a, b) == BeginWithFriend(th, "AddConversation", AddConversation, a, b)
OnMessageReceived_DataStreamChannel(th, a, b) == BeginWithFriend(th, "CallFriend", IsFriend, b, a)
OnMessageReceived_OnUserCalling(th, a, b) == BeginWithFriend(th, "CallFriend", IsFriend, b, a)

OnMessageReceived_GetConversations(th, a) ==
    /\ Enter(th, DownloadConversationsFromRange, "GetConversations")
    /\ fl' = [fl EXCEPT ![th] = [NoFriendCall EXCEPT !.me = a, !.other = a]]
    /\ overlapped' = (overlapped \/ BusyIn({"AddConversation", "GetConversations"}))
    /\ UNCHANGED <<friendTables, friendCaches, friendDoubts, conversationTables, conversationCaches, cv, conversation_faults>>

\* A friendship that ends while a conversation is created.
RemoveFriendMeanwhile(th, a, b) ==
    /\ OnMessageReceived_RemoveFriend(th, a, b)
    /\ overlapped' = (overlapped \/ BusyIn({"AddConversation"}))
    /\ UNCHANGED <<conversationTables, conversationCaches, cv, conversation_faults>>

ConversationReply(th) ==
    /\ Busy(th) /\ Head(pc[th]) \in RegistryOps
    /\ Finish(th)
    /\ fl' = [fl EXCEPT ![th] = NoFriendCall]
    /\ cv' = [cv EXCEPT ![th] = NoConversation]
    /\ UNCHANGED <<friendTables, friendCaches, friendDoubts, conversationTables, conversationCaches>>
    /\ NoFault

Its(th, rec) == cv' = [cv EXCEPT ![th] = rec]

(***************************************************************************)
(* Finding the conversation of two users.                                  *)
(***************************************************************************)
ParticipantsOf(id) == {u \in Users : <<id, u>> \in conversation_participants}
DirectOf(couple) == {id \in 1..conversations : ParticipantsOf(id) = couple}

\* A SELECT that fails finds none.
FindConversation2Ids(th) ==
    LET found == DirectOf(Couple(th)) IN
    /\ AtStep(th, "findConversation")
    /\ \/ \E id \in IF found = {} THEN {0} ELSE found : Its(th, [NoConversation EXCEPT !.id = id, !.users = Couple(th)])
          /\ NoFault
       \/ ConversationFault /\ Its(th, [NoConversation EXCEPT !.users = Couple(th)])
    /\ Advance(th)
    /\ UNCHANGED <<conversationTables, conversationCaches, friendVars>>

\* An object that is there is left as it is.  What was not found is cached under id 0.
CacheConversation(th) ==
    /\ AtStep(th, "cacheConversation")
    /\ IF cv[th].id \in DOMAIN conversationUsers
       THEN Skip(th, 2) /\ UNCHANGED conversationUsers
       ELSE /\ conversationUsers' = [id \in DOMAIN conversationUsers \cup {cv[th].id} |->
                   IF id = cv[th].id THEN cv[th].users ELSE conversationUsers[id]]
            /\ Advance(th)
    /\ UNCHANGED <<conversationTables, UserIdToConversation, cv, friendVars>>
    /\ NoFault

\* Mutant: only the first user's list is told.
AddConversationsForUserToCache_One(th) ==
    /\ AtStep(th, "listConversation")
    /\ \E u \in cv[th].users : UserIdToConversation' = UserIdToConversation \cup {<<u, cv[th].id>>}
    /\ Advance(th)
    /\ UNCHANGED <<conversationTables, conversationUsers, cv, friendVars>>
    /\ NoFault

AddConversationsForUserToCache(th) ==
    /\ AtStep(th, "listConversation")
    /\ UserIdToConversation' = UserIdToConversation \cup {<<u, cv[th].id>> : u \in cv[th].users}
    /\ Advance(th)
    /\ UNCHANGED <<conversationTables, conversationUsers, cv, friendVars>>
    /\ NoFault

FoundConversation(th) ==
    /\ AtStep(th, "foundConversation")
    /\ AdvanceIf(th, cv[th].id = 0)
    /\ UNCHANGED <<registryVars, friendVars>>

(***************************************************************************)
(* Creating it.                                                            *)
(***************************************************************************)
\* What get_last_insert_id returns after an INSERT that failed is undefined.
InsertConversation(th) ==
    /\ AtStep(th, "insertConversation")
    /\ \/ /\ conversations < MaxConversations
          /\ conversations' = conversations + 1
          /\ Its(th, [cv[th] EXCEPT !.id = conversations'])
          /\ Advance(th)
          /\ NoFault
       \/ /\ ConversationFault
          /\ \E id \in 0..conversations :
                 /\ Its(th, [cv[th] EXCEPT !.id = id])
                 /\ AdvanceIf(th, id > 0)
          /\ UNCHANGED conversations
    /\ UNCHANGED <<conversation_participants, conversationCaches, friendVars>>

\* An INSERT that fails ends the loop; both users are cached all the same.
InsertParticipant(th, step, u, rest) ==
    /\ AtStep(th, step)
    /\ \/ /\ conversation_participants' = conversation_participants \cup {<<cv[th].id, u>>}
          /\ Advance(th)
          /\ NoFault
       \/ ConversationFault /\ Skip(th, rest) /\ UNCHANGED conversation_participants
    /\ UNCHANGED <<conversations, conversationCaches, cv, friendVars>>

InsertCaller(th) == InsertParticipant(th, "insertCaller", fl[th].other, 2)

InsertOther(th) == InsertParticipant(th, "insertOther", fl[th].me, 1)

(***************************************************************************)
(* The conversations of a user.                                            *)
(***************************************************************************)
SelectConversations(th) ==
    /\ AtStep(th, "selectConversations")
    /\ \/ /\ Its(th, [NoConversation EXCEPT !.left = {id \in 1..conversations : fl[th].me \in ParticipantsOf(id)}])
          /\ NoFault
       \/ ConversationFault /\ UNCHANGED cv
    /\ Advance(th)
    /\ UNCHANGED <<conversationTables, conversationCaches, friendVars>>

SkipCached(th) ==
    /\ AtStep(th, "skipCached")
    /\ Its(th, [cv[th] EXCEPT !.left = @ \ DOMAIN conversationUsers])
    /\ Advance(th)
    /\ UNCHANGED <<conversationTables, conversationCaches, friendVars>>
    /\ NoFault

NextConversation(th) ==
    /\ AtStep(th, "nextConversation")
    /\ IF cv[th].left = {} THEN Advance(th) /\ UNCHANGED cv
       ELSE /\ Insert(th, DownloadConversationParticipants)
            /\ \E id \in cv[th].left : Its(th, [cv[th] EXCEPT !.id = id, !.left = @ \ {id}])
    /\ UNCHANGED <<conversationTables, conversationCaches, friendVars>>
    /\ NoFault

\* Participants that could not be read are taken for none.
SelectParticipants(th) ==
    /\ AtStep(th, "selectParticipants")
    /\ \/ Its(th, [cv[th] EXCEPT !.users = ParticipantsOf(cv[th].id)]) /\ NoFault
       \/ ConversationFault /\ Its(th, [cv[th] EXCEPT !.users = {}])
    /\ Advance(th)
    /\ UNCHANGED <<conversationTables, conversationCaches, friendVars>>

ConversationsRestart ==
    /\ FriendsRestart
    /\ conversationUsers' = [id \in {} |-> {}]
    /\ UserIdToConversation' = {}
    /\ cv' = [th \in Threads |-> NoConversation]
    /\ UNCHANGED conversationTables
    /\ NoFault

ConversationStep(th) ==
    \/ FindConversation2Ids(th) \/ CacheConversation(th) \/ AddConversationsForUserToCache(th)
    \/ FoundConversation(th) \/ InsertConversation(th) \/ InsertCaller(th) \/ InsertOther(th)
    \/ SelectConversations(th) \/ SkipCached(th) \/ NextConversation(th) \/ SelectParticipants(th)
    \/ ConversationReply(th)

ConversationCall(th) ==
    \/ \E a, b \in Callers :
           /\ a # b
           /\ \/ OnMessageReceived_AddConversation(th, a, b)
              \/ OnMessageReceived_DataStreamChannel(th, a, b)
              \/ OnMessageReceived_OnUserCalling(th, a, b)
              \/ RemoveFriendMeanwhile(th, a, b)
    \/ \E a \in Callers : OnMessageReceived_GetConversations(th, a)

ConversationsNext ==
    \/ \E th \in Threads : ConversationStep(th) \/ ConversationCall(th) \/ (FriendStep(th) /\ UNCHANGED registryVars)
    \/ ConversationsRestart

ConversationsSpec == ConversationsInit /\ pc = Idle /\ [][ConversationsNext]_<<pc, friendVars, registryVars>>

(***************************************************************************)
(* Properties.                                                             *)
(***************************************************************************)
ConversationsTypeOK ==
    /\ conversations \in ConversationIds
    /\ conversation_participants \subseteq (1..conversations) \X Users
    /\ DOMAIN conversationUsers \subseteq 0..conversations
    /\ \A id \in DOMAIN conversationUsers : conversationUsers[id] \subseteq Users
    /\ UserIdToConversation \subseteq Users \X (0..conversations)
    /\ \A th \in Threads :
           /\ cv[th].id \in 0..conversations
           /\ cv[th].users \subseteq Users
           /\ cv[th].left \subseteq 1..conversations
    /\ overlapped \in BOOLEAN
    /\ conversation_faults \in 0..MaxConversationFaults

\* ConversationsManager.cpp:684 "direct message which we do not want to duplicate": two
\* users have one conversation, however often and from whichever side it is opened
\* and whatever restarts between, unless both create it at once or a statement fails.
OneConversation ==
    ~overlapped => \A p \in Pairs : Cardinality(DirectOf({p[1], p[2]})) <= 1

\* A cached conversation has the users the table gives it, and is in the list of each of
\* them, once no call is creating or downloading it: who may write, and to whom his messages
\* go, does not depend on what was cached first.
ConversationCachesAgree ==
    ~overlapped /\ ~BusyIn({"AddConversation", "GetConversations"}) =>
        \A id \in DOMAIN conversationUsers \ {0} :
            /\ conversationUsers[id] = ParticipantsOf(id)
            /\ \A u \in Users : u \in ParticipantsOf(id) <=> <<u, id>> \in UserIdToConversation

\* Tables and caches are consistent about who converses with whom.
ConversationsConsistent == ConversationsTypeOK /\ OneConversation /\ ConversationCachesAgree

\* servers_api.md:362 "Only works if users are friends": a conversation is created while the
\* two are friends in the table, though the answer was read from a cache, unless the
\* friendship was ending or a statement failed.
FriendsConverse ==
    [][conversations' > conversations /\ ~overlapped =>
           \E th \in Threads :
               /\ AtStep(th, "insertConversation") /\ ~AtStep(th, "insertConversation")'
               /\ RowsBetween(fl[th].me, fl[th].other) > 0 \/ Couple(th) \in doubted]_conversations

\* Nothing is cached under an id no conversation has.
NoGhost == 0 \notin DOMAIN conversationUsers
============================================================================
