----------------------------- MODULE MCPrivate -----------------------------
(* Friends, their conversations, and the messages of one conversation for   *)
(* TLC.  Conversations runs with the friendships it asks for; the requests  *)
(* that make friendships, and the messages, are parts of their own, so that *)
(* the state spaces add up instead of multiplying.                          *)
EXTENDS Conversations, ConversationMessages, TLC

VARIABLE part

vars == <<friendVars, registryVars, conversationVars, pc, part>>

Init ==
    /\ ConversationMessagesInit
    /\ pc = Idle
    /\ \/ part = "friends" /\ FriendsInit /\ NoConversations
       \/ part = "conversations" /\ ConversationsInit
       \/ part = "messages" /\ FriendsStart({}, {}) /\ NoConversations
    /\ part # "messages" => messages = <<>>

Next ==
    /\ UNCHANGED part
    /\ \/ part = "friends" /\ FriendsNext /\ UNCHANGED <<registryVars, conversationVars>>
       \/ part = "conversations" /\ ConversationsNext /\ UNCHANGED conversationVars
       \/ part = "messages" /\ ConversationMessagesNext /\ UNCHANGED <<friendVars, registryVars>>

Spec == Init /\ [][Next]_vars

\* Once a couple is doubted only the limits are claimed of it: such states are followed
\* further as long as requests are sent and nobody is friends.  Nothing is claimed of the
\* other parts once their calls overlapped as their histories say.
Undoubted ==
    /\ ~overlapped /\ ~mixed_up /\ contested = {}
    /\ \/ doubled = {}
       \/ part = "friends" /\ ~BusyIn(FriendOps \ {"CreateFriendRequest"}) /\ \A p \in Pairs : friend_list[p] = 0

Symmetry == {f @@ g : f \in Permutations(Threads), g \in Permutations(Callers)}
============================================================================
