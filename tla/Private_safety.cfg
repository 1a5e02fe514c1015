SPECIFICATION Spec
CONSTANTS
    t1 = t1
    t2 = t2
    Threads = {t1, t2}
    a = a
    b = b
    c = c
    Users = {a, b, c}
    Callers = {a, b}
    MaxSentRequests = 1
    MaxIncomingRequests = 2
    MaxFriendFaults = 1
    MaxConversations = 2
    MaxConversationFaults = 1
    MaxPosts = 3
    FirstPage = 2
    MaxLookback = 1
    Retained = 2
    MaxPageOffset = 2
    MaxPostFaults = 1
CONSTRAINT Undoubted
SYMMETRY Symmetry
INVARIANTS FriendsConsistent RequestLimitsNearlyKept ConversationsConsistent HistoryConsistent
PROPERTIES FriendsOnRequest FriendsConverse
CHECK_DEADLOCK FALSE
