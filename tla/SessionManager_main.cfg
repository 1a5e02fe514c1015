CONSTANTS
    u1 = u1
    t1 = t1
    t2 = t2
    a = a
    b = b
    Users = {u1}
    Tokens = {t1, t2}
    Threads = {a, b}
    NoUser = NoUser
    NoToken = NoToken
    NoSession = NoSession
    SessionExpirationTime = 1
    TimeBetweenRuns = 1
    StartTime = 1
    MaxTime = 3
SPECIFICATION FairSpec
INVARIANTS SessionsConsistent EndedStaysDead
PROPERTIES RegistrySpec ExpiredSwept
CHECK_DEADLOCK FALSE
