CONSTANTS
    u1 = u1
    u2 = u2
    t1 = t1
    t2 = t2
    t3 = t3
    a = a
    b = b
    Users = {u1, u2}
    Tokens = {t1, t2}
    Threads = {a, b}
    NoUser = NoUser
    NoToken = NoToken
    NoData = NoData
    Lifetime = 1
    TimeBetweenRuns = 1
    StartTime = 0
    MaxTime = 3
    WorkerRuns = TRUE
SPECIFICATION TransferSpec
SYMMETRY Symmetry
INVARIANTS RedeemsItsUser
PROPERTIES DeadStaysDead
CHECK_DEADLOCK FALSE
