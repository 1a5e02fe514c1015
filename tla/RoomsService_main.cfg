CONSTANTS
    r1 = r1
    t1 = t1
    t2 = t2
    t3 = t3
    a = a
    b = b
    Rooms = {r1}
    Tokens = {t1, t2, t3}
    Threads = {a, b}
    NoRoom = NoRoom
    NoToken = NoToken
    CircuitBreakerThreshold = 1
    CooldownConfigured = TRUE
    FaultsWhenUp = TRUE
    MaxRestarts = 2
SPECIFICATION FairSpec
INVARIANTS ProvisionedAloneAdmits
PROPERTIES TokenKept BreakerCloses
CHECK_DEADLOCK FALSE
