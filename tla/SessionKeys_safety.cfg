CONSTANTS
    s1 = s1
    k1 = k1
    k2 = k2
    k3 = k3
    a = a
    b = b
    u1 = u1
    Users = {u1}
    NoUser = NoUser
    Sessions = {s1}
    Keys = {k1, k2, k3}
    Threads = {a, b}
    NoKey = NoKey
    NoSession = NoSession
    CircuitBreakerThreshold = 1
    CooldownConfigured = TRUE
    KeyInvalidation = TRUE
    ProbeEnabled = TRUE
    FaultsWhenUp = TRUE
    MaxInstances = 2
    ReuseKeys = FALSE
SPECIFICATION SKSpec
SYMMETRY Symmetry
INVARIANTS SessionKeysConsistent WithdrawnDeleted
PROPERTIES ServedKeyIsCached WithdrawnNeverServed
CHECK_DEADLOCK FALSE
