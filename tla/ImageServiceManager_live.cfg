CONSTANTS
    s1 = s1
    s2 = s2
    k1 = k1
    k2 = k2
    k3 = k3
    a = a
    b = b
    Sessions = {s1}
    Keys = {k1, k2}
    Threads = {a}
    NoKey = NoKey
    NoSession = NoSession
    CircuitBreakerThreshold = 1
    CooldownConfigured = TRUE
    KeyInvalidation = TRUE
    ProbeEnabled = TRUE
    FaultsWhenUp = FALSE
    MaxInstances = 2
    ReuseKeys = TRUE
SPECIFICATION FairSpec
PROPERTIES BreakerCloses KeyHeals
CHECK_DEADLOCK FALSE
