SPECIFICATION Spec
CONSTANTS
    t1 = t1
    t2 = t2
    Threads = {t1, t2}
    ip = ip
    Keys = {ip}
    Addresses = {ip}
    AttemptsToBlock = 1
    LimitedCalls = {"login", "upgrade", "joinInvite", "message"}
    MaxAdded = 3
    InviteAbuseMaxAttempts = 2
    InviteAbuseWindowSeconds = 1
    InviteAbuseBanDurationSeconds = 2
    MaxTime = 3
    u1 = u1
    u2 = u2
    u3 = u3
    Users = {u1, u2, u3}
    Inviters = {u1}
    s1 = s1
    s2 = s2
    Servers = {s1, s2}
    InviteDefaultMaxUses = 1
    InviteDefaultExpiresInSeconds = 1
    InviteMaxExpiresInSeconds = 1
    MaxInvitesPerServer = 1
    AskedUses = {0}
    AskedExpiry = {3}
    MaxCodes = 3
    MaxInviteFaults = 1
CONSTRAINT Counted
SYMMETRY Symmetry
INVARIANTS NoAttemptLost PassedBetweenResets FailuresBan InvitesConsistent InvitesNearlyCapped
CHECK_DEADLOCK FALSE
