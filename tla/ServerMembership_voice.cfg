CONSTANTS
    u1 = u1
    a = a
    b = b
    UserIds = {u1}
    Threads = {a, b}
    Perms = {0, 1}
    NoRow = NoRow
    AllPermissions = 1
    MaxUses = 1
    MaxObjects = 2
    WriteFaults = FALSE
    ReadFaults = FALSE
SPECIFICATION MembershipSpec
INVARIANTS DisconnectLeavesVoice
CHECK_DEADLOCK FALSE
