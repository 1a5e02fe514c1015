CONSTANTS
    u1 = u1
    a = a
    b = b
    c = c
    UserIds = {u1}
    Threads = {a, b, c}
    Perms = {0, 1}
    NoRow = NoRow
    AllPermissions = 1
    MaxUses = 1
    MaxObjects = 3
    WriteFaults = TRUE
    ReadFaults = TRUE
SPECIFICATION MembershipSpec
SYMMETRY Symmetry
CONSTRAINT SomebodyNotRaced
INVARIANTS MembershipConsistent
CHECK_DEADLOCK FALSE
