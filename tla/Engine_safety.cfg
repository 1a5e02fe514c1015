SPECIFICATION Spec
CONSTANTS
    Main = Main
    Nobody = Nobody
    Threads = {0, 1, 2}
    Loops = {0, 1}
    Users = {u, w}
    TwoDevices = {u}
    MaxConnections = 3
    MaxPresenceFaults = 1
    RestThreads = {2}
    PoolSize = 2
    MaxCrashes = 1
    MaxCalls = 3
INVARIANTS PresenceConsistent FriendsHearLast StopClosesAll PoolConsistent OnlyNestedStuck ReleasedWhenDone
CHECK_DEADLOCK FALSE
