SPECIFICATION FairSpec
CONSTANTS
    Threads = {main, dashboard}
    Dashboard = dashboard
    Sockets = {s1, s2}
    NoSocket = NoSocket
    FrameKinds = {"blocked"}
    BufferSize = 2
    RecentLimit = 1
    MaxEvents = 3
INVARIANTS TypeOK LogHoldsLatest SnapshotBacked
PROPERTIES ViewMovesForward LiveKeepReceiving
CHECK_DEADLOCK FALSE
