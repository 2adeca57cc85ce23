SPECIFICATION Spec
CONSTANTS
    WindowSize = 1
    MaxPacketsPerSec = 6
    RateWindow = 1
    ReplayWindowSeconds = 1
    MaxTime = 0
    ZeroTag = ZeroTag
    NoPeer = NoPeer
    RekeyInterval = 2
    Sent <- Both
    MaxSeq = 2
    MaxArrivals = 7
INVARIANTS AcceptedAsSent AcceptedAtMostTwice AcceptedUnderFirstKey CustodyMatchesTraffic
CHECK_DEADLOCK FALSE
