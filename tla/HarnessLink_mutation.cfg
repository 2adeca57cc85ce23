SPECIFICATION Spec
CONSTANTS
    WindowSize = 1
    MaxPacketsPerSec = 4
    RateWindow = 1
    ReplayWindowSeconds = 1
    MaxTime = 0
    ZeroTag = ZeroTag
    NoPeer = NoPeer
    RekeyInterval = 3
    Sent <- Tolerated
    MaxSeq = 2
    MaxArrivals = 2
INVARIANTS MutationsRejected
CHECK_DEADLOCK FALSE
