SPECIFICATION Spec
CONSTANTS
    WindowSize = 1
    MaxPacketsPerSec = 5
    RateWindow = 1
    ReplayWindowSeconds = 1
    MaxTime = 0
    ZeroTag = ZeroTag
    MaxSeq = 4
    MaxBurst = 5
    MaxSkew = 0
INVARIANTS AcceptedAtMostOnce
CHECK_DEADLOCK FALSE
