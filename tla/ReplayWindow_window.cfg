SPECIFICATION Spec
CONSTANTS
    WindowSize = 1
    MaxPacketsPerSec = 3
    RateWindow = 1
    ReplayWindowSeconds = 1
    MaxTime = 2
    ZeroTag = ZeroTag
    MaxSeq = 3
    MaxBurst = 4
    MaxSkew = 1
INVARIANTS TypeOK MemoryBounded AtMostTwice GapsAccountedFor IInv AcceptRateBounded
PROPERTIES BoundedDeliverySpec NoFalseAlarm
CHECK_DEADLOCK FALSE
