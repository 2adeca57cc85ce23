SPECIFICATION Spec
CONSTANTS
    c1 = c1
    c2 = c2
    ip1 = ip1
    NoPin = NoPin
    Server = Server
    NoPeer = NoPeer
    ZeroTag = ZeroTag
    Clients <- OneClient
    IpOf <- SameIp
    Expected <- RightPin
    RekeyInterval = 2
    MaxConns = 1
    Kinds = {"clean"}
    MaxSends = 7
    MaxDials = 1
    MaxRestarts = 1
    MayStop = TRUE
    MayAbort = TRUE
    WindowSize = 2
    MaxPacketsPerSec = 3
    RateWindow = 1
    ReplayWindowSeconds = 0
    MaxTime = 3
INVARIANTS RekeyFramesLost
CHECK_DEADLOCK FALSE
