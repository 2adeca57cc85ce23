SPECIFICATION Spec
CONSTANTS
    c1 = c1
    c2 = c2
    ip1 = ip1
    NoPin = NoPin
    Server = Server
    NoPeer = NoPeer
    ZeroTag = ZeroTag
    Clients <- TwoClients
    IpOf <- SameIp
    Expected <- Unpinned
    RekeyInterval = 5
    MaxConns = 2
    Kinds = {"clean"}
    MaxSends = 1
    MaxDials = 2
    MaxRestarts = 0
    MayStop = FALSE
    MayAbort = FALSE
    WindowSize = 2
    MaxPacketsPerSec = 20
    RateWindow = 1
    ReplayWindowSeconds = 1
    MaxTime = 0
INVARIANTS CleanPayloadAccepted
CHECK_DEADLOCK FALSE
