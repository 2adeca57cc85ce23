SPECIFICATION Spec
CONSTANTS
    c1 = c1
    c2 = c2
    ip1 = ip1
    NoPin = NoPin
    Server = Server
    NoPeer = NoPeer
    ZeroTag = ZeroTag
    Clients <- TwoClients
    IpOf <- SameIp
    Expected <- Unpinned
    RekeyInterval = 3
    MaxConns = 2
    Kinds = {"clean", "malware"}
    MaxSends = 2
    MaxDials = 3
    MaxRestarts = 0
    MayStop = FALSE
    MayAbort = TRUE
    WindowSize = 2
    MaxPacketsPerSec = 20
    RateWindow = 1
    ReplayWindowSeconds = 1
    MaxTime = 0
INVARIANTS ReplyTellsTheTruth CustodyInOrder CustodyMatchesTraffic QuarantineHoldsLatest
CHECK_DEADLOCK FALSE
