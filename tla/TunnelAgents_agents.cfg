SPECIFICATION FairSpec
CONSTANTS
    c1 = c1
    c2 = c2
    ip1 = ip1
    NoPin = NoPin
    Server = Server
    NoPeer = NoPeer
    ZeroTag = ZeroTag
    Clients <- TwoClients
    IpOf <- SameIp
    Expected <- WrongPin
    RekeyInterval = 3
    MaxConns = 1
    Kinds = {"clean", "malware"}
    MaxSends = 1
    MaxDials = 3
    MaxRestarts = 0
    MayStop = TRUE
    MayAbort = TRUE
    WindowSize = 2
    MaxPacketsPerSec = 20
    RateWindow = 1
    ReplayWindowSeconds = 1
    MaxTime = 0
INVARIANTS TypeOK SlotsMatchHandlers NobodyWaitsInVain
PROPERTIES SlotsComeBack HandshakesEnd CallsReturn
CHECK_DEADLOCK FALSE
