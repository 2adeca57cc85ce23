SPECIFICATION Spec
CONSTANTS
    WindowSize = 2
    MaxPacketsPerSec = 20
    RateWindow = 1
    ReplayWindowSeconds = 0
    MaxTime = 1
    ZeroTag = ZeroTag
    NoPeer = NoPeer
    RekeyInterval = 3
    Dashboard = Dashboard
    Peers = {peer}
    Kinds = {"clean"}
    Simulated = {"malware"}
    MaxTexts <- TextsOfEach
    MaxOpenings = 2
    MaxRestarts = 1
INVARIANTS TypeOK ArmorOpens ArmorAuthentic CountersMatchVerdicts
CHECK_DEADLOCK FALSE
