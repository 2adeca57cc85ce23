SPECIFICATION FairSpec
CONSTANTS
    Files = {"module", "payload"}
    Artifacts = {"payload"}
    Contents = {"old", "new"}
    Absent = Absent
    Locked = Locked
INVARIANTS TypeOK CommandOver ReportsWhatChanged
PROPERTIES RunReturns
