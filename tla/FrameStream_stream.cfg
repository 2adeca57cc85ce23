SPECIFICATION FairSpec
CONSTANTS
    Calls = {a, b}
    NoCall = NoCall
    DataLengths = {0, 1}
    MaxRequests = 3
    HeaderSize = 2
    BlockSize = 5
    SignatureSize = 1
    SealOverhead = 1
    MaxPayloadSize = 20
INVARIANTS TypeOK InStep
PROPERTIES ChannelSpec CallsReturn
CHECK_DEADLOCK FALSE
