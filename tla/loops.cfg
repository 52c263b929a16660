SPECIFICATION FairSpec
CONSTANTS
    NumMsgs = 3
    NumWrites = 1
    maxOutOfOrderMessages = 1
    maxInflightMessages = 1
    resendInterval = 0
    resendTimeout = 1
    ControlCap = 1
    AckCap = 1
    DataCap = 1
    OutCap = 1
    AttentiveReader = TRUE
INVARIANTS
    AckTimeoutIsTrue
PROPERTIES
    LoopsImplementAckedStreams
    EverythingRead
    BothLoopsReturn
CHECK_DEADLOCK FALSE
