SPECIFICATION FairSpec
CONSTANTS
    NumWrites = 3
    maxInflightMessages = 2
    resendInterval = 1
    resendTimeout = 2
    OutCap = 1
    ControlCap = 1
    AckCap = 1
    ControlMsgs <- MCControlMsgs
INVARIANTS
    TypeOK
    WireIsStream
PROPERTIES
    ImplementsAckedStream
    EveryWriteResolves
CHECK_DEADLOCK FALSE
