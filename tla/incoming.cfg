SPECIFICATION FairSpec
CONSTANTS
    NumMsgs = 4
    AckSeqs <- MCAckSeqs
    maxOutOfOrderMessages = 2
    ControlCap = 1
    AckCap = 1
    DataCap = 1
INVARIANTS
    TypeOK
    OrderedDelivery
    AckImpliesAccepted
    ReorderWindow
PROPERTIES
    ImplementsAckedStream
    EverythingRead
    EverythingAcked
    CancelledLoopReturns
CHECK_DEADLOCK FALSE
