SPECIFICATION FairSpec
CONSTANTS
    d1 = d1
    d2 = d2
    NoDial = NoDial
    Dials <- MCDials
    MaxActions = 2
    InboxCap = 2
INVARIANTS
    TypeOK
    StreamsAreOwned
    WaitTellsTheEnd
    HandshakeBeforeData
PROPERTIES
    DialDoesNotHang
    ShutdownCompletes
    StartReturns
CHECK_DEADLOCK FALSE
