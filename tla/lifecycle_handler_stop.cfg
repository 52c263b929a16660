SPECIFICATION FairSpec
CONSTANTS
    s1 = s1
    s2 = s2
    w1 = w1
    w2 = w2
    Stoppers <- MCStoppers
    Waiters <- MCWaiters
    ControlCap = 1
PROPERTIES
    HandlerStopEndsSession
CHECK_DEADLOCK FALSE
