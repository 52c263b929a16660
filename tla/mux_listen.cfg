SPECIFICATION FairSpec
CONSTANTS
    d1 = d1
    d2 = d2
    NoDial = NoDial
    Dials <- MCDials
    MaxActions = 2
    InboxCap = 2
INVARIANTS
    ListensBeforeRequest
CHECK_DEADLOCK FALSE
