SPECIFICATION FairSpec
CONSTANTS
    Sizes <- MCSizes
    FirstSize <- MCFirstSize
    BadSizes <- MCBadSizes
    NoSize <- MCNoSize
    MaxData = 2
    Budgets <- MCBudgets
INVARIANTS
    TypeOK
    OutputInOrder
    InputInOrder
    WaitTellsTheEnd
PROPERTIES
    HelpersEnd
    ShutdownCompletes
    SizeReachesRemote
CHECK_DEADLOCK FALSE
