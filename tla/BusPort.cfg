CONSTANTS
    Block = 8
    Blocks = 2
    PfDepth = 2
    PostedMax = 2
    Bad <- MCBad
    Menus <- MCMenus
    LateModes = FALSE
    Withdraws = FALSE
SPECIFICATION Spec
INVARIANTS
    FreshReads
    WritesAsAsked
    FaultsReported
CHECK_DEADLOCK FALSE
