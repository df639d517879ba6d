SPECIFICATION Spec
CONSTANTS
    Settle = 1
    ShortGap = 3
    LongUp = 3
    QuiesceMax = 2
    ResetMax = 2
    BounceGap = 1
    RunOn = 2
    BounceUp = 2
    Unwatched = FALSE
    MaxSwitch = 2
    MaxPress = 1
    MaxCmds = 1
INVARIANTS Exclusive NoResetLost
PROPERTIES NoBootOnBounce Booted
CHECK_DEADLOCK FALSE
