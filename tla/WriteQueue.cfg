SPECIFICATION FairSpec
CONSTANTS
    w1 = w1
    w2 = w2
    c1 = c1
    Write = {w1, w2}
    Class = {c1}
    ClassOf <- MCClassOf
    None = None
    IdxMod = 8
    RingSize = 2
    Limit = 2
    Batch = 2
    PostedMax = 1
    CmdDepth = 2
    Overtake = 1
    Slack = 2
    HalfRange = FALSE
INVARIANTS
    ForeignReadSees
    NoEmptyWait
    NoWriteRefused
PROPERTIES
    ImplementsOrderedBus
    WaitEnds
