SPECIFICATION FairSpec
CONSTANTS
    m1 = m1
    b1 = b1
    Medium = {m1}
    Wp = {}
    Block = {0}
    Buf = {b1}
    Data = {0, 1}
    Command <- MCCommands
    None = None
    Failed = Failed
    GenMax = 1
INVARIANTS
    OneOwner
PROPERTIES
    ImplementsDisk
    CommandEnds
