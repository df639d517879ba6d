SPECIFICATION FairSpec
CONSTANTS
    Word <- MCScattered
    CpuWord <- MCMiddle
    PageOf <- MCOnePage
    Ring <- MCNoWord
    v1 = v1
    v2 = v2
    Val = {v1}
    Chan = {c1, c2}
    Transfers <- MCAround
    Device = Device
    None = None
    PostMax = 1
    FifoMax = 1
    GrantMax = 1
    LongTransfers = FALSE
    OnDuringDma = FALSE
    PokeRaces = FALSE
    TwoWriters = TRUE
PROPERTIES
    TransferFinishes
    RangeRepaired
