SPECIFICATION Spec
CONSTANTS
    Word <- MCWord
    CpuWord <- MCCpuWord
    PageOf <- MCPageOf
    Ring <- MCRing
    v1 = v1
    v2 = v2
    Val = {v1, v2}
    Chan = {c1}
    Transfers <- MCOneChannel
    Device = Device
    None = None
    PostMax = 1
    FifoMax = 1
    GrantMax = 1
    LongTransfers = FALSE
    OnDuringDma = FALSE
    PokeRaces = FALSE
    TwoWriters = FALSE
SYMMETRY MCValues
INVARIANTS
    HandedBackCoherent
    SourceWrittenThrough
    DestinationUntouched
    NoWriteForgotten
PROPERTIES
    ImplementsSharedRam
