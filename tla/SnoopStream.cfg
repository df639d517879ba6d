SPECIFICATION StreamSpec
CONSTANTS
    AddrSpace = 3
    Data = {byte, word}
    ByteData = {byte}
    Depth = 2
    None = None
    DirtyReset = FALSE
INVARIANTS
    InPhase
PROPERTIES
    KeepsContract
