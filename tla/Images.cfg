SPECIFICATION Spec
CONSTANTS
    n1 = n1
    n2 = n2
    Name = {n1, n2}
    NoName = NoName
    Slot = {0}
    VersionMax = 2
    Overlap = FALSE
    LateRefusal = FALSE
    VolumeSizes <- MCSizes
SYMMETRY Names
INVARIANTS
    NoImageLost
    MountedWhole
    ComesBack
    VolumeFits
