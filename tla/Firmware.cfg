SPECIFICATION Spec
CONSTANTS
    k0 = k0
    k1 = k1
    b0 = b0
    b1 = b1
    Kernels <- MCKernels
    Bitstreams <- MCBitstreams
    Lossy <- MCLossy
    Packages <- MCPackages
    Installed <- MCInstalled
    Absent = Absent
    Partial = Partial
    Junk = Junk
    None = None
    MaxFaults = 2
    MaxActs = 2
INVARIANTS PromotesWhatRan SumTellsFlash
PROPERTIES StableReplacedWhole TryDecided
CHECK_DEADLOCK FALSE
