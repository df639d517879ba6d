SPECIFICATION Spec
CONSTANTS
    a = a
    b = b
    NoName = NoName
    Names <- MCNames
    Shown <- MCShown
    Images <- MCImages
    MaxCluster = 5
    RootSlots = 2
    SubSlots = 3
    MaxSize = 2
    MaxReqs = 3
    MaxFaults = 1
    GuestDuringGet = FALSE
INVARIANTS
    FilesWhole
    TreeSound
    NoLeak
    GetWhole
PROPERTY
    Bystanders
CHECK_DEADLOCK FALSE
