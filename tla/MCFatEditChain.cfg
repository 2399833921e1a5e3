SPECIFICATION Spec
CONSTANTS
    NumClusters = 7
    FatEntries = 10
    NumFats = 2
    SlotsPerCluster = 3
    Names = {"A", "B", "C.X"}
    DotNames = {"C.X"}
    Inputs = {"one", "big", "gone"}
    Unreadable = {"gone"}
    FileSize <- Sizes
    OldData = {"zero", "junk"}
    MaxSessions = 2
INVARIANT
    ChainErrorIsReal
CHECK_DEADLOCK FALSE
