SPECIFICATION CrashSpec
CONSTANTS
    NumClusters = 7
    FatEntries = 10
    NumFats = 2
    SlotsPerCluster = 3
    Names = {"A", "B", "C.X"}
    DotNames = {"C.X"}
    Inputs = {"big", "gone"}
    Unreadable = {"gone"}
    FileSize <- Sizes
    OldData = {"zero", "junk"}
    MaxSessions = 2
INVARIANTS
    TypeOK
    ViewIsTree
    ChainsPartition
    Committed
    SavedSurvives
PROPERTY
    NeverOverwrites
CHECK_DEADLOCK FALSE
