SPECIFICATION FairSpec
CONSTANTS
    NameLen = 3
    ExtLen = 2
    Images <- UpperImages
    SectorsPerCluster = 2
    UnitsPerSector = 1
    EntriesPerSector = 2
    Paths <- MCPaths
    Offsets = {0, 1, 2, 5}
    Sizes = {0, 1, 2, 4}
INVARIANT
    ReadsWhole
CHECK_DEADLOCK FALSE
