SPECIFICATION FairSpec
CONSTANTS
    NameLen = 3
    ExtLen = 2
    Images <- MCImages
    SectorsPerCluster = 2
    UnitsPerSector = 1
    EntriesPerSector = 2
    Paths <- MCPaths
    Offsets = {0, 1, 2, 5}
    Sizes = {0, 1, 2, 4}
INVARIANTS
    TypeOK
    AnswersMatchDisk
    EditorAgrees
    WindowsMatch
PROPERTY
    CallsReturn
CHECK_DEADLOCK FALSE
