CONSTANTS
    SecBits = 3
    CylLow = 1
    CylHigh = 1
    HeadBits = 1
    Reserved = 6
    ImageSize = 8
    MaxLoad = 3
    Modulus = 64
    Files <- MCFiles
    FsInfoAt = {1, 4}
    BackupAt = {0, 3}
    Geo <- MCGeo
    PartAt = {12, 13, 21, 36, 45}
    Tables <- MCTables
    MaxInstalls = 2
SPECIFICATION Spec
CHECK_DEADLOCK FALSE
INVARIANTS
    TypeOK
    StartsWhole
    InstalledBoots
    MetaFound
    HandsOver
PROPERTY StaysReserved
