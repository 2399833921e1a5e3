SPECIFICATION FairSpec
CONSTANTS
    NumKernels = 172
    Kernels <- MCKernels
    Chunk = 4
    HdrWords = 2
    MaxSearch = 8
    Wrap = 1024
    ClusterSizes = {512, 4096}
    ConfigSizes = {2464, 2476, 4097}
    MapCounts = {32}
    MaxLines = 3
    Memory <- MCMemory
INVARIANTS
    TypeOK
    TextLoaded
    BssCleared
    BootInfoFits
    NoHeaderSkipped
PROPERTIES
    WritesStayInside
    Decides
CHECK_DEADLOCK FALSE
