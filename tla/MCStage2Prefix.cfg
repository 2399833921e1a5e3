SPECIFICATION Spec
CONSTANTS
    NumKernels = 1
    Kernels <- WithPrefix
    Chunk = 4
    HdrWords = 2
    MaxSearch = 8
    Wrap = 1024
    ClusterSizes = {512}
    ConfigSizes = {100}
    MapCounts = {32}
    MaxLines = 1
    Memory <- MCMemory
INVARIANT
    StartedIsComplete
CHECK_DEADLOCK FALSE
