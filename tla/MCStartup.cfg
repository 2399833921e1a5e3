CONSTANTS
    Rounds = 2
    Tries = 2
    Polls = 3
    MaxFF = 1
    Ways <- MCWays
    MAX_COUNT = 3
    Rows = 4
    HeadRows = 1
    AddressSpace = 64
    CountSpace = 16
    LowEnd = 8
    HighEnd = 32
    Kilo = 2
    HexBase = 4
    HexDigits = 3
    DecBase = 3
    DecRoom = 2
    Regions <- MCRegions
SPECIFICATION Spec
CHECK_DEADLOCK FALSE
INVARIANTS
    TypeOK
    VerdictIsTrue
    LeavesNoTrace
    KernelShowsMap
PROPERTY Settles
