SPECIFICATION FairSpec
CONSTANTS
    Base = 4
    MaxSize = 54
    Requests = {0, 1, 8, 18}
INVARIANTS
    TypeOK
    Inv
    BlocksDisjoint
    Coalesced
    EmptyHeapIsWhole
PROPERTIES
    BestFit
    CallsReturn
    ImplementsPool
