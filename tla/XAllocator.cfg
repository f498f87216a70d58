CONSTANTS
    Threads = {t1, t2}
    NoOne = NoOne
    Sizes <- MCSizes
    PoolSizes <- MCPoolSizes
    MaxAllocators = 2
    MaxBlocks = 2
    PointerSize = 8
    MaxCalls = 4
SPECIFICATION Spec
INVARIANTS
    FreeListsSound
    CountsRight
    HeaderNamesOwner
    CrashesOnlyAtPoolLimit
PROPERTIES
    EveryCallReturns
    ImplementsClientHeap
CHECK_DEADLOCK FALSE
