SPECIFICATION Spec
CONSTANTS
    BLOCK_SIZE = 2
    TOTAL_BLOCKS = 3
    NrDpus = 3
    SIZE_T = 64
    Sizes <- AllSizes
INVARIANTS
    RecordsAgree
PROPERTIES
    FailureLeavesNoTrace
    ImplementsRegionAllocator
