SPECIFICATION Spec
CONSTANTS
    NR_TASKLETS = 2
    CACHE_SIZE = 2
    BLOCK_WORDS = 4
    MRAM_WORDS = 24
    Starts = {0, 8, 16}
    OpSizes = {1, 3, 4, 7}
    StaleHeap = 1
INVARIANTS
    BuffersDisjoint
    ResultCorrect
    OthersUntouched
PROPERTIES
    Terminates
CHECK_DEADLOCK FALSE
