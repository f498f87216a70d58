SPECIFICATION Spec
CONSTANTS
    t1 = t1
    t2 = t2
    Nobody = Nobody
    Threads = {t1, t2}
    NrDpusAsked <- Asked
    ElementCount = 2
    BLOCK_SIZE = 2
    TOTAL_BLOCKS = 2
INVARIANTS
    InitialisedDataStays
CHECK_DEADLOCK FALSE
