SPECIFICATION PSpec
CONSTANTS
    BLOCK_SIZE = 2
    TOTAL_BLOCKS = 4
    NrDpus = 3
    SIZE_T = 64
    Sizes = {3, 9, 4}
    WORD = 2
    Names = {x, y, z}
    Unwritten = Unwritten
VIEW Bookkeeping
SYMMETRY NameSymmetry
CHECK_DEADLOCK FALSE
INVARIANTS
    UnaliasedResident
    EachHoldsItsOwn
    OffsetsStayInStep
PROPERTIES
    CrashesOnlyWhenFull
