CONSTANTS
    small = small
    large = large
    Params = {small, large}
    Tags = {t1, t2}
    SumIndices <- MCSumIndices
    IndexLists <- MCIndexLists
    NoParams = NoParams
    NoStream = NoStream
    MaxContexts = 2
    MaxEntries = 2
SPECIFICATION Spec
SYMMETRY MCSymmetry
INVARIANTS OneContextPerParams KeysServeTheirTag
PROPERTIES ClearRemovesContext KeysKept
CHECK_DEADLOCK FALSE
