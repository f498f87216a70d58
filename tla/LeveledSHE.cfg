CONSTANTS
    x = x
    y = y
    Regs = {x, y}
    L = 5
    Schemes = {"CKKS", "BGV"}
    EncodeLevels <- MCEncodeLevels
    Word = 16
    MaxDeg = 3
SPECIFICATION Spec
VIEW MCView
SYMMETRY MCSymmetry
INVARIANTS
    TowersMatchLevel
    DegreeTellsScale
    OperandsAlignByTable
    ConstantsMatch
