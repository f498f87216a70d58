CONSTANTS
    x = x
    y = y
    Regs = {x, y}
    L = 4
    Schemes = {"CKKS"}
    EncodeLevels <- MCEncodeLevelsCKKS
    Word = 16
    MaxDeg = 3
SPECIFICATION Spec
VIEW MCView
SYMMETRY MCSymmetry
INVARIANT OperandsAlign
