CONSTANTS
    W = 7
    Moduli <- SomeModuli
    BlockSize = 2
    TotalBlocks = 5
    CallWidth = 14
    IntBits = 10
    Operands <- SomeOperands
    CallModuli <- SomeCallModuli
    MaxExponent = 13
    \* Indices wrap around at 2^9, and no modulus is longer than a word.
    RingWidth = 16
    USINT = 9
    Rings <- SomeRings
    ArbRings <- SomeArbRings
    Numbers <- SomeNumbers
    Unset = Unset
SPECIFICATION AlgorithmsSpec
INVARIANTS
    NoOverflow
    ReturnsInverse
    ReturnsFirstFit
    ModularExact
    DpuAgreesWhere
    TransformsExact
    AutomorphismsAgree
    PrimesAndRoots
PROPERTIES
    LoopsEnd
CHECK_DEADLOCK FALSE
