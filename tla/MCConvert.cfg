CONSTANTS
    IntBits = 4
    LongBits = 7
    ByteBits = 2
    FloatBits = 3
    DoubleBits = 5
SPECIFICATION Spec
INVARIANTS
    TypeOK
    ComesBack
    OutputExact
CHECK_DEADLOCK FALSE
