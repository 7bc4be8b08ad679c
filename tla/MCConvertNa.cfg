CONSTANTS
    IntBits = 4
    LongBits = 7
    ByteBits = 2
    FloatBits = 3
    DoubleBits = 5
SPECIFICATION Spec
INVARIANT NAStaysNA
CHECK_DEADLOCK FALSE
