CONSTANTS
    MaxRank = 4
    MaxDim = 3
SPECIFICATION Spec
INVARIANTS
    TypeOK
    ReadsInBounds
    StridesNonZero
    TensorIsRowMajor
    RoundTrip
CHECK_DEADLOCK FALSE
