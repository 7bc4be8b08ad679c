CONSTANTS
    Arrays <- MCArrays
    Declared <- MCDeclared
    Produced <- MCProduced
    InputNames <- MCInputNames
    OtherNames <- MCOtherNames
    ModelNames <- MCModelNames
    MaxArgs = 2
    MaxOutputs = 2
SPECIFICATION Spec
INVARIANT OutputsAreReturned
CHECK_DEADLOCK FALSE
