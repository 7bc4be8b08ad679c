CONSTANTS
    Files <- MCFiles
    Prefix <- MCPrefix
    Base = 2
    MaxWeight = 4
    MaxValue = 3
    MaxSegments = 2
SPECIFICATION Spec
INVARIANT IsRobust
CHECK_DEADLOCK FALSE
