CONSTANTS
    Files <- MCFiles
    Prefix <- MCPrefix
    Base = 2
    MaxWeight = 4
    MaxValue = 3
    MaxSegments = 3
    Names <- MCNames
    Blobs <- MCBlobs
    Rewrites <- MCRewrites
    NoFile = NoFile
    MaxChanges = 1
SPECIFICATION FairCallSpec
INVARIANTS
    CallTypeOK
    LocationsApart
    FindsAll
    PointersValid
    OnlyRacesTear
    SessionHasItsData
    OrtOpensNoFile
PROPERTIES
    CallProgresses
    CallEnds
CHECK_DEADLOCK FALSE
