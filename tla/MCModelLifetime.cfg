CONSTANTS
    MaxLoads = 3
    MaxPtrs = 5
    MaxEpochs = 3
SPECIFICATION FairSpec
INVARIANTS
    TypeOK
    OneOpenImage
    EnvRefsExact
    EnvOutlivesSessions
    ModelsStayUsable
    NoCrashBeforeUnload
PROPERTIES
    ExitReleasesEverything
    ImplementsModelLife
