CONSTANTS
    MaxLoads = 3
    MaxPtrs = 5
    MaxEpochs = 3
SPECIFICATION FairSpec
INVARIANT HeadersReachLoadedLibrary
