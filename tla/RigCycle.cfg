CONSTANTS
    FastLoop = 2
    WifiLoop = 2
    Faults = {}
    Inputs = {"start", "pause"}
SPECIFICATION FairSpec
INVARIANTS
    TypeOK
    PrimingExcludesSampling
    FinishesDraining
PROPERTIES
    CycleContinues
    ImplementsScheduler
