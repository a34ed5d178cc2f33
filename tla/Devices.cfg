CONSTANTS
    MAX_COMM_ATTEMPTS = 2
    LineFaults = {"lost", "unheard", "late", "E01"}
    Holes = 3
    MaxResets = 2
    debounceDelay = 6
    longPressDelay = 2
    doubleClickDelay = 2
    MinPass = 1
    MaxPass = 4
    leakHandler_DEBOUNCETIME = 6
    Window = 3
    _debounceTicks = 2
    _clickTicks = 6
    _pressTicks = 10
    MaxTick = 2
    Base = 4
    priming_numBatches = 3
    priming_numBottlesPerBatch = 3
    MaxBottles = 13
    MaxOutages = 2
SPECIFICATION DevicesSpec
INVARIANTS NeverForgets ExperimentSize
PROPERTIES ImplementsSeries SamplingEnds LeakNeedsWater LeakAnnounced OneStartPerPress BatchSize
CHECK_DEADLOCK FALSE
