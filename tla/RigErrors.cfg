CONSTANTS
    FastLoop = 2
    WifiLoop = 2
    Faults = {"FAILTOFILL", "HIGHPRESSURE"}
    Inputs = {"start"}
SPECIFICATION LoopSpec
INVARIANTS
    MonitoredPriming
PROPERTIES
    NoOverfill
    ErrorHolds
    ErrorStops
