CONSTANTS
    FastLoop = 2
    WifiLoop = 2
    Faults = {"SAMPLERERROR"}
    Inputs = {"start"}
SPECIFICATION Spec
INVARIANTS
    PumpsOffInReset
