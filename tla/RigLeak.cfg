CONSTANTS
    FastLoop = 2
    WifiLoop = 2
    Faults = {"LEAK", "SAMPLERERROR", "E01"}
    Inputs = {"start"}
SPECIFICATION Spec
INVARIANTS
    RelaysOwned
    DangerousWhenPumping
PROPERTIES
    ErrorHolds
