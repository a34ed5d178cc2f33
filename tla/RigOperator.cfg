CONSTANTS
    FastLoop = 2
    WifiLoop = 1
    Faults = {"NETWORK", "FINISHED"}
    Inputs = {"sample", "prime", "clear", "flick"}
SPECIFICATION Spec
INVARIANTS
    RelaysOwned
PROPERTIES
    RetryWithPumpsOff
