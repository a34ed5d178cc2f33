CONSTANTS
    FastLoop = 2
    WifiLoop = 2
    Faults = {}
    Inputs = {"start"}
SPECIFICATION Spec
INVARIANTS
    NoHangWithPump
