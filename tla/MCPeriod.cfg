CONSTANTS
    MAX_TASKS = 2
    LoopMs <- MCLoopMs
SPECIFICATION PFairSpec
INVARIANTS
    PTypeOK
    StoppedIsSafe
    NeverOverdue
PROPERTIES
    RunsOnTime
    StopTakesEffect
