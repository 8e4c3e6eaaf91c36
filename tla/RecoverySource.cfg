SPECIFICATION ReplayFairSpec
CONSTANTS
    MaxHistory = 4
    MaxGeneration = 4
    CounterMax = 2
INVARIANT ReplaySound
PROPERTY BothEnd
CHECK_DEADLOCK FALSE
