SPECIFICATION Spec
CONSTANTS
    Threads = {1, 2}
    Connections = {1}
    ConnectionOf <- Together
    Budget = 5
    MaxInputs = 1
    MaxPublications = 1
    MaxEpoch = 1
INVARIANTS
    TypeOK ClaimIsReady GateOpens NoUnjoinedSleep DoneIsQuiet OneDelivery
PROPERTIES
    RetryIsFresh
CHECK_DEADLOCK FALSE
