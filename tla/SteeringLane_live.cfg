SPECIFICATION FairSpec
CONSTANTS
    Threads = {1}
    Connections = {1}
    ConnectionOf <- Alone
    Budget = 8
    MaxInputs = 2
    MaxPublications = 0
    MaxEpoch = 1
PROPERTIES
    AdmittedIsTried ShutdownEnds ParkedIsRetried
CHECK_DEADLOCK FALSE
