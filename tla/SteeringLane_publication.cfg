SPECIFICATION FairSpec
CONSTANTS
    Threads = {1}
    Connections = {1}
    ConnectionOf <- Alone
    Budget = 8
    MaxInputs = 1
    MaxPublications = 1
    MaxEpoch = 0
PROPERTIES
    AdmittedIsTried
CHECK_DEADLOCK FALSE
