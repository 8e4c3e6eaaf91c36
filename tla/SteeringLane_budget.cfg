SPECIFICATION FairSpec
CONSTANTS
    Threads = {1, 2}
    Connections = {1, 2}
    ConnectionOf <- Apart
    Budget = 2
    MaxInputs = 1
    MaxPublications = 0
    MaxEpoch = 0
PROPERTIES
    AdmittedIsTried
CHECK_DEADLOCK FALSE
