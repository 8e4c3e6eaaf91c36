\* Two requests, both limits within reach, one failing release.
CONSTANTS
    MaxRequests = 2
    PendingLimit = 2
    CollectionLimit = 1
    MaxFaults = 1
SPECIFICATION FairSpec
INVARIANTS TypeOK CustodyExact ReleaseOwed NeverStale SettledIsDrained
PROPERTIES EveryRequestEnds DroppedIsReleased StopSettles
CHECK_DEADLOCK FALSE
