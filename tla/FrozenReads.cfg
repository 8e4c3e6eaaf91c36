SPECIFICATION FairSpec
CONSTANTS
    Threads = {t1, t2}
    Maximum = 2
    MaxRequests = 1
    MaxId = 3
    MaxRevision = 2
INVARIANTS SlotsAccounted SnapshotsSound
PROPERTY CloseEnds
CHECK_DEADLOCK FALSE
