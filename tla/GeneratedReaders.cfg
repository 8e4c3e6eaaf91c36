\* Two reader identities over one place, one read, queues of one frame.
CONSTANTS
    MaxId = 2
    Limit = 1
    MaxReads = 1
    QueueMax = 1
    ReplyMax = 1
    MaxPending = 8
SPECIFICATION FairSpec
INVARIANTS TypeOK NoProtocolError ReservationsAgree ClosedMeansReaped
PROPERTY CloseEnds
CHECK_DEADLOCK FALSE
