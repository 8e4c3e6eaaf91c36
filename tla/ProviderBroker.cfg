SPECIFICATION FairSpec
CONSTANTS
    MaxOperations = 3
INVARIANTS TypeOK ReplyIsOwn OneHolder PermitReleasedFirst WorkerReleased
PROPERTIES ClosedIsFinal SubmitEnds IngesterRetires
CHECK_DEADLOCK FALSE
