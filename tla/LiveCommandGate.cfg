SPECIFICATION GateFairSpec
CONSTANTS
    Issued = {c1, c2}
    MaxAuthority = 2
INVARIANT KeptOnlyUnstarted
PROPERTIES OutcomeMatchesCut CloseEnds
CHECK_DEADLOCK FALSE
