SPECIFICATION FairSpec
CONSTANTS
    Threads = {t1, t2, t3}
    MaxAdmissions = 2
    MaxGeneration = 2
INVARIANTS ExclusiveReopen NoLostWakeup
PROPERTIES FailureStopsPublication ImplementsAvailability DrainEnds
