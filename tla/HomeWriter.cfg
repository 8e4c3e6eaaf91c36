SPECIFICATION Spec
CONSTANTS
    Threads = {t1, t2}
    a = a
    b = b
    Domains <- TwoDomains
    Contributions <- Mixed
    MaxCommands = 3
    MaxRevision = 3
    MaxGeneration = 2
SYMMETRY Symmetry
INVARIANTS CommittedIsDurable NotCommittedIsAbsent BatchesSerialize PreparedIsCurrent ReconciledIsTrue
