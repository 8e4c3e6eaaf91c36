SPECIFICATION FairSpec
CONSTANTS
    Exact = {ExactOld, ExactNew}
    Threads = {t1, t2, t3}
    ScopeCapacity = 2
    WorkerCapacity = 1
    DescriptorLimit = 2
    ReservedLimit = 3
    MaxToken = 2
INVARIANTS TableConsistent RunnerOwnsScope WorkersUsed CloseIsFinal
PROPERTIES ResolutionIsFinal CallsReturn
