\* Two commands against an elector, one commit, two reopenings and one recovery.
CONSTANTS
    Commands = {c1, c2}
    Electors = {e1}
    MaxRevision = 1
    MaxVersion = 1
    MaxGeneration = 2
    MaxStore = 3
SYMMETRY Callers
SPECIFICATION Spec
INVARIANT PublishedIsCurrent
PROPERTY ElectionFreezesHome
CHECK_DEADLOCK FALSE
