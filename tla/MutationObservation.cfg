SPECIFICATION BoundarySpec
CONSTANTS
    Writers = {w1, w2}
    Electors = {e1, e2}
    MaxRevision = 2
    MaxRegistrations = 3
    MaxVersion = 2
INVARIANTS ElectionIsCurrent StaleIsWoken
PROPERTIES RevocationIsFinal
