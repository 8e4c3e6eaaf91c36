\* The manifest and the active document over a queue of one hint.
CONSTANTS
    Manifest = m
    Documents = {a}
    Active = a
    Capacity = 1
    MaxDrain = 2
    MaxVersion = 1
    Overflow = Overflow
SPECIFICATION FairSpec
INVARIANTS TypeOK NoChangeLost QueueCoalesced
PROPERTIES ChangesArrive WorkerEnds
CHECK_DEADLOCK FALSE
