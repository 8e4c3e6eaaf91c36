\* Three clients: two leases may still be out when the third is dropped.
CONSTANTS
    Clients = {c1, c2, c3}
SPECIFICATION SupervisorFairSpec
INVARIANTS NeverStranded ResultIsTruthful
PROPERTY DisposalEnds
CHECK_DEADLOCK FALSE
