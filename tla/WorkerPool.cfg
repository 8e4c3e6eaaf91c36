\* Two permits above the least capacity: a cold preparation, which needs four,
\* can be both refused and granted.
SPECIFICATION PoolSpec
CONSTANTS
    PoolCapacity = 6
    MaxOwed = 1
INVARIANTS ReserveKept RefusedIsTold
