\* Two jobs in one page, a ready queue of one, one slot: every reservation
\* contends with the scan.
CONSTANTS
    MaxJob = 2
    Dispatchers = {d1}
    Maximum = 1
    PageItems = 2
    ReadyItems = 1
    MaxChanges = 1
    MaxReserves = 1
SPECIFICATION FairSpec
INVARIANTS TypeOK NoBlindSleep PauseHasCause OwnFlightOnly
PROPERTIES DueIsReconciled PauseEnds RefusedIsWoken ShutdownEnds
CHECK_DEADLOCK FALSE
