SPECIFICATION FairSpec
CONSTANTS
    Senders = {s1, s2}
    Receivers = {r1}
    Messages = {m1, m2}
    None = None
    Capacity = 2
    CounterMax = 1
INVARIANTS RingConsistent NoLostWakeup
PROPERTIES ImplementsFifo CallsReturn
CHECK_DEADLOCK FALSE
