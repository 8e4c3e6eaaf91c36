SPECIFICATION Spec
CONSTANTS
    Threads = {t1, t2}
    Pages = {p1, p2, p3}
    MaxGeneration = 6
    CounterMax = 3
INVARIANT PoolSound
