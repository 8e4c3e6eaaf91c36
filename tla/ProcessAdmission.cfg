\* Two workers and the owner, over a closing of the gate and its reopening; the
\* next closing meets the limit of the epochs.
CONSTANTS
    Workers = {w1, w2}
    EpochMax = 2
SPECIFICATION Spec
SYMMETRY Symmetry
INVARIANT NoWaitCycle
PROPERTY SettledStaysSettled
