\* Three windows for two places, two selections, a close and two fences.
CONSTANTS
    Windows = {a, b, c}
    MaxWindows = 2
    Selections = {s1, s2}
    Closes = {k}
    EpochMax = 3
SPECIFICATION Spec
INVARIANTS
    TypeOK
    ExclusionHeld
    SelectionExcludes
    ClosedSetIsAll
    ClosedWithoutSelection
PROPERTIES
    CommitsAdmittedSet
CHECK_DEADLOCK FALSE
