\* Two branches of a tee.
CONSTANTS
    N = 2
    Durations <- MCDurations
    MaxTime = 7
SPECIFICATION Spec
INVARIANTS OnlySelected
CHECK_DEADLOCK FALSE
