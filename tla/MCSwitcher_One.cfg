\* One branch.
CONSTANTS
    N = 1
    Durations <- MCDurations
    MaxTime = 7
SPECIFICATION Spec
INVARIANTS Contiguous NeverRefused
CHECK_DEADLOCK FALSE
