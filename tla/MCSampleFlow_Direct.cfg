\* A file behind a switcher and nothing else.
CONSTANTS
    preview = preview  file = file
    Sinks <- MCFile
    Switched <- MCFile
    Tee = FALSE
    Audio = FALSE
    MaxRequests = 1
    MaxCalls = 1
    MaxSwitches = 6
SPECIFICATION Spec
INVARIANTS ResumedSwitchersFlow
CHECK_DEADLOCK FALSE
