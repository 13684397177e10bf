\* An audio branch behind a switcher.
CONSTANTS
    preview = preview  file = file
    Sinks <- MCFile
    Switched <- MCFile
    Tee = FALSE
    Audio = TRUE
    MaxRequests = 1
    MaxCalls = 3
    MaxSwitches = 2
SPECIFICATION FairSpec
INVARIANTS AtMostOneLate
PROPERTIES Flowing
CHECK_DEADLOCK FALSE
