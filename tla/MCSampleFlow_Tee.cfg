\* A preview and a file behind a tee.
CONSTANTS
    preview = preview  file = file
    Sinks <- MCBoth
    Switched <- MCNone
    Tee = TRUE
    Audio = FALSE
    MaxRequests = 1
    MaxCalls = 3
    MaxSwitches = 0
SPECIFICATION Spec
INVARIANTS FlowAlive RequestsBounded
CHECK_DEADLOCK FALSE
