\* Waits that end early or late, starts that fail, and devices that are removed,
\* preempted or fail.
CONSTANTS
    MaxCalls = 4
    StartMayFail = TRUE
    Disturbances <- MCDisturbances
    MaxDisturbances = 1
SPECIFICATION FairSpec
INVARIANTS ClosedIsLast AnsweredByOwnEvent StartedFlagAgrees FinalizedBeforeShutdown NeverRelocks
PROPERTIES CallsEnd
CHECK_DEADLOCK FALSE
