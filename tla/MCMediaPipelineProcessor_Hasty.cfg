\* Prompt sources of which a sample may be requested while they are paused.
CONSTANTS
    s1 = s1  s2 = s2  k1 = k1  k2 = k2
    Sources <- MCSources
    Sinks <- MCOneSink
    FaultySources <- MCNoSource
    SlowSources = FALSE
    HastySources <- MCSources
    MaxCalls = 4
SPECIFICATION Spec
INVARIANTS StartedSessionCaptures
CHECK_DEADLOCK FALSE
