\* Sources that never fail and answer long before a wait expires.
CONSTANTS
    s1 = s1  s2 = s2  k1 = k1  k2 = k2
    Sources <- MCSources
    Sinks <- MCSinks
    FaultySources <- MCNoSource
    SlowSources = FALSE
    HastySources <- MCNoSource
    MaxCalls = 5
SPECIFICATION FairSpec
INVARIANTS CounterIsOutstanding IdleSettled
PROPERTIES ImplementsControl
CHECK_DEADLOCK FALSE
