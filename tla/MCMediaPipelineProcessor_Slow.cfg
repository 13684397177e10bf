\* Sources that may fail to start and may answer after a wait has expired.
CONSTANTS
    s1 = s1  s2 = s2  k1 = k1  k2 = k2
    Sources <- MCSources
    Sinks <- MCOneSink
    FaultySources <- MCSources
    SlowSources = TRUE
    HastySources <- MCSources
    MaxCalls = 3
SPECIFICATION FairSpec
INVARIANTS GateFollowsSession StreamAnnouncedOnce
PROPERTIES CallsReturn
CHECK_DEADLOCK FALSE
