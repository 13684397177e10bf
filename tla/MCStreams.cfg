\* Three streams, so that a barrier that opens too early may leave out one stream or
\* two; two threads, so that a callback can overtake another.
CONSTANTS
    Streams = {s1, s2, s3}
    Nobody = Nobody
    MaxSessionCalls = 5
    Threads = {t1, t2}
    Nominal = 1
    MaxTime = 4
    MaxCalls = 5
    MaxSwitches = 1
    MaxImages = 5
    MaxOperations = 5
SPECIFICATION MCSpec
INVARIANTS CanOpen OpensTogether RecordsCapture SeamlessRun BeginsAtZero
INVARIANTS ImagesAdvance ResourcesAlive
CONSTRAINT Followed
PROPERTIES Opens Contiguous
CHECK_DEADLOCK FALSE
