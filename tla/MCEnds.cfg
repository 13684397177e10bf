\* Two chains for the timer to start beside the first, two readers that overtake
\* each other, and a second audio client after the first.
CONSTANTS
    Chains = {c1, c2, c3}
    NoChain = NoChain
    MaxCalls = 6
    InitialStates = {"Uninitialized", "Started", "Paused"}
    MaxAsked = 4
    Readers = {r1, r2}
    Capacity = 2
    MaxSamples = 4
    MaxRequests = 3
    BufferSize = 2
    QueueSize = 2
    MaxClients = 2
    MaxMethods = 5
SPECIFICATION MCSpec
CONSTRAINT Followed
INVARIANTS OneChain NotMultiplied RequestsGoOn OneSample NoMissedWakeup SomeoneIsServed
INVARIANTS ClientAlive NeverTerminated NothingFromBefore
PROPERTIES ImplementsTicker ShowsOn NeverBackwards MethodsReturn
CHECK_DEADLOCK FALSE
