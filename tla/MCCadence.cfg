SPECIFICATION Spec
CONSTANTS
    ActiveInterval = 1
    IdleInterval = 2
    FlushInterval = 3
    IdleAfter = 4
    ForcedAfter = 5
    DeepIdleAfter = 6
    BatchSize = 1
    MaxPending = 2
    TickTime = 2
    MaxSetBack = 2
INVARIANTS
    ActiveIsCaptured
PROPERTIES
    CommitsAreSpaced
    FlushIsTimely
    FailureIsRetried
