SPECIFICATION FairSpec
CONSTANTS
    Timer = TRUE
    EventCapacity = 3
    MayPanic = TRUE
INVARIANTS
    TypeOK
    DrainBeforeExit
PROPERTIES
    PauseIsObeyed
    StoppedIsFinal
    ControlReturns
    StopReturns
CHECK_DEADLOCK FALSE
