SPECIFICATION Spec
CONSTANTS
    Timer = FALSE
    EventCapacity = 2
    MayPanic = FALSE
PROPERTIES
    PausedShownMeansPaused
CHECK_DEADLOCK FALSE
