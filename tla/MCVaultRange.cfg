SPECIFICATION Spec
CONSTANTS
    Records = {r1, r2}
    MaxClock = 3
    SiteOf <- MCSiteOf
    Window = 2
    BatchSize = 2
    FlushStamps = {7}
    MaxInterrupts = 0
PROPERTIES
    RangeDeletionErases
