SPECIFICATION FairReadersSpec
CONSTANTS
    Records = {r1, r2}
    MaxClock = 2
    SiteOf <- MCSiteOf
    Window = 2
    BatchSize = 2
    FlushStamps = {7}
    MaxInterrupts = 1
    Calls = {c1}
    VectorRoute = TRUE
INVARIANTS
    ReadersTypeOK
    AnswerWasTrue
    SearchIsComplete
    EachChunkOnce
    AuditIsExact
PROPERTIES
    CallReturns
CHECK_DEADLOCK FALSE
