SPECIFICATION Spec
CONSTANTS
    Captures <- MCCaptures
    Credentials <- MCCredentials
    Queries <- MCQueries
    TimelineArgs <- MCTimelineArgs
    DeltaLimits = {1}
    RecallArgs <- MCRecallArgs
    ExplainLimits = {1, 3}
    StaleAfter <- MCStaleAfter
    Statements = {"", "ship"}
    RateLimit = 1
    Second = 2
    HourTicks = 2
    DayTicks = 3
    OffsetRange <- MCOffsetRange
    ModelConfigured = TRUE
    TimelineCap = 2
    AppCap = 1
    RecallCap = 1
    SearchCap = 1
    StoreCap = 1
    Epoch = 2
    MaxTime = 5
    MaxSetBack = 1
    MaxRecords = 2
    MaxRows = 2
    MaxRequests = 3
INVARIANTS RateIsHonest PollMissesNothing 
CHECK_DEADLOCK FALSE
