SPECIFICATION FairSpec
CONSTANTS
    Workers = {"capture", "search"}
    Clients = {"flush", "q1", "q2"}
    WorkerOf <- TwoWorkers
    PriorityOf <- Priority
    MayPanic = TRUE
INVARIANTS
    NoSleepOnWork
    BackendHeldByModel
PROPERTIES
    InteractiveAnswered
    IdleModelReclaimed
    DropReturns
CHECK_DEADLOCK FALSE
