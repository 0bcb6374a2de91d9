SPECIFICATION FairSpec
CONSTANTS
    Records = {r1, r2, r3}
    MaxClock = 3
    SiteOf <- MCSiteOf
    Window = 2
    BatchSize = 2
    FlushStamps = {7}
    MaxInterrupts = 1
INVARIANTS
    TypeOK
    NoOrphanRows
    FlushedIsIndexed
    SingleCurrentRow
PROPERTIES
    RebuildConverges
    SiteDeletionErases
    
    PendingGetsIndexed
    DrainEnds
