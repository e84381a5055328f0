SPECIFICATION FairSpec
CONSTANTS
    Task = {t1, t2, t3}
    Scan = {c1, c2}
    Caller = {d1}
    Limit = 2
INVARIANTS
    TypeOK
    ConcurrencyBound
    NobodyForgotten
    MarksMatchJobs
PROPERTIES
    DestroyIsQuiet
    DestroyDrainResolves
    ScanGetsSlot
CHECK_DEADLOCK FALSE
