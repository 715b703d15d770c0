SPECIFICATION FairSpec
CONSTANTS
    Task = {t1, t2}
    Capacity = 2
    Worker = {w1}
    StoreFailures = 1
    LeastUrgent = 1
INVARIANTS
    TypeOK
    SlotsCoverCalls
    StartedHasExecution
    RowsCatchUp
    HonestRows
    QuietAfterClose
PROPERTIES
    EveryStartEnds
    CloseEnds
