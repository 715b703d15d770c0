SPECIFICATION Spec
CONSTANTS
    Task = {t1, t2}
    Capacity = 2
    Worker = {w1}
    StoreFailures = 0
    LeastUrgent = 1
SYMMETRY Symmetry
INVARIANTS
    StoredAsReported
