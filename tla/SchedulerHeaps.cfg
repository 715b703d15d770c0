SPECIFICATION Spec
CONSTANTS
    Task = {t1, t2}
    Contracts <- HeapContracts
    Deadlines = {1, 4}
    Capacity = 3
    Reservation <- DefaultReservation
    DeferredLimit = 2
    InteractiveSlack = 0
    EscalationWindow = 1
    DeferredSlack = 3
    SafetyMargin = 1
    Day = 3
    Valley = 2
    Discipline = "edf"
    EnableEscalation = TRUE
    Mode = "intent-aware"
    Horizon = 2
    MaxSequence = 8
SYMMETRY Symmetry
INVARIANTS
    OneLiveEntry
PROPERTIES
    ImplementsScheduler
