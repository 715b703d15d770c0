SPECIFICATION LoopSpec
CONSTANTS
    Task = {t1, t2, t3, t4}
    Items <- CaseStudy
    Contracts <- WorkloadContracts
    Deadlines = {}
    Capacity = 3
    Reservation <- NoReservation
    DeferredLimit = 2
    InteractiveSlack = 1
    EscalationWindow = 6
    DeferredSlack = 36
    SafetyMargin = 6
    Day = 144
    Valley = 12
    Discipline = "edf"
    EnableEscalation = TRUE
    Mode = "intent-aware"
    Tail = 288
    Horizon = 600
SYMMETRY Symmetry
INVARIANTS
    EverythingServed
    DeferralKeepsDeadline
