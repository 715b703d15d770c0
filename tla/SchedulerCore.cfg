SPECIFICATION Spec
CONSTANTS
    Task = {t1, t2, t3}
    Contracts <- FleetContracts
    Deadlines = {}
    Capacity = 4
    Reservation <- DefaultReservation
    DeferredLimit = 1
    InteractiveSlack = 0
    EscalationWindow = 1
    DeferredSlack = 3
    SafetyMargin = 1
    Day = 3
    Valley = 2
    Discipline = "edf"
    EnableEscalation = TRUE
    Mode = "intent-aware"
    Horizon = 2
SYMMETRY Symmetry
INVARIANTS
    TypeOK
    CapacityRespected
    RunningWithinCap
    RunningUndegraded
    BatchShare
    IdleFleetServes
PROPERTIES
    ReservationsKept
