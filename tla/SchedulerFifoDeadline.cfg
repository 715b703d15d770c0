SPECIFICATION Spec
CONSTANTS
    Task = {t1, t2, t3}
    Contracts <- BaselineContracts
    Deadlines = {3}
    Capacity = 3
    Reservation <- NoReservation
    DeferredLimit = 2
    InteractiveSlack = 0
    EscalationWindow = 1
    DeferredSlack = 3
    SafetyMargin = 1
    Day = 3
    Valley = 2
    Discipline = "fifo"
    EnableEscalation = FALSE
    Mode = "contract-fifo"
    Horizon = 2
SYMMETRY Symmetry
PROPERTIES
    ArrivalOrder
