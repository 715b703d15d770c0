SPECIFICATION FairSpec
CONSTANTS
    Task = {t1, t2}
    Contracts <- StallContracts
    Deadlines = {4}
    Capacity = 3
    Reservation <- DefaultReservation
    DeferredLimit = 2
    InteractiveSlack = 0
    EscalationWindow = 2
    DeferredSlack = 3
    SafetyMargin = 1
    Day = 3
    Valley = 2
    Discipline = "edf"
    EnableEscalation = TRUE
    Mode = "intent-aware"
    Horizon = 3
PROPERTIES
    ServedEventually
    OverdueIsUrgent
    UrgencyKept
    ImplementsLifecycle
INVARIANTS
    PostponedIsPatient
    HumanWaitingIsInteractive
