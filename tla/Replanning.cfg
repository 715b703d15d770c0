SPECIFICATION Spec
CONSTANTS
    InteractiveSlack = 1
    DeferredSlack = 4
    SafetyMargin = 2
    Day = 6
    Valley = 2
    Capacity = 7
    Horizon = 7
    MaxDeadline = 11
INVARIANTS
    TypeOK
    CongestionOnlyReduces
    WaitingServedInFull
    DeferralLeavesMargin
    SelfVerified
PROPERTIES
    TierKept
    UrgencyOnlyRises
