SPECIFICATION FairSpec
CONSTANTS
    Request = {r1, r2}
    Capacity = 3
    Fallbacks = {"intent_extraction", "candidate_selection"}
INVARIANTS
    TypeOK
    CallsWithinCapacity
    OutputExists
    ExactAccounting
    FallbacksReported
PROPERTIES
    EveryCoroutineEnds
