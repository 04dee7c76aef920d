SPECIFICATION Spec
CONSTANTS
    None = None
    w1 = w1
    w2 = w2
    d1 = d1
    d2 = d2
    MaxSafeInteger = 100
    Dimensions = {d1}
    MaxAccounting = 4
    Workers <- MCWorkers
    Plans <- MCPlans
    LeaseDurations = {1, 2}
    Requests <- OneEach
    Usages <- OneEach
    ReservationIds = {r1}
    AcknowledgementIds = {a1}
    ObservationIds = {o1}
    MaxTime = 5
SYMMETRY MCSymmetry
CHECK_DEADLOCK FALSE
INVARIANTS
    CancelledOnlyOnRequest
