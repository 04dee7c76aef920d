SPECIFICATION PgSpec
CONSTANTS
    None = None
    w1 = w1
    w2 = w2
    d1 = d1
    d2 = d2
    MaxSafeInteger = 100
    Dimensions = {d1}
    MaxAccounting = 4
    Workers <- MCWorkers
    Plans <- MCRetryPlan
    LeaseDurations = {2}
    Requests <- OneEach
    Usages <- OneEach
    ReservationIds = {}
    AcknowledgementIds = {a1}
    ObservationIds = {}
    MaxTime = 5
    MaxClaims = 4
    MaxRestores = 2
SYMMETRY MCSymmetry
CHECK_DEADLOCK FALSE
INVARIANTS
    LostFencesRejected
    LiveLeaseUsable
    CancelledOnlyOnRequest
    AttemptsAreSerial
    RetriesAreSafe
