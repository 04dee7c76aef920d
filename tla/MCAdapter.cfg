SPECIFICATION AdapterFairSpec
CONSTANTS
    None = None
    w1 = w1
    w2 = w2
    d1 = d1
    d2 = d2
    MaxSafeInteger = 100
    Dimensions = {d1}
    MaxAccounting = 4
    Workers = {w1}
    Plans <- MCPlans
    LeaseDurations = {1, 2}
    Requests <- OneEach
    Usages <- OneEach
    ReservationIds = {r1}
    AcknowledgementIds = {a1}
    ObservationIds = {}
    MaxTime = 6
    MaxClaims = 2
    MaxRestores = 0
CHECK_DEADLOCK FALSE
PROPERTIES
    StartedJobSettles
