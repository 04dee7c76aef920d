SPECIFICATION Spec
CONSTANTS
    None = None
    w1 = w1
    w2 = w2
    d1 = d1
    d2 = d2
    MaxSafeInteger = 100
    Dimensions = {d1}
    MaxAccounting = 4
    Workers = {w1}
    Plans <- MCRetryPlan
    LeaseDurations = {1, 2}
    Requests <- MCRequests
    Usages <- MCUsages
    ReservationIds = {r1, r2}
    AcknowledgementIds = {}
    ObservationIds = {}
    MaxTime = 4

CHECK_DEADLOCK FALSE
INVARIANTS
    SuccessIsClean
    BudgetIsConserved
    LedgerReadable
