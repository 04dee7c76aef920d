SPECIFICATION FairWorkerSpec
CONSTANTS
    None = None
    Workers = {w1, w2}
    MaxSafeInteger = 100
    Dimensions = {d1}
    MaxAccounting = 6
    Plans <- MCPlans
    LeaseDurations = {2}
    Requests = {}
    Usages <- MCUsages
    ReservationIds = {1, 2}
    AcknowledgementIds = {1, 2}
    ObservationIds <- MCObservationIds
    MaxTime = 4
    MaxFaults = 1
INVARIANTS CompletedJobHasEnded
PROPERTIES HolderGivesNothingUp CreatedJobEnds
CHECK_DEADLOCK FALSE
