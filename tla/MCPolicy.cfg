SPECIFICATION FairSpec
CONSTANTS
    Workers = {w1, w2}
    None = None
    Deadline = 4
    AttemptTimeout = 3
    LeaseDuration = 3
    HeartbeatInterval = 1
    Backoff = 1
    MaxAttempts = 2
    RetryableErrors <- MCRetryable
    Limits <- MCLimits
    RuleCount = 1
    MaxHistory = 13
    MaxTime = 4
    MaxFaults = 1
INVARIANTS PolicyTypeOK GraphIsAccepted WorkIsCharged AnnouncedAsItIs
PROPERTIES NothingReadAfterSealing JobSettles
CHECK_DEADLOCK FALSE
