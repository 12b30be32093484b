SPECIFICATION MCSpec
CONSTANTS
    d1 = d1
    d2 = d2
    SKI = {d1, d2}
    Paired = {d1, d2}
    Beating = {d1}
    GracePeriod = 1
    StaleThreshold = 2
    HeartbeatTolerance = 1
    BaseBackoff = 2
    MaxBackoff = 2
    MaxAttempts = 2
    MaxPending = 1
INVARIANTS AttemptsBounded
PROPERTIES RetriesSpaced RestartJustified StuckIsRestarted
CHECK_DEADLOCK FALSE
