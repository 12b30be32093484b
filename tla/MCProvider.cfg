SPECIFICATION MCSpec
CONSTANTS
    v1 = v1
    v2 = v2
    Caller = {c1, c2}
    Value = {v1, v2}
    Invalid = Invalid
    Manager = {m1, m2}
    First = m1
    Unavailable = Unavailable
    Kind = "pv"
    Described = {"power", "yield", "peak"}
    TTL = 1
    WriteFails = TRUE
    MaxTime = 2
    MaxSends = 2
SYMMETRY MCSymmetry
INVARIANTS ServedIsHeld ExpiryAhead SensorServed
PROPERTIES OnlyExpiredTaken SilentOnceClosed
CHECK_DEADLOCK FALSE
