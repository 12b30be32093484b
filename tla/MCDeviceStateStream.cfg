SPECIFICATION StreamSpec
CONSTANTS
    Device = d1
    SKI = {d1}
    NoSKI = none
    RawSKI = {d1}
    NormalizeSKI <- MCNormalizeSKI
    EventType = {"delta", "ack", "discovery"}
    DiscoveryUpdated = "discovery"
    Sub = {s1, s2}
    Capacity = 1
    MaxDeferrals = 1
    MaxRevision = 3
    MaxUnresolved = 0
    NoStream = NoStream
    Absent = Absent
    NoRevision = NoRevision
    ReadsFail = TRUE
    WireCapacity = 1
    MaxLive = 1
SYMMETRY Symmetric
INVARIANTS Converged NoStrandedResync
CHECK_DEADLOCK FALSE
