SPECIFICATION FairStreamSpec
CONSTANTS
    Device = d1
    SKI = {d1}
    NoSKI = none
    RawSKI = {d1}
    NormalizeSKI <- MCNormalizeSKI
    EventType = {"delta", "device", "classified", "discovery"}
    DiscoveryUpdated = "discovery"
    Sub = {s1, s2}
    Capacity = 1
    MaxDeferrals = 1
    MaxRevision = 2
    MaxUnresolved = 0
    NoStream = NoStream
    Absent = Absent
    NoRevision = NoRevision
    ReadsFail = FALSE
    WireCapacity = 1
    MaxLive = 1
PROPERTIES EventuallyMirrored
CHECK_DEADLOCK FALSE
