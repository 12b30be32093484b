SPECIFICATION BusSpec
CONSTANTS
    none = none
    s1 = s1
    s2 = s2
    SKI = {d1, d2}
    NoSKI = none
    RawSKI <- MCRawSKI
    NormalizeSKI <- MCNormalizeSKI
    EventType <- MCEventType
    DiscoveryUpdated = "discovery"
    Sub = {s1, s2}
    Capacity = 1
    MaxDeferrals = 1
    MaxRevision = 3
    MaxUnresolved = 1
SYMMETRY MCSymmetry
CHECK_DEADLOCK FALSE
INVARIANTS QueueOrdered NoSilentLoss DropsAccounted
PROPERTIES FeedKept
