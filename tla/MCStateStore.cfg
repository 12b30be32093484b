SPECIFICATION Spec
CONSTANTS
    Leaf = {"temperature", "limit"}
    Capability = {"lpc"}
    CapabilityOf <- MCCapabilityOf
    Ungated = "ungated"
    Profiles = {"snapshot", "capabilities", "legacy"}
    Stream = {"device_state", "lpc_events", "measurements"}
    Consolidated = "device_state"
    LegacyStreams <- MCLegacyStreams
    WireCapacity = 1
    Absent = Absent
    MaxVersion = 1
INVARIANTS UnsupportedHasNoValue UnavailableIsNotFresh
PROPERTIES NoRegression LeavesRepaired SupportRepaired
