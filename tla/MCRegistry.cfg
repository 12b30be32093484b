SPECIFICATION MasterSpec
CONSTANTS
    d1 = d1
    c1 = c1
    c2 = c2
    monitoring = monitoring
    mgcp = mgcp
    p1 = p1
    NoEntries = NoEntries
    SKI = {d1}
    Capability = {c1, c2}
    Disabled = {c2}
    Source = {monitoring, mgcp}
    Client = {p1}
    Operation = {"register", "unregister", "reconnect"}
    Configured = {}
    PeerTrust = TRUE
    MaxEpoch = 2
    MaxPending = 2
INVARIANTS RegistryTypeOK RemovedIsForgotten CapabilityMatchesConnection TrustAgrees PeerLinkAgrees
PROPERTIES UnsupportedIsSticky
