SPECIFICATION Spec
CONSTANTS
    d1 = d1
    c1 = c1
    monitoring = monitoring
    p1 = p1
    p2 = p2
    NoEntries = NoEntries
    SKI = {d1}
    Capability = {c1}
    Disabled = {}
    Source = {monitoring}
    Client = {p1, p2}
    Operation = {"unregister", "reconnect"}
    Configured = {d1}
    PeerTrust = FALSE
    MaxEpoch = 2
    MaxPending = 3
INVARIANTS UnpairedStaysOut
