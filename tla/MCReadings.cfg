SPECIFICATION ReadsSpec
CONSTANTS
    Capability <- Capabilities
    Disabled = {}
    Source <- UseCase
    NoEntries = NoEntries
    Reader = {r1, r2}
    Profile <- Devices
    MaxEvents = 1
SYMMETRY Symmetry
INVARIANTS
    LeafTruthful
    SnapshotAgrees
    
