SPECIFICATION MCSpec
CONSTANTS
    Entry = {e1, e2}
    Key = {k1, k2}
    Runtime = {r1, r2}
    None = None
    MaxUpgrades = 1
    MaxAbandoned = 1
    Mobile = {e1}
SYMMETRY Symmetric
INVARIANTS
    CountsExact
    SessionsOwned
    ProfileFollows
CHECK_DEADLOCK FALSE
