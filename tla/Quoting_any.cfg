SPECIFICATION Spec
CONSTANTS
    f1 = f1
    f2 = f2
    s1 = s1
    s2 = s2
    Files = {f1, f2}
    Slots = {s1, s2}
    Ops = {"answer", "configure", "accept", "split", "expire", "purge"}
    MaxInFlight = 2
    MaxQuotes = 4
    MaxRequests = 4
    None = None
SYMMETRY Symmetry
INVARIANTS
    TypeOK
PROPERTIES
    FrozenOnceAccepted
CHECK_DEADLOCK FALSE
