SPECIFICATION FairSpec
CONSTANTS
    f1 = f1
    f2 = f2
    s1 = s1
    s2 = s2
    Files = {f1, f2}
    Slots = {s1, s2}
    Ops = {"progress", "answer", "redeliver", "switch", "material", "store", "requantify"}
    MaxInFlight = 2
    MaxQuotes = 2
    MaxRequests = 2
    None = None
INVARIANTS
    SystemRevisionsDiffer
PROPERTIES
    QuotedInFull
CHECK_DEADLOCK FALSE
