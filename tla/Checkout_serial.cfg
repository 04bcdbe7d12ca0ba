SPECIFICATION FairSpec
CONSTANTS
    r1 = r1
    r2 = r2
    r3 = r3
    v1 = v1
    v2 = v2
    j1 = j1
    j2 = j2
    Pays = {r1, r2, r3}
    Vendors = {v1, v2}
    Jobs = {j1, j2}
    MaxInFlight = 1
    Mishaps = {"decline", "cancel"}
    None = None
PROPERTIES
    OpenOrderResolves
    HoldResolves
CHECK_DEADLOCK FALSE
