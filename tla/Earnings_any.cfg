SPECIFICATION Spec
CONSTANTS
    i1 = i1
    i2 = i2
    pla = pla
    petg = petg
    resin = resin
    s1 = s1
    s2 = s2
    Items = {i1, i2}
    Materials = {pla, petg, resin}
    Slots = {s1, s2}
    Fee = 0
    ItemTotal <- MCItemTotal
    TechOf <- MCTechOf
    FirstMaterial <- MCFirstMaterial
    FirstRate <- MCFirstRate
    Defaults = {pla, resin}
    Percentages = {4000, 5000}
    MaxRatings = 1
    None = None
SYMMETRY Symmetry
INVARIANTS
    TypeOK
    WithinTheOrder
    SentAsRecorded
    FollowsMaterial
CHECK_DEADLOCK FALSE
