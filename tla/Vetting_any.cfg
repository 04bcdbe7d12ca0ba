SPECIFICATION Spec
CONSTANTS
    v1 = v1
    fdm = fdm
    sls = sls
    i1 = i1
    s1 = s1
    s2 = s2
    Vendors = {v1}
    Technologies = {fdm, sls}
    Required = {fdm, sls}
    Invites = {i1}
    Slots = {s1, s2}
    MaxInFlight = 2
    MaxRequests = 4
    MaxDocuments = 2
    MaxVersion = 2
    None = None
SYMMETRY Symmetry
INVARIANTS
    TypeOK
    TakerWasVetted
CHECK_DEADLOCK FALSE
