SPECIFICATION FairSpec
CONSTANTS
    p1 = p1
    p2 = p2
    j1 = j1
    Payouts = {p1, p2}
    Jobs = {j1}
    Rails = {"stripe"}
    MaxAttempts = 2
    Mishaps = {"crash", "restrict"}
    None = None
PROPERTIES
    ProcessingEnds
CHECK_DEADLOCK FALSE
