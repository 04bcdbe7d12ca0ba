SPECIFICATION Spec
CONSTANTS
    p1 = p1
    j1 = j1
    Payouts = {p1}
    Jobs = {j1}
    Rails = {"stripe", "paypal"}
    MaxAttempts = 2
    Mishaps = {"crash", "refuse", "unclaimed", "lateClaim", "return", "concern"}
    None = None
INVARIANTS
    TypeOK
    PaidOnce
PROPERTIES
    SendsOnlyClaimed
CHECK_DEADLOCK FALSE
