SPECIFICATION FairSpec
CONSTANTS
    b1 = b1
    b2 = b2
    b3 = b3
    v1 = v1
    Buys = {b1, b2, b3}
    Voids = {v1}
    Mishaps = {"crash", "throw", "lost", "noRate"}
    None = None
INVARIANTS
    TypeOK
    BoughtOnce
    NoLabelLost
PROPERTIES
    ForwardOnly
    DeliveryReachesOrder
CHECK_DEADLOCK FALSE
