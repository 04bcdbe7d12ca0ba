SPECIFICATION FairSpec
CONSTANTS
    v1 = v1
    v2 = v2
    h1 = h1
    h2 = h2
    Vendors = {v1, v2}
    Providers = {"stripe", "paypal"}
    Hooks = {h1, h2}
    Total = 2
    MaxRefunds = 2
    None = None
INVARIANTS
    TypeOK
    RecordedOnce
    StripeRefundReachesOrder
PROPERTIES
    OneDirection
    RefundStopsPayout
    SoldAsPromised
CHECK_DEADLOCK FALSE
