SPECIFICATION FairSpec
CONSTANTS
    k1 = k1
    f1 = f1
    s1 = s1
    s2 = s2
    Keys = {k1}
    Files = {f1}
    Slots = {s1, s2}
    Ops = {"complete", "send", "pass", "scan", "approve", "block", "claim", "report", "rescan", "restrict", "refresh", "decline", "bar", "idle"}
    Texts = {"allow", "flag", "escalate"}
    Enforce = TRUE
    MaxInFlight = 2
    MaxRequests = 4
    None = None
INVARIANTS
    MessagingTypeOK
    ReviewHasCase
    FilesScannedOrApproved
PROPERTIES
    HeldEnds
CHECK_DEADLOCK FALSE
