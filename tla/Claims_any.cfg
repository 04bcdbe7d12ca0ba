SPECIFICATION Spec
CONSTANTS
    ann = ann
    bob = bob
    annMail = annMail
    bobMail = bobMail
    g1 = g1
    g2 = g2
    p1 = p1
    p2 = p2
    a1 = a1
    x1 = x1
    o1 = o1
    o2 = o2
    s1 = s1
    s2 = s2
    Accounts = {ann, bob}
    Emails = {annMail, bobMail}
    EmailOf <- MCEmailOf
    Guests = {g1, g2}
    Projects = {p1, p2}
    Addresses = {a1}
    Sessions = {x1}
    Orders = {o1, o2}
    Slots = {s1, s2}
    MaxRequests = 5
    None = None
    NoRow = NoRow
    Gone = Gone
SYMMETRY Symmetry
INVARIANTS
    TypeOK
PROPERTIES
    WorkIsKept
CHECK_DEADLOCK FALSE
