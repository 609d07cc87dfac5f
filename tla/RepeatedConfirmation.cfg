CONSTANTS
    c1 = c1
    p1 = p1
    p2 = p2
    o1 = o1
    u1 = u1
    u2 = u2
    w1 = w1
    Customers = {c1}
    Products = {p1}
    OrderIds = {o1}
    NoOrder = NoOrder
    NoCustomer = NoCustomer
    MaxQuantity = 1
    Messages <- ButtonMessages
    Updates = {u1, u2}
    NoUpdate = NoUpdate
    Workers = {w1}
    InitialStock <- Stock1
    MaxCrashes = 0
    MaxAborts = 1
    MaxD1Failures = 0
SPECIFICATION MCSpec
SYMMETRY Symmetry
CHECK_DEADLOCK FALSE
INVARIANTS
    LiveOrdersAreBacked
