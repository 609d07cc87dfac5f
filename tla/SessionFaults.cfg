CONSTANTS
    c1 = c1
    p1 = p1
    p2 = p2
    o1 = o1
    o2 = o2
    u1 = u1
    u2 = u2
    w1 = w1
    w2 = w2
    Customers = {c1}
    Products = {p1, p2}
    OrderIds = {o1, o2}
    NoOrder = NoOrder
    NoCustomer = NoCustomer
    MaxQuantity = 1
    Messages <- ProfileMessages
    Updates = {u1, u2}
    NoUpdate = NoUpdate
    Workers = {w1, w2}
    InitialStock <- Stock10
    MaxCrashes = 1
    MaxAborts = 1
    MaxD1Failures = 1
SPECIFICATION MCSpec
SYMMETRY Symmetry
CHECK_DEADLOCK FALSE
INVARIANTS
    StockInv
    OneOrderPerConfirmation
PROPERTIES
    RowsMoveForward
