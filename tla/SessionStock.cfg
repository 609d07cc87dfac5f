CONSTANTS
    c1 = c1
    c2 = c2
    p1 = p1
    p2 = p2
    o1 = o1
    o2 = o2
    u1 = u1
    u2 = u2
    w1 = w1
    w2 = w2
    Customers = {c1, c2}
    Products = {p1, p2}
    OrderIds = {o1, o2}
    NoOrder = NoOrder
    NoCustomer = NoCustomer
    MaxQuantity = 1
    Messages <- OrderMessages
    Updates = {u1, u2}
    NoUpdate = NoUpdate
    Workers = {w1, w2}
    InitialStock <- Stock11
    MaxCrashes = 0
    MaxAborts = 0
    MaxD1Failures = 1
SPECIFICATION MCSpec
SYMMETRY Symmetry
CHECK_DEADLOCK FALSE
INVARIANTS
    BooksBalanceAtRest
    LiveOrdersAreBacked
    HeldStockHasAnOwner
    DoneEffectsHold
PROPERTIES
    ServiceSteps
