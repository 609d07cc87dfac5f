CONSTANTS
    c1 = c1
    p1 = p1
    p2 = p2
    o1 = o1
    u1 = u1
    u2 = u2
    w1 = w1
    Customers = {c1}
    Products = {p1}
    OrderIds = {o1}
    NoOrder = NoOrder
    NoCustomer = NoCustomer
    MaxQuantity = 1
    Messages <- OrderMessages
    Updates = {u1, u2}
    NoUpdate = NoUpdate
    Workers = {w1}
    InitialStock <- Stock1
    MaxCrashes = 1
    MaxAborts = 0
    MaxD1Failures = 1
SPECIFICATION MCFairSpec
CHECK_DEADLOCK FALSE
PROPERTIES
    UpdatesAreAnswered
    StockComesBack
