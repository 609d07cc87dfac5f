CONSTANTS
    p1 = p1
    x1 = x1
    x2 = x2
    n1 = n1
    n2 = n2
    o1 = o1
    o2 = o2
    None = None
    PosProducts = {p1}
    NewProducts = {x1, x2}
    Names = {n1, n2}
    Orders = {o1}
    AdminMessages <- AllMessages
    Quantities = {0, 1}
    LastDay = 2
    MaxUpdates = 5
    MaxPosChanges = 1
    MaxFaults = 1
SPECIFICATION FairSpec
CHECK_DEADLOCK FALSE
INVARIANTS
    TypeOK
    StockAddsUp
    AdditionsAreWhole
PROPERTIES
    MenuFollowsPos
