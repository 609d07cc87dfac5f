CONSTANTS
    c1 = c1
    c2 = c2
    p1 = p1
    p2 = p2
    o1 = o1
    o2 = o2
    Customers = {c1, c2}
    Products = {p1}
    OrderIds = {o1, o2}
    NoOrder = NoOrder
    NoCustomer = NoCustomer
    MaxQuantity = 2
    Messages <- MCMessages
SPECIFICATION ServiceSpec
SYMMETRY Symmetry
INVARIANTS
    ServiceInv
PROPERTIES
    PlacedAsReviewed
    RefinesLifecycle
