CONSTANTS
    c1 = c1
    c2 = c2
    None = None
    Walkin = Walkin
    Customers = {c1, c2}
    PlatformOf <- MCPlatformOf
    BookingIds = {b1, b2}
    Rooms = {r1}
    Products = {p1}
    Categories = {k1}
    Slots <- MCSlots
    NightLength = 2
    MaxFaults = 1
SPECIFICATION Spec
SYMMETRY Symmetry
CHECK_DEADLOCK FALSE
INVARIANTS
    BookingInv
    HeldRoomsAreKnown
    
    ScreensWork
PROPERTIES
    TakenMeansTaken
