CONSTANTS
    c1 = c1
    g1 = g1
    g2 = g2
    Customers = {c1}
    Runs = {g1, g2}
    Rows = 3
    MaxRevision = 2
    MaxSends = 2
    MaxRetries = 1
    MaxDeaths = 1
    MaxFailures = 2
    None = None
SPECIFICATION Spec
SYMMETRY Symmetry
CHECK_DEADLOCK FALSE
INVARIANTS
    NothingIsLost
    SheetsAreWhole
    MarkedOnce
    TornSheetsAreRetried
PROPERTIES
    RowsNeverGoBack
    RefinesMirror
