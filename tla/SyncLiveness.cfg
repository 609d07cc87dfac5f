CONSTANTS
    c1 = c1
    g1 = g1
    g2 = g2
    Customers = {c1}
    Runs = {g1, g2}
    Rows = 3
    MaxRevision = 2
    MaxSends = 1
    MaxRetries = 1
    MaxDeaths = 0
    MaxFailures = 2
    None = None
SPECIFICATION FairSpec
CHECK_DEADLOCK FALSE
PROPERTIES
    SheetsCatchUp
