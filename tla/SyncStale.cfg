CONSTANTS
    c1 = c1
    g1 = g1
    Customers = {c1}
    Runs = {g1}
    Rows = 3
    MaxRevision = 2
    MaxSends = 1
    MaxRetries = 1
    MaxDeaths = 1
    MaxFailures = 0
    None = None
SPECIFICATION FairSpec
CHECK_DEADLOCK FALSE
PROPERTIES
    SheetsCatchUp
