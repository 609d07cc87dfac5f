CONSTANTS
    f = f
    q = q
    r = r
    w1 = w1
    w2 = w2
    g1 = g1
    g2 = g2
    None = None
    FastUpdates = {f}
    QrUpdates = {q}
    RawUpdates = {r}
    Replies = 2
    Workers = {w1, w2}
    Runs = {g1, g2}
    MaxTries = 3
    MaxAttempts = 2
    MaxFaults = 2
SPECIFICATION FairSpec
CHECK_DEADLOCK FALSE
INVARIANTS
    DeliveryInv
    FastUpdatesAreComplete
    QrArrivesOnce
    NoUpdateIsDropped
PROPERTIES
    UpdatesTakeEffect
