CONSTANTS
    a = a
    c1 = c1
    Alarm = a
    Calls = {c1}
    MaxOrders = 2
    MaxCalls = 2
    MaxFaults = 1
SPECIFICATION FairSpec
CHECK_DEADLOCK FALSE
INVARIANTS
    PaymentInv
    PendingWorkIsScheduled
    StaffAreToldTheTruth
    RepeatsAreExplained
PROPERTIES
    CustomersAreTold
    OrdersAreDecidedOnce
