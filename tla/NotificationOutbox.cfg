SPECIFICATION FairSpec
CONSTANTS
    d1 = d1
    d2 = d2
    n1 = n1
    n2 = n2
    Deliveries = {d1, d2}
    Notifiers = {n1, n2}
    MaxDeliveryAttempts = 2
    MaxCrashes = 1
INVARIANTS
    RowsTellTheTruth
PROPERTIES
    SettledStaysSettled
    DeliveriesSettle
CHECK_DEADLOCK FALSE
