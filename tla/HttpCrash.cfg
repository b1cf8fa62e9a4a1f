SPECIFICATION Spec
CONSTANTS
    Request = {r1}
    MayCrash = TRUE
    DbMayFail = FALSE
    LinkGap = 1
    LinkAlertDelay = 1
    SaleGap = 2
    MaxPaid = 2
    MaxFlips = 0
    MaxTime = 4
INVARIANTS NeverOverstated AlertsAlternate
CHECK_DEADLOCK FALSE
