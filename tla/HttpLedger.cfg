SPECIFICATION Spec
CONSTANTS
    Request = {r1}
    MayCrash = FALSE
    DbMayFail = FALSE
    LinkGap = 2
    LinkAlertDelay = 1
    SaleGap = 3
    MaxPaid = 3
    MaxFlips = 2
    MaxTime = 0
INVARIANTS TypeOK LedgerBalanced TankAlertsTellStatus
PROPERTIES CountersKept ImplementsLedger
CHECK_DEADLOCK FALSE
