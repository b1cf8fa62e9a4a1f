SPECIFICATION Spec
CONSTANTS
    Request = {r1, r2}
    MayCrash = FALSE
    DbMayFail = FALSE
    LinkGap = 2
    LinkAlertDelay = 1
    SaleGap = 3
    MaxPaid = 1
    MaxFlips = 0
    MaxTime = 0
INVARIANTS EncashedOnce
CHECK_DEADLOCK FALSE
