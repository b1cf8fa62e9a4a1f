SPECIFICATION Spec
CONSTANTS
    Request = {r1}
    MayCrash = FALSE
    DbMayFail = FALSE
    LinkGap = 2
    LinkAlertDelay = 1
    SaleGap = 3
    MaxPaid = 2
    MaxFlips = 0
    MaxTime = 5
PROPERTIES IdleMachineAlerted
CHECK_DEADLOCK FALSE
