SPECIFICATION FairSpec
CONSTANTS
    LinkGap = 2
    LinkAlertDelay = 1
    SaleGap = 3
    Regimes <- AllFailing
PROPERTIES QueueDrains
CHECK_DEADLOCK FALSE
