SPECIFICATION Spec
CONSTANTS
    LinkGap = 2
    LinkAlertDelay = 1
    SaleGap = 3
    Regimes <- RepeatingOrDying
INVARIANTS
    TypeOK
    SalesKept
    StoreFresh
    AlertsAlternate
PROPERTIES IdleMachineAlerted
CHECK_DEADLOCK FALSE
