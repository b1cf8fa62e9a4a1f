SPECIFICATION ProgressSpec
CONSTANTS
    k1 = k1
    m1 = m1
    Client = {k1}
    Conn = {1, 2, 3}
    Few = {1, 2}
    ClientOf <- OneClient
    Stopper <- BothStoppers
    Clean = {TRUE, FALSE}
    None = None
    Board = {m1}
    MaxUpsets = 1
    Lateness = {0, 7, 70}
    Lifetimes = {0, 13, 35, 58}
INVARIANTS
    TypeOK
    OneServed
    ServedListed
    NobodyStuck
    OneReportANight
PROPERTIES
    EveryoneGetsOn
    RequestsAnswered
    AReportComes
CHECK_DEADLOCK FALSE
