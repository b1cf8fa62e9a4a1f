SPECIFICATION Spec
CONSTANTS
    k1 = k1
    Conn = {1, 2, 3}
    Client = {k1}
    ClientOf <- OneClient
    Stopper <- NoStopper
    Clean = {TRUE, FALSE}
    None = None
PROPERTIES OnlyOwnEntryRemoved
CHECK_DEADLOCK FALSE
