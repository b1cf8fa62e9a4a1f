SPECIFICATION PagesSpec
CONSTANTS
    m1 = m1
    m2 = m2
    m3 = m3
    Machine = {m1, m2, m3}
    Board = {m1, m2}
    Null = Null
    None = None
    Unfilled = Unfilled
    Stored <- Reported
    BrokerOf <- Speaking
    Refusals <- Refusing
    Period = {p1, p2}
    Admin = {a1, a2}
    MaxOpens = 2
    MaxAsked = 2
    MaxCommands = 2
    MaxRequests = 4
    MaxFaults = 1
    MaxLosses = 1
INVARIANTS
    TypedForShown
    ShownIsCommanded
    ShowsWhatIsAsked
    AloneIsSent
    OnlyOvertakenMissed
    LastWins
    MemoryIsRow
PROPERTIES OnlyEditedStored
SYMMETRY Symmetric
CHECK_DEADLOCK FALSE
