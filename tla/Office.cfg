SPECIFICATION OfficeSpec
CONSTANTS
    Request = {r1, r2}
    Imei = {n1, n2}
    Name = {n1, n2}
    Owner = {o1, o2}
    Null = Null
    MaxUploads = 2
    MaxLists = 2
    MaxDevices = 2
    MaxFaults = 1
INVARIANTS
    FilesAsUploaded
    NoFileLeftBehind
    GridIsTable
    RowAsGiven
    AnswersHold
PROPERTIES
    RemovedStays
SYMMETRY Symmetric
CHECK_DEADLOCK FALSE
