\* Item operations and transactions, two concurrent requests, failures.
SPECIFICATION Spec
CONSTANTS
    r1 = r1
    r2 = r2
    Requests <- MCRequests
    NoReq = NoReq
    NoInput = NoInput
    NoRow = NoRow
    NoStamp = NoStamp
    NoItem = "none"
    BadItem = "bad"
    NoToken = "no token"
    Names <- OneName
    SqlNames <- OneName
    DataTable <- OwnTable
    KeyTypes = {"S"}
    Keys <- TwoKeys
    KeyType <- MCKeyType
    Items <- MCItems
    Size <- MCSize
    maxItemSize = 3
    maxTransactTotalBytes = 3
    Conds <- MCConds
    Holds <- MCHolds
    Updates <- MCUpdates
    Result <- MCResult
    TagKeys = {}
    Tokens = {}
    clientTokenTTLSeconds = 0
    ItemInputs <- ItemsInputs
    TableInputs <- NoTable
    InitDbs <- ItemsInit
    Faults = {"cancel", "io"}
    MaxClock = 0
SYMMETRY Symmetry
INVARIANTS TypeOK OneTransaction ReadsCurrent SizesBounded
PROPERTIES IsAtomic
