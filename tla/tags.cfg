\* Two TagResource calls on one table.
SPECIFICATION Spec
CONSTANTS
    r1 = r1
    r2 = r2
    Requests <- MCRequests
    NoReq = NoReq
    NoInput = NoInput
    NoRow = NoRow
    NoStamp = NoStamp
    NoItem = "none"
    BadItem = "bad"
    NoToken = "no token"
    Names <- OneName
    SqlNames <- OneName
    DataTable <- OwnTable
    KeyTypes = {"S"}
    Keys <- OneKey
    KeyType <- MCKeyType
    Items <- MCItems
    Size <- MCSize
    maxItemSize = 3
    maxTransactTotalBytes = 3
    Conds <- MCConds
    Holds <- MCHolds
    Updates <- MCUpdates
    Result <- MCResult
    TagKeys = {"t1", "t2"}
    Tokens = {}
    clientTokenTTLSeconds = 0
    ItemInputs <- NoItems
    TableInputs <- TagsOps
    InitDbs <- ItemsInit
    Faults = {}
    MaxClock = 0
SYMMETRY Symmetry
PROPERTIES TagWritesSerialized
