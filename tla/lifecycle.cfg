\* Client tokens, closing, crashes and reopening.
SPECIFICATION FairSpec
CONSTANTS
    r1 = r1
    r2 = r2
    Requests <- MCRequests
    NoReq = NoReq
    NoInput = NoInput
    NoRow = NoRow
    NoStamp = NoStamp
    NoItem = "none"
    BadItem = "bad"
    NoToken = "no token"
    Names <- OneName
    SqlNames <- OneName
    DataTable <- OwnTable
    KeyTypes = {"S"}
    Keys <- TwoKeys
    KeyType <- MCKeyType
    Items <- MCItems
    Size <- MCSize
    maxItemSize = 3
    maxTransactTotalBytes = 3
    Conds <- MCConds
    Holds <- MCHolds
    Updates <- MCUpdates
    Result <- MCResult
    TagKeys = {}
    Tokens = {"x"}
    clientTokenTTLSeconds = 0
    ItemInputs <- LifecycleItems
    TableInputs <- LifecycleOps
    InitDbs <- ItemsInit
    Faults = {"close", "crash"}
    MaxClock = 1
PROPERTIES TokenRetained ClosedFileUntouched IsAtomic EveryCallReturns
