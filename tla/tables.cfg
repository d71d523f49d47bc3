\* Tables created and deleted under concurrent requests.
SPECIFICATION Spec
CONSTANTS
    r1 = r1
    r2 = r2
    Requests <- MCRequests
    NoReq = NoReq
    NoInput = NoInput
    NoRow = NoRow
    NoStamp = NoStamp
    NoItem = "none"
    BadItem = "bad"
    NoToken = "no token"
    Names <- ThreeNames
    SqlNames <- TwoNames
    DataTable <- CaseFolded
    KeyTypes = {"S", "N"}
    Keys <- MixedKeys
    KeyType <- MCKeyType
    Items <- MCItems
    Size <- MCSize
    maxItemSize = 3
    maxTransactTotalBytes = 3
    Conds <- MCConds
    Holds <- MCHolds
    Updates <- MCUpdates
    Result <- MCResult
    TagKeys = {"t1"}
    Tokens = {}
    clientTokenTTLSeconds = 0
    ItemInputs <- TablesItems
    TableInputs <- TablesOps
    InitDbs <- TablesInit
    Faults = {"io"}
    MaxClock = 0
SYMMETRY Symmetry
INVARIANTS CatalogBacked
PROPERTIES ProtectionHolds
