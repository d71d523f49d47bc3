\* Query and Scan listings under concurrent writes and deletion of the table.
SPECIFICATION FairSpec
CONSTANTS
    NoBytes = NoBytes
    Tables <- MCTables
    HashType <- MCHashType
    RangeType <- MCRangeType
    Keys <- MCKeys
    HashKey <- MCHash
    RangeKey <- MCRange
    NoSort = NoSort
    Items <- MCItems
    NoItem = "none"
    NoKey = NoKey
    Filters <- MCFilters
    Filtered <- MCFiltered
    Requests <- MCRequests
INVARIANTS RowsOrderedAsKeys SelectsAsDescribed TypeOK PagesInOrder ListingComplete StrictlyAfter
PROPERTIES ListingEnds
