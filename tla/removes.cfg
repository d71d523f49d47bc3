\* REMOVE of elements of two lists by turns.
SPECIFICATION Spec
CONSTANTS
    NoBytes = NoBytes
    Conds <- MCConds
    Refs <- MCRefs
    KeyAttributes <- MCKeyAttributes
    Updates <- Alternating
    Rvalues <- MCRvalues
    Projections <- MCProjections
    Always = Always
    NoItem = NoItem
    MaxDigits = 1
    MaxItemSize = 24
PROPERTY RemovesTakeEffect
