\* Conditional updates of one item with lists, maps, sets and a counter.
SPECIFICATION Spec
CONSTANTS
    NoBytes = NoBytes
    Conds <- MCConds
    Refs <- MCRefs
    KeyAttributes <- MCKeyAttributes
    Updates <- MCUpdates
    Rvalues <- MCRvalues
    Projections <- MCProjections
    Always = Always
    NoItem = NoItem
    MaxDigits = 1
    MaxItemSize = 24
INVARIANTS TypeOK ConditionsCoherent ProjectionExact
PROPERTIES OnlyNamedChange ChangeReported RemovalsExact SetsBehaveAsSets
