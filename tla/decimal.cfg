\* Sums of decimals with one fractional digit.
SPECIFICATION Spec
CONSTANTS
    Unit = 10
    Numbers <- MCNumbers
    MaxValue = 120
INVARIANT SumsExact
