\* Three openers of two builds on one file.
SPECIFICATION Spec
CONSTANTS
    Openers <- ThreeOpeners
    Versions <- ThreeVersions
    Version <- ThreeBuilds
    NoVersion = 0
INVARIANTS TypeOK AcceptedComplete
PROPERTIES RejectedUntouched
