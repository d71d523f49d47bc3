\* One opener that dies while it creates the schema, and opens again.
SPECIFICATION Spec
CONSTANTS
    Openers <- OneOpener
    Versions <- OneVersion
    Version <- OneBuild
    NoVersion = 0
INVARIANT NeverDisowned
