CONSTANTS
    Resources <- MCResources
    Symbols <- MCSymbols
    Faults = {"error"}
SPECIFICATION FairSpec
INVARIANTS
    TypeOK
    ReferencesExist
    BatchesInOrder
    CompleteOnFinish
PROPERTIES
    ImplementsBatches
    Settles
CHECK_DEADLOCK FALSE
