CONSTANTS
    Metadata = 12
    MaxBatchSize = 5
    MaxRetries = 5
SPECIFICATION FairSpec
INVARIANTS
    TypeOK
    AtMostOnce
    InOrder
    NothingLate
    CompleteOnSuccess
PROPERTIES
    Settles
CHECK_DEADLOCK FALSE
