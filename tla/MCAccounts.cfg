SPECIFICATION FairSpec
CONSTANTS
    Kinds <- AllKinds
    Limit = 2
    PrivateKeys = 1
    Startup = TRUE
    MaxRetries = 2
    Faults <- AllFaults
INVARIANTS
    TypeOK
    ListedAccountsExist
    OneAttemptInFlight
    RetriesBounded
PROPERTIES
    ImplementsBatches
    Settles
