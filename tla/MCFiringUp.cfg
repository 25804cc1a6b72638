SPECIFICATION FairSpec
CONSTANTS
    Retries = 8
    LogDelay = 3
    MaxElapsed = 8
INVARIANTS
    TypeOK
    GivesUpLast
    ReadyWasServed
PROPERTIES
    LogsSpaced
    Settles
