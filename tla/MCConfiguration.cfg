CONSTANTS
    Environments <- MCEnvironments
    Faults = {"port", "copy", "kill"}
SPECIFICATION Spec
INVARIANT TypeOK
INVARIANT AbstractionSound
INVARIANT UpAsAsked
