CONSTANTS
    Environments <- MCEnvironments
    Faults = {}
SPECIFICATION Spec
INVARIANT StopsOnDockerChecks
