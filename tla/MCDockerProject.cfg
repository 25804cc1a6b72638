CONSTANTS
    Dirs <- MCDirs
    Options <- MCOptions
    Faults = {"up", "split", "kill", "sigint"}
SPECIFICATION FairSpec
INVARIANTS
    TypeOK
    StackAsAsked
    FreshImport
    OwnTopic
PROPERTIES
    StopRemovesAll
    TopicEndsWait
CHECK_DEADLOCK FALSE
