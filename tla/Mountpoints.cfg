\* All lists of up to three images with nested mount points.
SPECIFICATION Spec
CONSTANTS
    Words <- SomeWords
    Configs <- SomeConfigs
INVARIANTS
    TypeOK
    ItsTree
    NothingLost
    OwnersKept
CHECK_DEADLOCK FALSE
