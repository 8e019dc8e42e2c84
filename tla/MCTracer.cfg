SPECIFICATION FairSpec
CONSTANTS
    Modes <- MCModes
INVARIANTS
    TypeOK
    TableInSync
    LogReadable
    EndsClean
PROPERTIES
    ImplementsTraceLog
    Finishes
CHECK_DEADLOCK FALSE
