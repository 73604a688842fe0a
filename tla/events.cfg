SPECIFICATION FairSpec
CONSTANTS
    MaxRuns = 2
    MaxWrites = 4
    Faults = {"drop", "cut", "error", "revoke", "delete"}
INVARIANTS
    TypeOK
    NoSilentMiss
    RunningIsWatched
PROPERTIES
    TabLearns
    StreamIsReleased
CHECK_DEADLOCK FALSE
