SPECIFICATION Spec
CONSTANTS
    MaxRuns = 2
    MaxWrites = 4
    Faults = {}
INVARIANTS
    EveryRunningCoverHasStream
CHECK_DEADLOCK FALSE
