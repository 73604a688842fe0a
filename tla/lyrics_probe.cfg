SPECIFICATION Spec
SYMMETRY ResolveSymmetry
CONSTANTS
    r1 = r1
    r2 = r2
    Resolves = {r1, r2}
    Keys = {"a", "b"}
    Playlist <- MCPlaylist
    Size <- MCSize
    Budget = 2
    MaxEntry = 2
    FetchConcurrency = 2
    FailureThreshold = 2
    BaseCoolOff = 1
    MaxCoolOff = 2
    NegativeTTL = 2
    RetryTimes = {0}
    MaxTime = 4
    Faults = {"outage"}
PROPERTIES
    SingleProbe
CHECK_DEADLOCK FALSE
