SPECIFICATION LimitsSpec
SYMMETRY ResolveSymmetry
CONSTANTS
    r1 = r1
    r2 = r2
    Resolves = {r1, r2}
    Keys = {"a", "b"}
    Playlist <- MCPlaylist
    Size <- MCSize
    Budget = 2
    MaxEntry = 2
    FetchConcurrency = 2
    FailureThreshold = 2
    BaseCoolOff = 1
    MaxCoolOff = 2
    NegativeTTL = 2
    RetryTimes = {0, 3}
    MaxTime = 4
    Faults = {"outage", "store", "crash"}
    r3 = r3
    Lookups = {r1, r2, r3}
    Build <- MCBuild
    Songs = {"a", "b", "c"}
    Tracks <- MCTracks
    Known <- MCKnown
    MaxLookups = 2
    Interval = 2
    AbsenceTTL = 2
    Horizon = 3
    LookupFaults = {"search", "fetch", "store", "cancel"}
    Requests = {r1, r2}
    BlockAfter = 3
    Window = 1
    MaxClock = 4
    GuardFaults = {"store", "crash", "operator"}
INVARIANTS
    TypeOK
    BytesAccounted
    SilenceIsAnswered
    AnswersOfTheirTrack
    SearchesArePaced
    OutageIsNotAbsence
    AnswersAgree
    FailuresBounded
    BlockedStaysBlocked
PROPERTIES
    PausesAreKept
CHECK_DEADLOCK FALSE
