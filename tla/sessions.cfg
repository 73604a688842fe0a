SPECIFICATION FairSpec
CONSTANTS
    Requests = {r1, r2}
    Sessions <- MCSessionIds
    Tokens <- MCTokens
    NoToken = NoToken
    RefreshTTL = 2
    SessionTTL = 2
    MaxTime = 2
    Faults = {"error", "lostReply"}
INVARIANTS
    TypeOK
    OneLiveToken
    KilledSessionIsEmpty
    RevocationStopsTheChain
    RotationWithinCap
PROPERTIES
    ReuseNeedsTwoPresentations
    EveryRequestIsAnswered
    KeepsChain
CHECK_DEADLOCK FALSE
