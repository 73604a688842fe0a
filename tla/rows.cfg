SPECIFICATION RowsSpec
SYMMETRY RowsSymmetry
CONSTANTS
    r1 = r1
    r2 = r2
    r3 = r3
    r4 = r4
    Requests = {r1, r2, r3, r4}
    Links <- MCLinks
    SessionIds <- MCSessionIds
    Weak = TRUE
    Faults = {"error", "mail"}
    Users = {"ada", "ben"}
    Platforms = {"youtube_music", "spotify"}
    Implemented = {"youtube_music"}
    Flows = {"f", "g"}
    Resolves = {r1, r2, r3}
    NoUser = "nobody"
    ConnFaults = {"store", "reply", "network", "rotate"}
INVARIANTS
    TypeOK
    LinkWorksOnce
    NewLinkKillsOlder
    OldPasswordSignedOut
    LinkedIsVerified
    LinksTheStarter
    Renewable
PROPERTIES
    ResetSticks
CHECK_DEADLOCK FALSE
