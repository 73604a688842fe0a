SPECIFICATION FairSpec
CONSTANTS
    r1 = r1
    r2 = r2
    r3 = r3
    p1 = p1
    NoRun = NoRun
    Runs = {r1, r2}
    Playlists = {p1}
    PlaylistOf <- TwoRequests
    StaleAfter = 1
    MaxQuiet = 0
    Faults = {"error", "lostReply", "lostRelease", "crash", "reapError", "stall", "overlap"}
    Deletions = {"finished", "inFlight"}
PROPERTIES
    ClaimReleased
