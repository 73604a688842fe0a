SPECIFICATION FairSpec
CONSTANTS
    r1 = r1
    r2 = r2
    r3 = r3
    p1 = p1
    NoRun = NoRun
    Runs = {r1, r2}
    Playlists = {p1}
    PlaylistOf <- TwoRequests
    StaleAfter = 3
    MaxQuiet = 1
    Faults = {"overlap"}
    Deletions = {}
PROPERTIES
    TerminalIsStable
