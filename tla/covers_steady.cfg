SPECIFICATION Spec
SYMMETRY RunSymmetry
CONSTANTS
    r1 = r1
    r2 = r2
    r3 = r3
    p1 = p1
    NoRun = NoRun
    Runs = {r1, r2, r3}
    Playlists = {p1}
    PlaylistOf <- ThreeRequests
    StaleAfter = 3
    MaxQuiet = 1
    Faults = {"error", "lostReply", "crash", "reapError"}
    Deletions = {"revision", "finished"}
INVARIANTS
    TypeOK
    OneRunPerPlaylist
    ClaimInv
    ReadyCoverShowsItsRun
    HistoryOrdered
PROPERTIES
    TerminalIsStable
    KeepsContract
