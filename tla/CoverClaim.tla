------------------------------ MODULE CoverClaim ------------------------------
(***************************************************************************)
(* What a generation promises the person who asked for it, with the        *)
(* database, the heartbeat, the sweep and the failures abstracted away.    *)
(*                                                                         *)
(* A playlist is claimed by one run at a time.  Only the run that holds    *)
(* the claim publishes artwork, withdraws it or decides how the claim      *)
(* ends, and it ends "ready" only if that run published.  A claim may also *)
(* be revoked, which shows as "failed".  What is over stays as it is until *)
(* the next claim, or until a user deletes it.                             *)
(***************************************************************************)
CONSTANTS
    Playlists, Runs, NoRun,
    PlaylistOf

VARIABLES
    shown,     \* what each playlist's cover reads as
    owner,     \* the run whose claim on the playlist was granted last
    art,       \* runs whose artwork can be shown: its ready revision and its bytes
    deleted,   \* runs whose revision a user deleted
    spent      \* requests already used

claimVars == <<shown, owner, art, deleted, spent>>

Outcomes == {"ready", "failed"}

Holds(r) == shown[PlaylistOf[r]] = "running" /\ owner[PlaylistOf[r]] = r
RunsOf(p) == {r \in Runs : PlaylistOf[r] = p}

Claim(r) ==
    /\ r \notin spent
    /\ shown[PlaylistOf[r]] # "running"
    /\ spent' = spent \cup {r}
    /\ shown' = [shown EXCEPT ![PlaylistOf[r]] = "running"]
    /\ owner' = [owner EXCEPT ![PlaylistOf[r]] = r]
    /\ UNCHANGED <<art, deleted>>

Publish(r) ==
    /\ Holds(r) /\ r \notin deleted
    /\ art' = art \cup {r}
    /\ UNCHANGED <<shown, owner, deleted, spent>>

Withdraw(r) ==
    /\ Holds(r)
    /\ art' = art \ {r}
    /\ UNCHANGED <<shown, owner, deleted, spent>>

Finish(r, outcome) ==
    /\ Holds(r)
    /\ outcome = "ready" => r \in art \cup deleted
    /\ shown' = [shown EXCEPT ![PlaylistOf[r]] = outcome]
    /\ UNCHANGED <<owner, art, deleted, spent>>

\* The claims of S are taken away at once; their artwork stays.
Revoke(S) ==
    /\ S # {} /\ \A p \in S : shown[p] = "running"
    /\ shown' = [p \in Playlists |-> IF p \in S THEN "failed" ELSE shown[p]]
    /\ UNCHANGED <<owner, art, deleted, spent>>

DropArtwork(r) ==
    /\ art' = art \ {r}
    /\ deleted' = deleted \cup {r}
    /\ UNCHANGED <<shown, owner, spent>>

\* A cover that nobody is working on is deleted with its history.
Forget(p) ==
    /\ shown[p] \in Outcomes
    /\ shown' = [shown EXCEPT ![p] = "none"]
    /\ owner' = [owner EXCEPT ![p] = NoRun]
    /\ art' = art \ RunsOf(p)
    /\ deleted' = deleted \ RunsOf(p)
    /\ UNCHANGED spent

ClaimInit ==
    /\ shown = [p \in Playlists |-> "none"]
    /\ owner = [p \in Playlists |-> NoRun]
    /\ art = {} /\ deleted = {} /\ spent = {}

ClaimNext ==
    \/ \E r \in Runs : Claim(r) \/ Publish(r) \/ Withdraw(r) \/ DropArtwork(r)
    \/ \E r \in Runs, outcome \in Outcomes : Finish(r, outcome)
    \/ \E S \in SUBSET Playlists : Revoke(S)
    \/ \E p \in Playlists : Forget(p)

ClaimSpec == ClaimInit /\ [][ClaimNext]_claimVars
=============================================================================
