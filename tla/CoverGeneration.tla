--------------------------- MODULE CoverGeneration ---------------------------
(***************************************************************************)
(* The life of a cover: the claim a generation takes on its playlist, the  *)
(* pipeline that runs under that claim, the heartbeat that keeps it, the   *)
(* sweep and the startup reap that take it away, and the user's deletions. *)
(*                                                                         *)
(* The tables are PostgreSQL's.  Every action is one statement the program *)
(* issues, together with the upstream calls that come just before it (they *)
(* touch no table), so the actions of different runs, the sweep, a restart *)
(* and a user interleave exactly where the code lets them.  A run names    *)
(* three things at once: the goroutine, the cover id its claim mints when  *)
(* there is no row yet, and the id of the one revision it writes.  All     *)
(* three are fresh uuids, so naming them by the run loses nothing.         *)
(***************************************************************************)
EXTENDS Integers, FiniteSets

CONSTANTS
    Playlists,    \* (user, platform, playlist) triples: the unique key of covers
    Runs,         \* accepted generation requests, each used once
    NoRun,        \* "no run", "no id"
    PlaylistOf,   \* the playlist each request is for
    StaleAfter,   \* sweep threshold, in heartbeat intervals (2m / 30s = 4)
    MaxQuiet,     \* consecutive intervals a healthy run may fail to write its row
    Faults,       \* what the environment may do, a subset of AllFaults
    Deletions     \* what users delete, a subset of AllDeletions

(***************************************************************************)
(* "error": an upstream call or a statement fails and leaves nothing.      *)
(* "lostReply": a statement commits but its caller is told it failed.      *)
(* "lostRelease": the same, for the write that ends a successful run.      *)
(* "crash": the process dies.  "reapError": the startup reap fails.        *)
(* "stall": a live run goes quiet for longer than MaxQuiet intervals.      *)
(* "overlap": a deployment starts the next process before this one stops.  *)
(***************************************************************************)
AllFaults == {"error", "lostReply", "lostRelease", "crash", "reapError",
              "stall", "overlap"}
\* A revision; a cover whose last run is over; a cover with a run in flight.
AllDeletions == {"revision", "finished", "inFlight"}

ASSUME RunAssumption == NoRun \notin Runs /\ IsFiniteSet(Runs)
ASSUME TargetAssumption == PlaylistOf \in [Runs -> Playlists]
ASSUME TimingAssumption == StaleAfter \in Nat \ {0} /\ MaxQuiet \in Nat
ASSUME FaultAssumption == Faults \subseteq AllFaults /\ Deletions \subseteq AllDeletions

VARIABLES
    covers,      \* table covers, by its unique key; age counts intervals since updated_at
    revisions,   \* table cover_revisions, by id
    images,      \* table cover_images: the revision ids with stored bytes
    pc,          \* where each run's goroutine is
    claim,       \* the id StartRun returned: rev.CoverID and the heartbeat's coverID
    coverId,     \* cover.ID on the run's own struct, which every Save may rewrite
    beating,     \* runs whose heartbeat goroutine is alive
    due,         \* runs whose current interval has not been beaten yet
    quiet,       \* intervals in a row a run has let pass without writing its row
    up,          \* the process is serving and sweeping
    draining,    \* runs of a process that a newer one has replaced
    holder,      \* history: the run whose claim on the cover was granted last
    removed      \* history: the revisions a user deleted from covers still there

tables == <<covers, revisions, images>>
beats == <<beating, due, quiet>>
process == <<up, draining>>
ids == <<claim, coverId>>
history == <<holder, removed>>
vars == <<covers, revisions, images, pc, claim, coverId, beating, due, quiet,
          up, draining, holder, removed>>

InFlightStatus == {"pending", "analyzing", "generating"}
TerminalStatus == {"ready", "failed"}

\* The pipeline's places up to and including the write that ends the run.
Working == {"saveAnalyzing", "saveGenerating", "recordRevision", "storeImage",
            "stopHeartbeat", "saveReady", "failRevision", "failCover"}
Places == Working \cup {"idle", "unwind", "ended"}

Ids == Runs \cup {NoRun}
RevisionNumbers == 1 .. 2 * Cardinality(Runs)
CoverRow == [id : Ids,
             status : InFlightStatus \cup TerminalStatus \cup {"none"},
             age : 0 .. StaleAfter]
RevisionRow == [cover : Ids, status : TerminalStatus \cup {"none"},
                number : Nat, stamp : Nat]
NoRow == [id |-> NoRun, status |-> "none", age |-> 0]
NoRevision == [cover |-> NoRun, status |-> "none", number |-> 0, stamp |-> 0]

TypeOK ==
    /\ covers \in [Playlists -> CoverRow]
    /\ revisions \in [Runs -> RevisionRow]
    /\ images \in SUBSET Runs
    /\ pc \in [Runs -> Places]
    /\ claim \in [Runs -> Ids]
    /\ coverId \in [Runs -> Ids]
    /\ beating \in SUBSET Runs
    /\ due \in SUBSET Runs
    /\ quiet \in [Runs -> 0 .. MaxQuiet]
    /\ up \in BOOLEAN
    /\ draining \in SUBSET Runs
    /\ holder \in [Playlists -> Ids]
    /\ removed \in SUBSET [id : Runs, cover : Ids, number : Nat]

-----------------------------------------------------------------------------
(* What the rows say. *)

Exists(p) == covers[p].status # "none"
InFlight(p) == covers[p].status \in InFlightStatus
Active(r) == pc[r] \in Working
RevisionsOf(c) == {q \in Runs : revisions[q].status # "none" /\ revisions[q].cover = c}

ClaimFreeUnguarded(p) == TRUE
\* StartCoverRun: no row conflicts, or the row's run has reached a terminal status.
ClaimFree(p) == ~InFlight(p)

CoverStored(c) == \E p \in Playlists : Exists(p) /\ covers[p].id = c

NextNumberByCount(c, n) == n = Cardinality(RevisionsOf(c)) + 1
\* COALESCE(max(revision_number), 0) + 1 over the cover's stored revisions.
IsNextNumber(c, n) ==
    /\ \A q \in RevisionsOf(c) : revisions[q].number < n
    /\ n = 1 \/ \E q \in RevisionsOf(c) : revisions[q].number = n - 1

\* completed_at, by rank: later than the cover's other stored runs.
IsLatest(r, t) ==
    LET others == RevisionsOf(claim[r]) \ {r} IN
    /\ \A q \in others : revisions[q].stamp < t
    /\ t = 1 \/ \E q \in others : revisions[q].stamp = t - 1

StaleSkippingPending(p) == covers[p].status \in {"analyzing", "generating"}
                           /\ covers[p].age = StaleAfter
\* FailStuckCovers with the sweep's cutoff.
Stale(p) == InFlight(p) /\ covers[p].age = StaleAfter

StuckRows(S) ==
    [p \in Playlists |-> IF p \in S THEN [covers[p] EXCEPT !.status = "stuck", !.age = 0]
                         ELSE covers[p]]
FailedEvenIfFinished(S) ==
    [p \in Playlists |-> IF p \in S \/ covers[p].status = "ready"
                         THEN [covers[p] EXCEPT !.status = "failed", !.age = 0] ELSE covers[p]]
\* FailStuckCovers: the rows are failed and no revision is written for them.
FailedRows(S) ==
    [p \in Playlists |-> IF p \in S THEN [covers[p] EXCEPT !.status = "failed", !.age = 0]
                         ELSE covers[p]]

-----------------------------------------------------------------------------
(* The database writes a run makes.  An outcome says what the run is told. *)

WriteOutcomes == {"ok"} \cup (Faults \cap {"error", "lostReply"})
ReleaseOutcomes == {"ok"} \cup (Faults \cap {"error"})
                   \cup (IF "lostRelease" \in Faults THEN {"lostReply"} ELSE {})
\* SaveRevision needs the cover its foreign key names, Put the revision its key names.
RevisionOutcomes(r) == IF CoverStored(claim[r]) THEN WriteOutcomes ELSE {"error"}
ImageOutcomes(r) == IF revisions[r].status # "none" THEN WriteOutcomes ELSE {"error"}

ThenRegardless(o, next) == next
\* Every error of the pipeline goes to h.fail.
Then(o, next) == IF o = "ok" THEN next ELSE "failRevision"

\* Save: the playlist's row moves to `status` whoever claimed it; a row that is
\* gone is inserted again under the struct's id; the struct adopts the row's id.
SaveCover(r, status, o) ==
    LET p == PlaylistOf[r] IN
    IF o = "error" THEN UNCHANGED <<covers, coverId, quiet>>
    ELSE LET id == IF Exists(p) THEN covers[p].id ELSE coverId[r] IN
         /\ covers' = [covers EXCEPT ![p] = [id |-> id, status |-> status, age |-> 0]]
         /\ coverId' = IF o = "ok" THEN [coverId EXCEPT ![r] = id] ELSE coverId
         /\ quiet' = [quiet EXCEPT ![r] = 0]

\* SaveRevision: an insert takes the next number, a rewrite keeps its own.
SaveRevision(r, status, o) ==
    IF o = "error" THEN UNCHANGED revisions
    ELSE \E n, t \in RevisionNumbers :
         /\ IF revisions[r].status = "none" THEN IsNextNumber(claim[r], n)
            ELSE n = revisions[r].number
         /\ IsLatest(r, t)
         /\ revisions' = [revisions EXCEPT ![r] =
              [cover |-> claim[r], status |-> status, number |-> n, stamp |-> t]]

Goto(r, place) == pc' = [pc EXCEPT ![r] = place]

-----------------------------------------------------------------------------
(* Handle: the claim, then the pipeline and its heartbeat in the background. *)

\* A refused or failed claim changes nothing and starts nothing, so only the
\* granted one is a step.  A grant whose reply is lost has no pipeline behind it.
StartRun(r) ==
    LET p == PlaylistOf[r]
        id == IF Exists(p) THEN covers[p].id ELSE r IN
    /\ up /\ pc[r] = "idle"
    /\ ClaimFree(p)
    /\ covers' = [covers EXCEPT ![p] = [id |-> id, status |-> "pending", age |-> 0]]
    /\ holder' = [holder EXCEPT ![p] = r]
    /\ \/ /\ Goto(r, "saveAnalyzing")
          /\ claim' = [claim EXCEPT ![r] = id]
          /\ coverId' = [coverId EXCEPT ![r] = id]
          /\ beating' = beating \cup {r}
       \/ /\ "lostReply" \in Faults
          /\ Goto(r, "ended")
          /\ UNCHANGED <<ids, beating>>
    /\ UNCHANGED <<revisions, images, due, quiet, process, removed>>

(* run: the stages, in the order the code takes them. *)

SaveAnalyzing(r) ==
    /\ pc[r] = "saveAnalyzing"
    /\ \E o \in WriteOutcomes :
         SaveCover(r, "analyzing", o) /\ Goto(r, Then(o, "saveGenerating"))
    /\ UNCHANGED <<revisions, images, claim, beating, due, process, history>>

\* After analyze.  An analysis that fails writes nothing and ends like a write
\* that fails; the 15 minute cap on the run's context makes one that never
\* answers fail, too.
SaveGenerating(r) ==
    /\ pc[r] = "saveGenerating"
    /\ \E o \in WriteOutcomes :
         SaveCover(r, "generating", o) /\ Goto(r, Then(o, "recordRevision"))
    /\ UNCHANGED <<revisions, images, claim, beating, due, process, history>>

\* After GeneratePrompt and GenerateImage, whose failures are its "error", too.
RecordRevision(r) ==
    /\ pc[r] = "recordRevision"
    /\ \E o \in RevisionOutcomes(r) :
         SaveRevision(r, "ready", o) /\ Goto(r, Then(o, "storeImage"))
    /\ UNCHANGED <<covers, images, ids, beats, process, holder, removed>>

StoreImage(r) ==
    /\ pc[r] = "storeImage"
    /\ \E o \in ImageOutcomes(r) :
         /\ images' = IF o = "error" THEN images ELSE images \cup {r}
         /\ Goto(r, Then(o, "stopHeartbeat"))
    /\ UNCHANGED <<covers, revisions, ids, beats, process, history>>

\* stop() returns once the writer is dead, so no beat follows it.
StopHeartbeat(r) ==
    /\ pc[r] = "stopHeartbeat"
    /\ Goto(r, "saveReady")
    /\ beating' = beating \ {r}
    /\ UNCHANGED <<tables, ids, due, quiet, process, history>>

\* The goroutines of the runs in S are gone, with their timers and locals.
Retire(S) ==
    /\ beating' = beating \ S
    /\ due' = due \ S
    /\ quiet' = [r \in Runs |-> IF r \in S THEN 0 ELSE quiet[r]]
    /\ draining' = draining \ S
    /\ claim' = [r \in Runs |-> IF r \in S THEN NoRun ELSE claim[r]]
    /\ coverId' = [r \in Runs |-> IF r \in S THEN NoRun ELSE coverId[r]]

SaveReady(r) ==
    /\ pc[r] = "saveReady"
    /\ \E o \in ReleaseOutcomes : SaveCover(r, "ready", o) /\ Goto(r, Then(o, "unwind"))
    /\ UNCHANGED <<revisions, images, claim, beating, due, process, history>>

\* fail: both writes are attempted through a context that cannot be cancelled and
\* both errors are dropped.
FailRevision(r) ==
    /\ pc[r] = "failRevision"
    /\ \E o \in RevisionOutcomes(r) : SaveRevision(r, "failed", o)
    /\ Goto(r, "failCover")
    /\ UNCHANGED <<covers, images, ids, beats, process, holder, removed>>

FailCover(r) ==
    /\ pc[r] = "failCover"
    /\ \E o \in WriteOutcomes : SaveCover(r, "failed", o)
    /\ Goto(r, "unwind")
    /\ UNCHANGED <<revisions, images, claim, beating, due, process, history>>

\* The deferred stop, and the goroutine returns.
Unwind(r) ==
    /\ pc[r] = "unwind"
    /\ Goto(r, "ended")
    /\ Retire({r})
    /\ UNCHANGED <<tables, up, history>>

RunStep(r) ==
    \/ SaveAnalyzing(r) \/ SaveGenerating(r) \/ RecordRevision(r) \/ StoreImage(r)
    \/ StopHeartbeat(r) \/ SaveReady(r) \/ FailRevision(r) \/ FailCover(r) \/ Unwind(r)

-----------------------------------------------------------------------------
(* The heartbeat, the passing of time, and the sweep. *)

TouchNothing(r) == covers
\* TouchCover: by the id the claim returned, whatever the row's status is.
Touched(r) == [p \in Playlists |-> IF Exists(p) /\ covers[p].id = claim[r]
                                   THEN [covers[p] EXCEPT !.age = 0] ELSE covers[p]]

\* A beat that cannot be written is dropped.
Beat(r) ==
    /\ r \in beating \cap due
    /\ due' = due \ {r}
    /\ \/ covers' = Touched(r) /\ quiet' = [quiet EXCEPT ![r] = 0]
       \/ /\ "error" \in Faults /\ quiet[r] < MaxQuiet
          /\ quiet' = [quiet EXCEPT ![r] = @ + 1]
          /\ UNCHANGED covers
    /\ UNCHANGED <<revisions, images, pc, ids, beating, process, history>>

Closing(r) == pc[r] \in {"saveReady", "failRevision", "failCover"} /\ r \notin beating

\* One heartbeat interval passes.  Unless the environment stalls runs, a live
\* writer tries its beat in every interval, and once the writer is stopped the
\* two or three statements that are left take at most MaxQuiet intervals.
Tick ==
    /\ \/ "stall" \in Faults
       \/ beating \cap due = {} /\ \A r \in Runs : Closing(r) => quiet[r] < MaxQuiet
    /\ covers' = [p \in Playlists |-> IF InFlight(p) /\ covers[p].age < StaleAfter
                                      THEN [covers[p] EXCEPT !.age = @ + 1] ELSE covers[p]]
    /\ due' = due \cup beating
    /\ quiet' = [r \in Runs |-> IF Closing(r) /\ quiet[r] < MaxQuiet
                                THEN quiet[r] + 1 ELSE quiet[r]]
    /\ UNCHANGED <<revisions, images, pc, ids, beating, process, history>>

\* A pass that fails is retried on the next timer tick and changes nothing.
Sweep ==
    LET S == {p \in Playlists : Stale(p)} IN
    /\ up /\ S # {}
    /\ covers' = FailedRows(S)
    /\ UNCHANGED <<revisions, images, pc, ids, beats, process, history>>

-----------------------------------------------------------------------------
(* The process: it dies, starts again, or is replaced by a newer one. *)

Alive(r) == Active(r) \/ pc[r] = "unwind"
Kill(S) ==
    /\ pc' = [r \in Runs |-> IF r \in S THEN "ended" ELSE pc[r]]
    /\ Retire(S)

Crash ==
    /\ "crash" \in Faults /\ up
    /\ up' = FALSE
    /\ Kill({r \in Runs : Alive(r)} \ draining)
    /\ UNCHANGED <<tables, history>>

\* The startup reap fails everything in flight, with no threshold, before the
\* server accepts anything; a reap that fails is logged and the process goes on.
Reap ==
    \/ covers' = FailedRows({p \in Playlists : InFlight(p)})
    \/ "reapError" \in Faults /\ UNCHANGED covers

Boot ==
    /\ ~up
    /\ up' = TRUE
    /\ Reap
    /\ UNCHANGED <<revisions, images, pc, ids, beats, draining, history>>

\* The next process reaps while the runs of this one are still going.  (When none
\* is, it is a Crash and a Boot.)
Deploy ==
    /\ "overlap" \in Faults /\ up
    /\ \E r \in Runs : Active(r) /\ r \notin draining
    /\ Reap
    /\ draining' = {r \in Runs : Alive(r)}
    /\ UNCHANGED <<revisions, images, pc, ids, beats, up, history>>

\* Shutdown does not wait for them.
Drain ==
    /\ draining # {}
    /\ Kill(draining)
    /\ UNCHANGED <<tables, up, history>>

-----------------------------------------------------------------------------
(* What a user deletes.  Revisions cascade from covers, images from revisions. *)

DropRevisions(S) ==
    /\ revisions' = [q \in Runs |-> IF q \in S THEN NoRevision ELSE revisions[q]]
    /\ images' = images \ S

DeleteCover(p) ==
    /\ up /\ Exists(p)
    /\ (IF InFlight(p) THEN "inFlight" ELSE "finished") \in Deletions
    /\ covers' = [covers EXCEPT ![p] = NoRow]
    /\ DropRevisions(RevisionsOf(covers[p].id))
    /\ holder' = [holder EXCEPT ![p] = NoRun]
    /\ removed' = {x \in removed : x.cover # covers[p].id}
    /\ UNCHANGED <<pc, ids, beats, process>>

DeleteRevision(q) ==
    /\ "revision" \in Deletions
    /\ up /\ revisions[q].status # "none"
    /\ DropRevisions({q})
    /\ removed' = removed \cup
         {[id |-> q, cover |-> revisions[q].cover, number |-> revisions[q].number]}
    /\ UNCHANGED <<covers, pc, ids, beats, process, holder>>

-----------------------------------------------------------------------------
Init ==
    /\ covers = [p \in Playlists |-> NoRow]
    /\ revisions = [q \in Runs |-> NoRevision]
    /\ images = {}
    /\ pc = [r \in Runs |-> "idle"]
    /\ claim = [r \in Runs |-> NoRun]
    /\ coverId = [r \in Runs |-> NoRun]
    /\ beating = {} /\ due = {}
    /\ quiet = [r \in Runs |-> 0]
    /\ up = TRUE /\ draining = {}
    /\ holder = [p \in Playlists |-> NoRun]
    /\ removed = {}

Next ==
    \/ \E r \in Runs : StartRun(r) \/ RunStep(r) \/ Beat(r) \/ DeleteRevision(r)
    \/ \E p \in Playlists : DeleteCover(p)
    \/ Tick \/ Sweep \/ Crash \/ Boot \/ Deploy \/ Drain

Spec == Init /\ [][Next]_vars

\* Goroutines are scheduled, timers fire, a dead process is started again, and a
\* database that fails some reaps does not fail every one.  Users owe nothing.
Fairness ==
    /\ \A r \in Runs : WF_vars(RunStep(r)) /\ WF_vars(Beat(r))
    /\ WF_vars(Tick) /\ WF_vars(Sweep) /\ WF_vars(Drain) /\ WF_vars(Boot)
    /\ SF_vars(Boot /\ covers' = FailedRows({p \in Playlists : InFlight(p)}))

FairSpec == Spec /\ Fairness

-----------------------------------------------------------------------------
(***************************************************************************)
(* What is claimed of it.                                                  *)
(***************************************************************************)

\* At most one pipeline is at work on a playlist at any time, across claims,
\* retries, crashes, reaps, sweeps and lost beats: the mutual exclusion that
\* StartCoverRun's conditional upsert, the heartbeat and the sweep make together.
OneRunPerPlaylist ==
    \A r, s \in Runs : Active(r) /\ Active(s) /\ PlaylistOf[r] = PlaylistOf[s] => r = s

\* Why the exclusion holds: while a run is at work its row exists, is in flight,
\* is the row its claim named and was granted to nobody since, and is no older
\* than the intervals the run let pass.
ClaimHeld(r) ==
    LET p == PlaylistOf[r] IN
    /\ InFlight(p)
    /\ covers[p].id = claim[r] /\ coverId[r] = claim[r]
    /\ holder[p] = r
    /\ covers[p].age <= quiet[r] + (IF r \in due THEN 1 ELSE 0)
    /\ pc[r] \in {"saveReady", "failRevision", "failCover"} \/ r \in beating
    /\ up

ClaimInv ==
    /\ \A r \in Runs : Active(r) => ClaimHeld(r)
    /\ draining = {}

NewRunOn(p) == \E r \in Runs : PlaylistOf[r] = p /\ pc[r] = "idle" /\ pc'[r] # "idle"
FinishedRowsKept ==
    \A p \in Playlists : covers[p].status \in TerminalStatus =>
        covers'[p].status = covers[p].status \/ covers'[p] = NoRow \/ NewRunOn(p)

\* A finished row changes only when a user starts the next generation or deletes
\* the cover: no write of a run, a sweep or a reap that comes late reaches it.
TerminalIsStable == [][FinishedRowsKept]_vars

\* Whoever reads a cover as ready finds the artwork of the run that made it
\* ready, with its bytes, as the newest ready revision, unless the user has
\* deleted that revision: the order SaveRevision, Put, Save, and the failure
\* path's rewrite, never show "ready" early.
ReadyCoverShowsItsRun ==
    \A p \in Playlists : covers[p].status = "ready" =>
        LET r == holder[p] IN
        (\E x \in removed : x.id = r) \/
            /\ revisions[r].status = "ready" /\ r \in images
            /\ \A q \in RevisionsOf(covers[p].id) :
                 revisions[q].status = "ready" => revisions[q].stamp <= revisions[r].stamp

\* The contract of CoverClaim.  A cover's row shows it; a run's artwork can be
\* shown once its revision reads ready and its bytes are stored.
Contract == INSTANCE CoverClaim WITH
    shown <- [p \in Playlists |-> IF InFlight(p) THEN "running" ELSE covers[p].status],
    owner <- holder,
    art <- {r \in images : revisions[r].status = "ready"},
    deleted <- {x.id : x \in removed},
    spent <- {r \in Runs : pc[r] # "idle"}

\* The pipeline with its heartbeat, sweep and crashes keeps that contract: nothing
\* a run does reaches a cover or its artwork once the claim has passed on.
KeepsContract == Contract!ClaimSpec

\* The history reads the same by number and by completion: a revision that
\* finished later has the higher number, whatever was deleted or rewritten.
HistoryOrdered ==
    \A q, r \in Runs :
        /\ revisions[q].status # "none" /\ revisions[r].status # "none"
        /\ revisions[q].cover = revisions[r].cover
        /\ revisions[q].stamp < revisions[r].stamp
        => revisions[q].number < revisions[r].number

\* No playlist stays claimed: a row in flight is released, by its run, by the
\* sweep or by a reap, or is deleted.
ClaimReleased == \A p \in Playlists : InFlight(p) ~> ~InFlight(p)

\* domain/cover.go says of a revision's number that it is "never reused": no stored
\* revision carries the number of another revision of its cover that was deleted.
NumberNeverReused ==
    \A q \in Runs, x \in removed :
        revisions[q].status # "none" /\ x.id # q /\ x.cover = revisions[q].cover
        => x.number # revisions[q].number

\* generate_cover.go says a revision "can never sit at ready pointing at nothing":
\* once its run is over, a ready revision has its bytes.
ReadyRevisionHasImage ==
    \A q \in Runs : revisions[q].status = "ready" /\ pc[q] = "ended" => q \in images

=============================================================================
