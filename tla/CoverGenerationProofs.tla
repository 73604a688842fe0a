------------------------ MODULE CoverGenerationProofs ------------------------
(***************************************************************************)
(* Theorems about CoverGeneration, for every set of playlists and runs and *)
(* every timing.                                                           *)
(***************************************************************************)
EXTENDS CoverGeneration, FiniteSetTheorems, TLAPS

-----------------------------------------------------------------------------
(* What the helpers return.                                                *)

LEMMA NumbersAreNaturals == RevisionNumbers \subseteq Nat
<1>1. Cardinality(Runs) \in Nat
  BY RunAssumption, FS_CardinalityType
<1>2. QED
  BY <1>1 DEF RevisionNumbers

\* The row of a run's playlist and what Save writes in it have their types.
LEMMA SaveCoverType ==
    ASSUME TypeOK, NEW r \in Runs, NEW o, NEW status \in InFlightStatus \cup TerminalStatus,
           SaveCover(r, status, o)
    PROVE  /\ covers' \in [Playlists -> CoverRow]
           /\ coverId' \in [Runs -> Ids]
           /\ quiet' \in [Runs -> 0 .. MaxQuiet]
<1>1. PlaylistOf[r] \in Playlists
  BY TargetAssumption
<1>2. CASE o = "error"
  BY <1>2 DEF TypeOK, SaveCover
<1>3. CASE o # "error"
  <2> DEFINE id == IF Exists(PlaylistOf[r]) THEN covers[PlaylistOf[r]].id ELSE coverId[r]
  <2>1. id \in Ids
    BY <1>1 DEF TypeOK, CoverRow
  <2>2. [id |-> id, status |-> status, age |-> 0] \in CoverRow
    BY <2>1, TimingAssumption DEF CoverRow
  <2>3. covers' = [covers EXCEPT ![PlaylistOf[r]] = [id |-> id, status |-> status, age |-> 0]]
    BY <1>3 DEF SaveCover
  <2>4. covers' \in [Playlists -> CoverRow]
    BY <2>2, <2>3 DEF TypeOK
  <2>5. coverId' \in [Runs -> Ids]
    BY <1>3, <2>1 DEF SaveCover, TypeOK
  <2>6. quiet' \in [Runs -> 0 .. MaxQuiet]
    BY <1>3, TimingAssumption DEF SaveCover, TypeOK
  <2>7. QED
    BY <2>4, <2>5, <2>6
<1>4. QED
  BY <1>2, <1>3

LEMMA SaveRevisionType ==
    ASSUME TypeOK, NEW r \in Runs, NEW o, NEW status \in TerminalStatus,
           SaveRevision(r, status, o)
    PROVE  revisions' \in [Runs -> RevisionRow]
<1>1. CASE o = "error"
  BY <1>1 DEF TypeOK, SaveRevision
<1>2. CASE o # "error"
  <2>1. PICK n \in RevisionNumbers, t \in RevisionNumbers :
            revisions' = [revisions EXCEPT ![r] =
                [cover |-> claim[r], status |-> status, number |-> n, stamp |-> t]]
    BY <1>2 DEF SaveRevision
  <2>2. n \in Nat /\ t \in Nat
    BY NumbersAreNaturals
  <2>3. [cover |-> claim[r], status |-> status, number |-> n, stamp |-> t] \in RevisionRow
    BY <2>2 DEF TypeOK, RevisionRow
  <2>4. QED
    BY <2>1, <2>3 DEF TypeOK
<1>3. QED
  BY <1>1, <1>2

LEMMA FailedRowsType ==
    ASSUME TypeOK, NEW S
    PROVE  FailedRows(S) \in [Playlists -> CoverRow]
<1>1. ASSUME NEW p \in Playlists
      PROVE  [covers[p] EXCEPT !.status = "failed", !.age = 0] \in CoverRow
  <2>1. covers[p] \in CoverRow
    BY DEF TypeOK
  <2>2. "failed" \in TerminalStatus /\ 0 \in 0 .. StaleAfter
    BY TimingAssumption DEF TerminalStatus
  <2>3. QED
    BY <2>1, <2>2 DEF CoverRow
<1>2. QED
  BY <1>1 DEF FailedRows, TypeOK

LEMMA RetireType ==
    ASSUME TypeOK, NEW S, Retire(S)
    PROVE  /\ beating' \in SUBSET Runs /\ due' \in SUBSET Runs
           /\ quiet' \in [Runs -> 0 .. MaxQuiet]
           /\ draining' \in SUBSET Runs
           /\ claim' \in [Runs -> Ids] /\ coverId' \in [Runs -> Ids]
BY TimingAssumption DEF TypeOK, Retire, Ids

LEMMA DropRevisionsType ==
    ASSUME TypeOK, NEW S, DropRevisions(S)
    PROVE  revisions' \in [Runs -> RevisionRow] /\ images' \in SUBSET Runs
<1>1. NoRevision \in RevisionRow
  BY DEF NoRevision, RevisionRow, Ids
<1>2. QED
  BY <1>1 DEF TypeOK, DropRevisions

-----------------------------------------------------------------------------
(* Type correctness, one step per action.                                  *)

LEMMA InitType == Init => TypeOK
BY TimingAssumption
DEF Init, TypeOK, NoRow, NoRevision, CoverRow, RevisionRow, Ids, Places

LEMMA StartRunType == ASSUME TypeOK, NEW r \in Runs, StartRun(r) PROVE TypeOK'
<1> DEFINE p == PlaylistOf[r]
           id == IF Exists(p) THEN covers[p].id ELSE r
<1>1. p \in Playlists
  BY TargetAssumption
<1>2. id \in Ids
  BY <1>1 DEF TypeOK, CoverRow, Ids
<1>3. [id |-> id, status |-> "pending", age |-> 0] \in CoverRow
  BY <1>2, TimingAssumption DEF CoverRow, InFlightStatus
<1>4. covers' = [covers EXCEPT ![p] = [id |-> id, status |-> "pending", age |-> 0]]
      /\ holder' = [holder EXCEPT ![p] = r]
  BY DEF StartRun
<1>5. covers' \in [Playlists -> CoverRow] /\ holder' \in [Playlists -> Ids]
  BY <1>3, <1>4 DEF TypeOK, Ids
<1>6. /\ pc' \in [Runs -> Places]
      /\ claim' \in [Runs -> Ids] /\ coverId' \in [Runs -> Ids]
      /\ beating' \in SUBSET Runs
  <2>1. CASE /\ Goto(r, "saveAnalyzing")
             /\ claim' = [claim EXCEPT ![r] = id]
             /\ coverId' = [coverId EXCEPT ![r] = id]
             /\ beating' = beating \cup {r}
    BY <2>1, <1>2 DEF TypeOK, Goto, Places, Working
  <2>2. CASE Goto(r, "ended") /\ UNCHANGED <<ids, beating>>
    BY <2>2 DEF TypeOK, Goto, Places, ids
  <2>3. QED
    BY <2>1, <2>2 DEF StartRun
<1>7. UNCHANGED <<revisions, images, due, quiet, process, removed>>
  BY DEF StartRun
<1>8. QED
  BY <1>5, <1>6, <1>7 DEF TypeOK, process

LEMMA RunStepType == ASSUME TypeOK, NEW r \in Runs, RunStep(r) PROVE TypeOK'
<1>1. CASE SaveAnalyzing(r)
  <2>1. PICK o \in WriteOutcomes :
            SaveCover(r, "analyzing", o) /\ Goto(r, Then(o, "saveGenerating"))
    BY <1>1 DEF SaveAnalyzing
  <2>2. /\ covers' \in [Playlists -> CoverRow]
        /\ coverId' \in [Runs -> Ids] /\ quiet' \in [Runs -> 0 .. MaxQuiet]
    BY <2>1, SaveCoverType DEF InFlightStatus
  <2>3. QED
    BY <1>1, <2>1, <2>2
    DEF SaveAnalyzing, TypeOK, Goto, Then, Places, Working, process, history
<1>2. CASE SaveGenerating(r)
  <2>1. PICK o \in WriteOutcomes :
            SaveCover(r, "generating", o) /\ Goto(r, Then(o, "recordRevision"))
    BY <1>2 DEF SaveGenerating
  <2>2. /\ covers' \in [Playlists -> CoverRow]
        /\ coverId' \in [Runs -> Ids] /\ quiet' \in [Runs -> 0 .. MaxQuiet]
    BY <2>1, SaveCoverType DEF InFlightStatus
  <2>3. QED
    BY <1>2, <2>1, <2>2
    DEF SaveGenerating, TypeOK, Goto, Then, Places, Working, process, history
<1>3. CASE RecordRevision(r)
  <2>1. PICK o \in RevisionOutcomes(r) :
            SaveRevision(r, "ready", o) /\ Goto(r, Then(o, "storeImage"))
    BY <1>3 DEF RecordRevision
  <2>2. revisions' \in [Runs -> RevisionRow]
    BY <2>1, SaveRevisionType DEF TerminalStatus
  <2>3. QED
    BY <1>3, <2>1, <2>2
    DEF RecordRevision, TypeOK, Goto, Then, Places, Working, ids, beats, process
<1>4. CASE StoreImage(r)
  BY <1>4 DEF StoreImage, TypeOK, Goto, Then, Places, Working, ids, beats, process, history
<1>5. CASE StopHeartbeat(r)
  BY <1>5 DEF StopHeartbeat, TypeOK, Goto, Places, Working, tables, ids, process, history
<1>6. CASE SaveReady(r)
  <2>1. PICK o \in ReleaseOutcomes : SaveCover(r, "ready", o) /\ Goto(r, Then(o, "unwind"))
    BY <1>6 DEF SaveReady
  <2>2. /\ covers' \in [Playlists -> CoverRow]
        /\ coverId' \in [Runs -> Ids] /\ quiet' \in [Runs -> 0 .. MaxQuiet]
    BY <2>1, SaveCoverType DEF TerminalStatus
  <2>3. QED
    BY <1>6, <2>1, <2>2
    DEF SaveReady, TypeOK, Goto, Then, Places, Working, process, history
<1>7. CASE FailRevision(r)
  <2>1. PICK o \in RevisionOutcomes(r) : SaveRevision(r, "failed", o)
    BY <1>7 DEF FailRevision
  <2>2. revisions' \in [Runs -> RevisionRow]
    BY <2>1, SaveRevisionType DEF TerminalStatus
  <2>3. QED
    BY <1>7, <2>2 DEF FailRevision, TypeOK, Goto, Places, Working, ids, beats, process
<1>8. CASE FailCover(r)
  <2>1. PICK o \in WriteOutcomes : SaveCover(r, "failed", o)
    BY <1>8 DEF FailCover
  <2>2. /\ covers' \in [Playlists -> CoverRow]
        /\ coverId' \in [Runs -> Ids] /\ quiet' \in [Runs -> 0 .. MaxQuiet]
    BY <2>1, SaveCoverType DEF TerminalStatus
  <2>3. QED
    BY <1>8, <2>2 DEF FailCover, TypeOK, Goto, Places, process, history
<1>9. CASE Unwind(r)
  <2>1. Retire({r})
    BY <1>9 DEF Unwind
  <2>2. QED
    BY <1>9, <2>1, RetireType DEF Unwind, TypeOK, Goto, Places, tables, history
<1>10. QED
  BY <1>1, <1>2, <1>3, <1>4, <1>5, <1>6, <1>7, <1>8, <1>9 DEF RunStep

\* A beat and a tick move only timing: ages, due beats and quiet intervals.
LEMMA BeatType == ASSUME TypeOK, NEW r \in Runs, Beat(r) PROVE TypeOK'
<1>1. Touched(r) \in [Playlists -> CoverRow]
  <2>1. ASSUME NEW p \in Playlists
        PROVE  [covers[p] EXCEPT !.age = 0] \in CoverRow
    <3>1. covers[p] \in CoverRow /\ 0 \in 0 .. StaleAfter
      BY TimingAssumption DEF TypeOK
    <3>2. QED
      BY <3>1 DEF CoverRow
  <2>2. QED
    BY <2>1 DEF Touched, TypeOK
<1>2. covers' \in [Playlists -> CoverRow]
  BY <1>1 DEF Beat, TypeOK
<1>3. quiet' \in [Runs -> 0 .. MaxQuiet]
  BY TimingAssumption DEF Beat, TypeOK
<1>4. QED
  BY <1>2, <1>3 DEF Beat, TypeOK, ids, process, history

LEMMA TickType == ASSUME TypeOK, Tick PROVE TypeOK'
<1>1. ASSUME NEW p \in Playlists, covers[p].age < StaleAfter
      PROVE  [covers[p] EXCEPT !.age = @ + 1] \in CoverRow
  <2>1. covers[p] \in CoverRow
    BY DEF TypeOK
  <2>2. covers[p].age + 1 \in 0 .. StaleAfter
    BY <1>1, <2>1, TimingAssumption DEF CoverRow
  <2>3. QED
    BY <2>1, <2>2 DEF CoverRow
<1>2. covers' \in [Playlists -> CoverRow]
  BY <1>1 DEF Tick, TypeOK
<1>3. quiet' \in [Runs -> 0 .. MaxQuiet]
  <2>1. ASSUME NEW r \in Runs, quiet[r] < MaxQuiet PROVE quiet[r] + 1 \in 0 .. MaxQuiet
    BY <2>1, TimingAssumption DEF TypeOK
  <2>2. QED
    BY <2>1 DEF Tick, TypeOK
<1>4. QED
  BY <1>2, <1>3 DEF Tick, TypeOK, ids, process, history

LEMMA ReapType == ASSUME TypeOK, Reap PROVE covers' \in [Playlists -> CoverRow]
<1>1. FailedRows({p \in Playlists : InFlight(p)}) \in [Playlists -> CoverRow]
  BY FailedRowsType
<1>2. QED
  BY <1>1 DEF Reap, TypeOK

LEMMA KillType ==
    ASSUME TypeOK, NEW S, Kill(S)
    PROVE  /\ pc' \in [Runs -> Places]
           /\ beating' \in SUBSET Runs /\ due' \in SUBSET Runs
           /\ quiet' \in [Runs -> 0 .. MaxQuiet]
           /\ draining' \in SUBSET Runs
           /\ claim' \in [Runs -> Ids] /\ coverId' \in [Runs -> Ids]
<1>1. Retire(S)
  BY DEF Kill
<1>2. pc' \in [Runs -> Places]
  BY DEF Kill, TypeOK, Places
<1>3. QED
  BY <1>1, <1>2, RetireType

LEMMA ProcessType ==
    ASSUME TypeOK, Sweep \/ Crash \/ Boot \/ Deploy \/ Drain
    PROVE  TypeOK'
<1>1. CASE Sweep
  <2>1. covers' = FailedRows({p \in Playlists : Stale(p)})
    BY <1>1 DEF Sweep
  <2>2. covers' \in [Playlists -> CoverRow]
    BY <2>1, FailedRowsType
  <2>3. QED
    BY <1>1, <2>2 DEF Sweep, TypeOK, ids, beats, process, history
<1>2. CASE Crash
  <2>1. Kill({r \in Runs : Alive(r)} \ draining)
    BY <1>2 DEF Crash
  <2>2. QED
    BY <1>2, <2>1, KillType DEF Crash, TypeOK, tables, history
<1>3. CASE Boot
  BY <1>3, ReapType DEF Boot, TypeOK, ids, beats, history
<1>4. CASE Deploy
  BY <1>4, ReapType DEF Deploy, TypeOK, ids, beats, history
<1>5. CASE Drain
  <2>1. Kill(draining)
    BY <1>5 DEF Drain
  <2>2. QED
    BY <1>5, <2>1, KillType DEF Drain, TypeOK, tables, history
<1>6. QED
  BY <1>1, <1>2, <1>3, <1>4, <1>5

LEMMA DeleteCoverType == ASSUME TypeOK, NEW p \in Playlists, DeleteCover(p) PROVE TypeOK'
<1>1. covers' = [covers EXCEPT ![p] = NoRow] /\ holder' = [holder EXCEPT ![p] = NoRun]
  BY DEF DeleteCover
<1>2. NoRow \in CoverRow
  BY TimingAssumption DEF NoRow, CoverRow, Ids
<1>3. covers' \in [Playlists -> CoverRow] /\ holder' \in [Playlists -> Ids]
  BY <1>1, <1>2 DEF TypeOK, Ids
<1>4. revisions' \in [Runs -> RevisionRow] /\ images' \in SUBSET Runs
  BY DropRevisionsType DEF DeleteCover
<1>5. QED
  BY <1>3, <1>4 DEF DeleteCover, TypeOK, ids, beats, process

LEMMA DeleteRevisionType == ASSUME TypeOK, NEW q \in Runs, DeleteRevision(q) PROVE TypeOK'
<1>1. DropRevisions({q})
  BY DEF DeleteRevision
<1>2. revisions' \in [Runs -> RevisionRow] /\ images' \in SUBSET Runs
  BY <1>1, DropRevisionsType
<1>3. [id |-> q, cover |-> revisions[q].cover, number |-> revisions[q].number]
        \in [id : Runs, cover : Ids, number : Nat]
  BY DEF TypeOK, RevisionRow
<1>4. QED
  BY <1>2, <1>3 DEF DeleteRevision, TypeOK, ids, beats, process

LEMMA NextType == ASSUME TypeOK, [Next]_vars PROVE TypeOK'
<1>1. CASE \E r \in Runs : StartRun(r)
  BY <1>1, StartRunType
<1>2. CASE \E r \in Runs : RunStep(r)
  BY <1>2, RunStepType
<1>3. CASE \E r \in Runs : Beat(r)
  BY <1>3, BeatType
<1>4. CASE \E r \in Runs : DeleteRevision(r)
  BY <1>4, DeleteRevisionType
<1>5. CASE \E p \in Playlists : DeleteCover(p)
  BY <1>5, DeleteCoverType
<1>6. CASE Tick
  BY <1>6, TickType
<1>7. CASE Sweep \/ Crash \/ Boot \/ Deploy \/ Drain
  BY <1>7, ProcessType
<1>8. CASE UNCHANGED vars
  BY <1>8 DEF vars, TypeOK
<1>9. QED
  BY <1>1, <1>2, <1>3, <1>4, <1>5, <1>6, <1>7, <1>8 DEF Next

\* Every variable keeps its type: no interleaving of runs, beats, sweeps, crashes
\* and deletions writes a row the schema or the domain type does not have.
THEOREM TypeCorrect == Spec => []TypeOK
BY InitType, NextType, PTL DEF Spec

-----------------------------------------------------------------------------
(***************************************************************************)
(* The mutual exclusion.  It rests on ClaimInv, which is inductive: a run  *)
(* at work holds a row in flight, under its own claim and young enough for *)
(* the sweep to leave alone.  It needs an environment in which              *)
(*   - the run's last write is not reported as failed after it committed,  *)
(*   - a live run is not silent for as long as the sweep waits,            *)
(*   - no second process runs at the same time, and                        *)
(*   - nobody deletes a cover that a run is at work on.                    *)
(***************************************************************************)
Steady ==
    /\ Faults \cap {"lostRelease", "stall", "overlap"} = {}
    /\ "inFlight" \notin Deletions
    /\ MaxQuiet + 1 < StaleAfter

LEMMA InitClaim == Init => ClaimInv
BY DEF Init, ClaimInv, Active, Working

\* Runs at work on one playlist are one run: the claim was granted last to both.
LEMMA ClaimIsExclusive == ClaimInv => OneRunPerPlaylist
BY DEF ClaimInv, ClaimHeld, OneRunPerPlaylist

\* A claim is unaffected by a step that leaves its own row and locals alone and
\* does not shorten what the heartbeat owes it.
LEMMA ClaimKept ==
    ASSUME NEW r \in Runs, ClaimHeld(r),
           covers'[PlaylistOf[r]] = covers[PlaylistOf[r]],
           claim'[r] = claim[r], coverId'[r] = coverId[r],
           holder'[PlaylistOf[r]] = holder[PlaylistOf[r]],
           quiet'[r] = quiet[r], r \in due' <=> r \in due,
           r \in beating => r \in beating' , pc'[r] = pc[r], up' = up
    PROVE  ClaimHeld(r)'
BY DEF ClaimHeld, InFlight

\* While a run is at work, Save changes its row's status and renews its age.
LEMMA SaveCoverKeepsClaim ==
    ASSUME TypeOK, NEW r \in Runs, ClaimHeld(r), NEW status \in InFlightStatus, NEW o,
           SaveCover(r, status, o),
           holder' = holder, claim' = claim, due' = due, up' = up,
           beating' = beating, r \in beating
    PROVE  ClaimHeld(r)'
<1>1. PlaylistOf[r] \in Playlists
  BY TargetAssumption
<1>2. CASE o = "error"
  BY <1>2 DEF SaveCover, ClaimHeld, InFlight
<1>3. CASE o # "error"
  <2>1. Exists(PlaylistOf[r])
    BY DEF ClaimHeld, InFlight, Exists, InFlightStatus
  <2>2. covers' = [covers EXCEPT ![PlaylistOf[r]] =
                      [id |-> claim[r], status |-> status, age |-> 0]]
    BY <1>3, <2>1 DEF SaveCover, ClaimHeld
  <2>3. coverId'[r] = claim[r]
    BY <1>3, <2>1 DEF SaveCover, ClaimHeld, TypeOK
  <2>4. quiet'[r] = 0
    BY <1>3 DEF SaveCover, TypeOK
  <2>5. covers'[PlaylistOf[r]] = [id |-> claim[r], status |-> status, age |-> 0]
    BY <1>1, <2>2 DEF TypeOK
  <2>6. QED
    BY <2>3, <2>4, <2>5 DEF ClaimHeld, InFlight
<1>4. QED
  BY <1>2, <1>3

\* Save touches no other playlist and no other run.
LEMMA SaveCoverIsLocal ==
    ASSUME TypeOK, NEW r \in Runs, NEW status, NEW o, SaveCover(r, status, o)
    PROVE  /\ \A p \in Playlists \ {PlaylistOf[r]} : covers'[p] = covers[p]
           /\ \A s \in Runs \ {r} : coverId'[s] = coverId[s] /\ quiet'[s] = quiet[s]
BY TargetAssumption DEF SaveCover, TypeOK

LEMMA StartRunClaim ==
    ASSUME TypeOK, ClaimInv, NEW r \in Runs, StartRun(r)
    PROVE  ClaimInv'
<1> DEFINE p == PlaylistOf[r]
           id == IF Exists(p) THEN covers[p].id ELSE r
<1>1. p \in Playlists
  BY TargetAssumption
<1>2. /\ covers' = [covers EXCEPT ![p] = [id |-> id, status |-> "pending", age |-> 0]]
      /\ holder' = [holder EXCEPT ![p] = r]
      /\ due' = due /\ quiet' = quiet /\ up' = up /\ up /\ draining' = draining
      /\ ~InFlight(p) /\ pc[r] = "idle"
  BY DEF StartRun, process, ClaimFree
<1>3. /\ \A s \in Runs \ {r} : pc'[s] = pc[s] /\ claim'[s] = claim[s] /\ coverId'[s] = coverId[s]
      /\ beating \subseteq beating'
  BY DEF StartRun, Goto, ids, TypeOK
<1>4. ASSUME NEW s \in Runs \ {r}, Active(s)' PROVE ClaimHeld(s)'
  <2>1. ClaimHeld(s)
    BY <1>3, <1>4 DEF ClaimInv, Active
  <2>2. PlaylistOf[s] # p /\ PlaylistOf[s] \in Playlists
    BY <1>2, <2>1, TargetAssumption DEF ClaimHeld
  <2>3. covers'[PlaylistOf[s]] = covers[PlaylistOf[s]] /\ holder'[PlaylistOf[s]] = holder[PlaylistOf[s]]
    BY <1>2, <2>2 DEF TypeOK
  <2>4. QED
    BY <1>2, <1>3, <2>1, <2>3, ClaimKept
<1>5. ASSUME Active(r)' PROVE ClaimHeld(r)'
  <2>1. /\ claim' = [claim EXCEPT ![r] = id] /\ coverId' = [coverId EXCEPT ![r] = id]
        /\ beating' = beating \cup {r}
    BY <1>5 DEF StartRun, Goto, Active, Working, TypeOK
  <2>2. covers'[p] = [id |-> id, status |-> "pending", age |-> 0] /\ holder'[p] = r
    BY <1>1, <1>2 DEF TypeOK
  <2>3. claim'[r] = id /\ coverId'[r] = id /\ r \in beating'
    BY <2>1 DEF TypeOK
  <2>4. quiet'[r] \in Nat
    BY <1>2 DEF TypeOK
  <2>5. QED
    BY <1>2, <2>2, <2>3, <2>4 DEF ClaimHeld, InFlight, InFlightStatus
<1>6. QED
  BY <1>2, <1>4, <1>5 DEF ClaimInv

\* A step of a run at work leaves the claims of the others alone, because they
\* are for other playlists.
LEMMA OthersKeepClaim ==
    ASSUME TypeOK, ClaimInv, NEW r \in Runs, Active(r),
           \A p \in Playlists \ {PlaylistOf[r]} : covers'[p] = covers[p],
           \A s \in Runs \ {r} : /\ pc'[s] = pc[s] /\ claim'[s] = claim[s]
                                 /\ coverId'[s] = coverId[s] /\ quiet'[s] = quiet[s]
                                 /\ s \in beating => s \in beating'
                                 /\ s \in due' <=> s \in due,
           holder' = holder, up' = up
    PROVE  \A s \in Runs \ {r} : Active(s)' => ClaimHeld(s)'
<1> SUFFICES ASSUME NEW s \in Runs \ {r}, Active(s)' PROVE ClaimHeld(s)'
  OBVIOUS
<1>1. ClaimHeld(s) /\ ClaimHeld(r)
  BY DEF ClaimInv, Active
<1>2. PlaylistOf[s] \in Playlists \ {PlaylistOf[r]}
  BY <1>1, TargetAssumption DEF ClaimHeld
<1>3. QED
  BY <1>1, <1>2, ClaimKept

LEMMA RunStepClaim ==
    ASSUME Steady, TypeOK, ClaimInv, NEW r \in Runs, RunStep(r)
    PROVE  ClaimInv'
<1>1. ASSUME NEW status \in InFlightStatus, NEW next \in Working, NEW o, pc[r] \in Working,
             SaveCover(r, status, o), Goto(r, Then(o, next)), r \in beating,
             UNCHANGED <<revisions, images, claim, beating, due, process, history>>
      PROVE  ClaimInv'
  <2>1. Active(r) /\ ClaimHeld(r)
    BY <1>1 DEF Active, ClaimInv
  <2>2. ClaimHeld(r)'
    BY <1>1, <2>1, SaveCoverKeepsClaim DEF history, process
  <2>3. \A s \in Runs \ {r} : Active(s)' => ClaimHeld(s)'
    BY <1>1, <2>1, SaveCoverIsLocal, OthersKeepClaim DEF Goto, TypeOK, process, history
  <2>4. QED
    BY <1>1, <2>2, <2>3 DEF ClaimInv, process
<1>2. CASE SaveAnalyzing(r)
  <2>1. pc[r] \in Working /\ r \in beating
    BY <1>2 DEF SaveAnalyzing, Working, ClaimInv, Active, ClaimHeld
  <2>2. QED
    BY <1>1, <1>2, <2>1 DEF SaveAnalyzing, InFlightStatus, Working
<1>3. CASE SaveGenerating(r)
  <2>1. pc[r] \in Working /\ r \in beating
    BY <1>3 DEF SaveGenerating, Working, ClaimInv, Active, ClaimHeld
  <2>2. QED
    BY <1>1, <1>3, <2>1 DEF SaveGenerating, InFlightStatus, Working
\* The steps that leave the covers table alone.
<1>4. ASSUME NEW place \in Working, pc[r] \in Working, Goto(r, place),
             place \in {"saveReady", "failRevision", "failCover"} \/ r \in beating',
             \A s \in Runs \ {r} : s \in beating => s \in beating',
             UNCHANGED <<covers, ids, due, quiet, process, holder>>
      PROVE  ClaimInv'
  <2>1. Active(r) /\ ClaimHeld(r)
    BY <1>4 DEF Active, ClaimInv
  <2>2. ClaimHeld(r)'
    BY <1>4, <2>1 DEF ClaimHeld, InFlight, Goto, TypeOK, ids, process
  <2>3. \A s \in Runs \ {r} : Active(s)' => ClaimHeld(s)'
    BY <1>4, <2>1, OthersKeepClaim DEF Goto, TypeOK, ids, process
  <2>4. QED
    BY <1>4, <2>2, <2>3 DEF ClaimInv, process
<1>5. CASE RecordRevision(r)
  <2>1. PICK o : Goto(r, Then(o, "storeImage"))
    BY <1>5 DEF RecordRevision
  <2>2. pc[r] \in Working /\ r \in beating
    BY <1>5 DEF RecordRevision, Working, ClaimInv, Active, ClaimHeld
  <2>3. Then(o, "storeImage") \in Working
    BY DEF Then, Working
  <2>4. UNCHANGED <<covers, ids, beats, process, holder>>
    BY <1>5 DEF RecordRevision
  <2>5. QED
    BY <1>4, <2>1, <2>2, <2>3, <2>4 DEF beats
<1>6. CASE StoreImage(r)
  <2>1. PICK o : Goto(r, Then(o, "stopHeartbeat"))
    BY <1>6 DEF StoreImage
  <2>2. pc[r] \in Working /\ r \in beating
    BY <1>6 DEF StoreImage, Working, ClaimInv, Active, ClaimHeld
  <2>3. Then(o, "stopHeartbeat") \in Working
    BY DEF Then, Working
  <2>4. UNCHANGED <<covers, ids, beats, process, holder>>
    BY <1>6 DEF StoreImage, history
  <2>5. QED
    BY <1>4, <2>1, <2>2, <2>3, <2>4 DEF beats
<1>7. CASE StopHeartbeat(r)
  <2>1. pc[r] \in Working /\ "saveReady" \in Working
    BY <1>7 DEF StopHeartbeat, Working
  <2>2. Goto(r, "saveReady") /\ beating' = beating \ {r}
        /\ UNCHANGED <<covers, ids, due, quiet, process, holder>>
    BY <1>7 DEF StopHeartbeat, tables, history
  <2>3. QED
    BY <1>4, <2>1, <2>2
<1>8. CASE FailRevision(r)
  <2>1. pc[r] \in Working /\ "failCover" \in Working
    BY <1>8 DEF FailRevision, Working
  <2>2. Goto(r, "failCover") /\ UNCHANGED <<covers, ids, beats, process, holder>>
    BY <1>8 DEF FailRevision
  <2>3. QED
    BY <1>4, <2>1, <2>2 DEF beats
\* The two writes that end a run: it is not at work any more.
<1>9. ASSUME NEW status, NEW o, pc[r] \in Working, SaveCover(r, status, o), Goto(r, "unwind"),
             UNCHANGED <<revisions, images, claim, beating, due, process, history>>
      PROVE  ClaimInv'
  <2>1. Active(r) /\ ~Active(r)'
    BY <1>9 DEF Active, Goto, Working, TypeOK
  <2>2. \A s \in Runs \ {r} : Active(s)' => ClaimHeld(s)'
    BY <1>9, <2>1, SaveCoverIsLocal, OthersKeepClaim DEF Goto, TypeOK, process, history
  <2>3. QED
    BY <1>9, <2>1, <2>2 DEF ClaimInv, process
<1>10. CASE SaveReady(r)
  <2>1. PICK o \in ReleaseOutcomes : SaveCover(r, "ready", o) /\ Goto(r, Then(o, "unwind"))
    BY <1>10 DEF SaveReady
  <2>2. pc[r] \in Working
    BY <1>10 DEF SaveReady, Working
  <2>3. CASE o = "ok"
    BY <1>9, <1>10, <2>1, <2>2, <2>3 DEF SaveReady, Then
  <2>4. CASE o = "error"
    <3>1. Goto(r, "failRevision") /\ UNCHANGED <<covers, ids, quiet>>
      BY <1>10, <2>1, <2>4 DEF SaveReady, SaveCover, Then, ids
    <3>2. "failRevision" \in Working
      BY DEF Working
    <3>3. QED
      BY <1>4, <1>10, <2>2, <3>1, <3>2 DEF SaveReady, history
  <2>5. o \in {"ok", "error"}
    BY <2>1 DEF ReleaseOutcomes, Steady
  <2>6. QED
    BY <2>3, <2>4, <2>5
<1>11. CASE FailCover(r)
  <2>1. pc[r] \in Working
    BY <1>11 DEF FailCover, Working
  <2>2. QED
    BY <1>9, <1>11, <2>1 DEF FailCover
<1>12. CASE Unwind(r)
  <2>1. Goto(r, "ended") /\ Retire({r}) /\ UNCHANGED <<tables, up, history>> /\ pc[r] = "unwind"
    BY <1>12 DEF Unwind
  <2>2. ASSUME NEW s \in Runs, Active(s)' PROVE ClaimHeld(s)'
    <3>1. s # r /\ pc'[s] = pc[s]
      BY <2>1, <2>2 DEF Goto, Active, Working, TypeOK
    <3>2. ClaimHeld(s)
      BY <2>2, <3>1 DEF ClaimInv, Active
    <3>3. QED
      BY <2>1, <3>1, <3>2, ClaimKept DEF Retire, tables, history
  <2>3. QED
    BY <2>1, <2>2 DEF ClaimInv, Retire
<1>13. QED
  BY <1>2, <1>3, <1>5, <1>6, <1>7, <1>8, <1>10, <1>11, <1>12 DEF RunStep

\* A beat makes some rows as young as they can be, and only its own run counts
\* one more silent interval.
LEMMA BeatClaim ==
    ASSUME TypeOK, ClaimInv, NEW r \in Runs, Beat(r)
    PROVE  ClaimInv'
<1>1. /\ due' = due \ {r} /\ r \in due
      /\ UNCHANGED <<pc, claim, coverId, beating, up, draining, holder>>
  BY DEF Beat, ids, process, history
<1>2. ASSUME NEW s \in Runs, Active(s)' PROVE ClaimHeld(s)'
  <2>1. ClaimHeld(s) /\ PlaylistOf[s] \in Playlists
    BY <1>1, <1>2, TargetAssumption DEF ClaimInv, Active
  <2>2. quiet[s] \in Nat /\ quiet'[s] \in Nat
    <3>1. TypeOK'
      BY BeatType
    <3>2. QED
      BY <3>1 DEF TypeOK
  <2>3. CASE covers' = Touched(r) /\ quiet' = [quiet EXCEPT ![r] = 0]
    <3>1. covers'[PlaylistOf[s]] = IF Exists(PlaylistOf[s]) /\ covers[PlaylistOf[s]].id = claim[r]
                                   THEN [covers[PlaylistOf[s]] EXCEPT !.age = 0]
                                   ELSE covers[PlaylistOf[s]]
      BY <2>1, <2>3 DEF Touched
    <3>2. covers[PlaylistOf[s]] \in CoverRow
      BY <2>1 DEF TypeOK
    <3>3. CASE covers'[PlaylistOf[s]] = [covers[PlaylistOf[s]] EXCEPT !.age = 0]
      <4>1. /\ covers'[PlaylistOf[s]].age = 0
            /\ covers'[PlaylistOf[s]].id = covers[PlaylistOf[s]].id
            /\ covers'[PlaylistOf[s]].status = covers[PlaylistOf[s]].status
        BY <3>2, <3>3 DEF CoverRow
      <4>2. QED
        BY <1>1, <2>1, <2>2, <4>1 DEF ClaimHeld, InFlight
    <3>4. CASE covers'[PlaylistOf[s]] = covers[PlaylistOf[s]] /\ s # r
      BY <1>1, <2>1, <2>3, <3>4 DEF ClaimHeld, InFlight, TypeOK
    <3>5. s = r => covers'[PlaylistOf[s]] = [covers[PlaylistOf[s]] EXCEPT !.age = 0]
      BY <2>1, <3>1 DEF ClaimHeld, InFlight, InFlightStatus, Exists
    <3>6. QED
      BY <3>1, <3>3, <3>4, <3>5
  <2>4. CASE covers' = covers /\ quiet' = [quiet EXCEPT ![r] = @ + 1]
    <3>1. CASE s = r
      <4>1. quiet'[s] = quiet[s] + 1 /\ s \in due /\ s \notin due'
        BY <1>1, <2>4, <3>1 DEF TypeOK
      <4>2. covers[PlaylistOf[s]].age <= quiet[s] + 1
        BY <2>1, <4>1 DEF ClaimHeld
      <4>3. covers'[PlaylistOf[s]].age <= quiet'[s]
        BY <2>4, <4>1, <4>2
      <4>4. covers'[PlaylistOf[s]].age <= quiet'[s] + (IF s \in due' THEN 1 ELSE 0)
        BY <2>2, <4>1, <4>3
      <4>5. QED
        BY <1>1, <2>1, <2>4, <4>4 DEF ClaimHeld, InFlight
    <3>2. CASE s # r
      BY <1>1, <2>1, <2>4, <3>2, ClaimKept DEF TypeOK
    <3>3. QED
      BY <3>1, <3>2
  <2>5. QED
    BY <2>3, <2>4 DEF Beat
<1>3. QED
  BY <1>1, <1>2 DEF ClaimInv

\* An interval passes only when every writer has had its beat, and the closing
\* writes of a run are counted as silence.
LEMMA TickClaim ==
    ASSUME Steady, TypeOK, ClaimInv, Tick
    PROVE  ClaimInv'
<1>1. /\ beating \cap due = {} /\ \A r \in Runs : Closing(r) => quiet[r] < MaxQuiet
      /\ due' = due \cup beating
      /\ UNCHANGED <<pc, claim, coverId, beating, up, draining, holder>>
  BY DEF Tick, Steady, ids, process, history
<1>2. ASSUME NEW r \in Runs, Active(r)' PROVE ClaimHeld(r)'
  <2> DEFINE p == PlaylistOf[r]
  <2>1. ClaimHeld(r) /\ p \in Playlists
    BY <1>1, <1>2, TargetAssumption DEF ClaimInv, Active
  <2>2. covers[p] \in CoverRow /\ quiet[r] \in Nat
    BY <2>1 DEF TypeOK
  <2>3. covers[p].age \in Nat /\ covers'[p].age \in Nat
    <3>1. TypeOK'
      BY TickType
    <3>2. QED
      BY <2>1, <2>2, <3>1 DEF TypeOK, CoverRow
  <2>4. /\ covers'[p].id = covers[p].id /\ covers'[p].status = covers[p].status
        /\ covers'[p].age <= covers[p].age + 1
    BY <2>1, <2>2 DEF Tick, CoverRow
  <2>5. CASE r \in beating
    <3>1. r \notin due /\ r \in due' /\ ~Closing(r)
      BY <1>1, <2>5 DEF Closing
    <3>2. quiet'[r] = quiet[r]
      BY <3>1 DEF Tick
    <3>3. covers[p].age <= quiet[r]
      BY <2>1, <2>2, <3>1 DEF ClaimHeld
    <3>4. covers'[p].age <= quiet'[r] + (IF r \in due' THEN 1 ELSE 0)
      BY <2>2, <2>4, <2>3, <3>1, <3>2, <3>3
    <3>5. QED
      BY <1>1, <2>1, <2>4, <2>5, <3>4 DEF ClaimHeld, InFlight
  <2>6. CASE r \notin beating
    <3>1. Closing(r) /\ quiet[r] < MaxQuiet
      BY <1>1, <2>1, <2>6 DEF ClaimHeld, Closing
    <3>2. quiet'[r] = quiet[r] + 1
      BY <3>1 DEF Tick
    <3>3. r \in due' <=> r \in due
      BY <1>1, <2>6
    <3>4. covers'[p].age <= quiet'[r] + (IF r \in due' THEN 1 ELSE 0)
      BY <2>1, <2>2, <2>4, <2>3, <3>2, <3>3 DEF ClaimHeld
    <3>5. QED
      BY <1>1, <2>1, <2>4, <3>4 DEF ClaimHeld, InFlight
  <2>7. QED
    BY <2>5, <2>6
<1>3. QED
  BY <1>1, <1>2 DEF ClaimInv

\* The sweep's cutoff is out of reach of a run at work.
LEMMA SweepClaim ==
    ASSUME Steady, TypeOK, ClaimInv, Sweep
    PROVE  ClaimInv'
<1>1. UNCHANGED <<pc, claim, coverId, beating, due, quiet, up, draining, holder>>
  BY DEF Sweep, ids, beats, process, history
<1>2. ASSUME NEW r \in Runs, Active(r)' PROVE ClaimHeld(r)'
  <2>1. ClaimHeld(r) /\ PlaylistOf[r] \in Playlists
    BY <1>1, <1>2, TargetAssumption DEF ClaimInv, Active
  <2>2. covers[PlaylistOf[r]] \in CoverRow /\ quiet[r] \in 0 .. MaxQuiet
    BY <2>1 DEF TypeOK
  <2>3. covers[PlaylistOf[r]].age < StaleAfter
    BY <2>1, <2>2, TimingAssumption DEF ClaimHeld, Steady, CoverRow
  <2>4. ~Stale(PlaylistOf[r])
    BY <2>2, <2>3, TimingAssumption DEF Stale, CoverRow
  <2>5. covers'[PlaylistOf[r]] = covers[PlaylistOf[r]]
    BY <2>1, <2>4 DEF Sweep, FailedRows
  <2>6. QED
    BY <1>1, <2>1, <2>5, ClaimKept
<1>3. QED
  BY <1>1, <1>2 DEF ClaimInv

\* A crash leaves no run at work, and none is while the process is down.
LEMMA ProcessClaim ==
    ASSUME Steady, TypeOK, ClaimInv, Crash \/ Boot \/ Deploy \/ Drain
    PROVE  ClaimInv'
<1>1. CASE Crash
  <2>1. \A r \in Runs : ~Active(r)'
    BY <1>1 DEF Crash, Kill, Alive, Active, Working, ClaimInv
  <2>2. draining' = {}
    BY <1>1 DEF Crash, Kill, Retire, ClaimInv
  <2>3. QED
    BY <2>1, <2>2 DEF ClaimInv
<1>2. CASE Boot
  <2>1. \A r \in Runs : ~Active(r)
    BY <1>2 DEF Boot, ClaimInv, ClaimHeld
  <2>2. QED
    BY <1>2, <2>1 DEF Boot, ClaimInv, Active
<1>3. ~Deploy /\ ~Drain
  BY DEF Deploy, Drain, Steady, ClaimInv
<1>4. QED
  BY <1>1, <1>2, <1>3

LEMMA DeletionClaim ==
    ASSUME Steady, TypeOK, ClaimInv,
           (\E p \in Playlists : DeleteCover(p)) \/ (\E q \in Runs : DeleteRevision(q))
    PROVE  ClaimInv'
<1>1. CASE \E q \in Runs : DeleteRevision(q)
  <2>1. UNCHANGED <<covers, pc, ids, beats, process, holder>>
    BY <1>1 DEF DeleteRevision
  <2>2. QED
    BY <2>1 DEF ClaimInv, ClaimHeld, Active, InFlight, ids, beats, process
<1>2. CASE \E p \in Playlists : DeleteCover(p)
  <2>1. PICK p \in Playlists : DeleteCover(p)
    BY <1>2
  <2>2. /\ ~InFlight(p)
        /\ covers' = [covers EXCEPT ![p] = NoRow] /\ holder' = [holder EXCEPT ![p] = NoRun]
        /\ UNCHANGED <<pc, claim, coverId, beating, due, quiet, up, draining>>
    BY <2>1 DEF DeleteCover, Steady, ids, beats, process
  <2>3. ASSUME NEW r \in Runs, Active(r)' PROVE ClaimHeld(r)'
    <3>1. ClaimHeld(r) /\ PlaylistOf[r] \in Playlists
      BY <2>2, <2>3, TargetAssumption DEF ClaimInv, Active
    <3>2. PlaylistOf[r] # p
      BY <2>2, <3>1 DEF ClaimHeld
    <3>3. /\ covers'[PlaylistOf[r]] = covers[PlaylistOf[r]]
          /\ holder'[PlaylistOf[r]] = holder[PlaylistOf[r]]
      BY <2>2, <3>1, <3>2 DEF TypeOK
    <3>4. QED
      BY <2>2, <3>1, <3>3, ClaimKept
  <2>4. QED
    BY <2>2, <2>3 DEF ClaimInv
<1>3. QED
  BY <1>1, <1>2

LEMMA NextClaim ==
    ASSUME Steady, TypeOK, ClaimInv, [Next]_vars
    PROVE  ClaimInv'
<1>1. CASE \E r \in Runs : StartRun(r)
  BY <1>1, StartRunClaim
<1>2. CASE \E r \in Runs : RunStep(r)
  BY <1>2, RunStepClaim
<1>3. CASE \E r \in Runs : Beat(r)
  BY <1>3, BeatClaim
<1>4. CASE (\E p \in Playlists : DeleteCover(p)) \/ (\E q \in Runs : DeleteRevision(q))
  BY <1>4, DeletionClaim
<1>5. CASE Tick
  BY <1>5, TickClaim
<1>6. CASE Sweep
  BY <1>6, SweepClaim
<1>7. CASE Crash \/ Boot \/ Deploy \/ Drain
  BY <1>7, ProcessClaim
<1>8. CASE UNCHANGED vars
  BY <1>8 DEF vars, ClaimInv, ClaimHeld, Active, InFlight
<1>9. QED
  BY <1>1, <1>2, <1>3, <1>4, <1>5, <1>6, <1>7, <1>8 DEF Next

\* Every run at work holds its claim: its row is in flight, carries the id the claim
\* returned, was granted to nobody since, and is too young for the sweep.
THEOREM ClaimIsHeld == ASSUME Steady PROVE Spec => []ClaimInv
<1>1. TypeOK /\ ClaimInv /\ [Next]_vars => ClaimInv'
  BY NextClaim
<1>2. QED
  BY <1>1, InitClaim, TypeCorrect, PTL DEF Spec

\* No two pipelines are at work on one playlist, for any number of playlists,
\* requests and restarts.
THEOREM Exclusion == ASSUME Steady PROVE Spec => []OneRunPerPlaylist
BY ClaimIsHeld, ClaimIsExclusive, PTL

-----------------------------------------------------------------------------
(* What a step may not do to a finished row.                               *)

LEMMA RunStepKeepsFinishedRows ==
    ASSUME TypeOK, ClaimInv, NEW r \in Runs, RunStep(r)
    PROVE  FinishedRowsKept
<1>1. ASSUME NEW status, NEW o, pc[r] \in Working, SaveCover(r, status, o)
      PROVE  FinishedRowsKept
  <2>1. InFlight(PlaylistOf[r])
    BY <1>1 DEF ClaimInv, ClaimHeld, Active
  <2>2. covers[PlaylistOf[r]].status \notin TerminalStatus
    BY <2>1 DEF InFlight, InFlightStatus, TerminalStatus
  <2>3. \A p \in Playlists \ {PlaylistOf[r]} : covers'[p] = covers[p]
    BY <1>1, SaveCoverIsLocal
  <2>4. QED
    BY <2>2, <2>3 DEF FinishedRowsKept
<1>2. CASE SaveAnalyzing(r)
  BY <1>1, <1>2 DEF SaveAnalyzing, Working
<1>3. CASE SaveGenerating(r)
  BY <1>1, <1>3 DEF SaveGenerating, Working
<1>4. CASE SaveReady(r)
  BY <1>1, <1>4 DEF SaveReady, Working
<1>5. CASE FailCover(r)
  BY <1>1, <1>5 DEF FailCover, Working
<1>6. CASE RecordRevision(r) \/ StoreImage(r) \/ StopHeartbeat(r) \/ FailRevision(r) \/ Unwind(r)
  BY <1>6 DEF RecordRevision, StoreImage, StopHeartbeat, FailRevision, Unwind, tables,
              FinishedRowsKept
<1>7. QED
  BY <1>2, <1>3, <1>4, <1>5, <1>6 DEF RunStep

LEMMA NextKeepsFinishedRows ==
    ASSUME TypeOK, ClaimInv, Next
    PROVE  FinishedRowsKept
<1>1. CASE \E r \in Runs : StartRun(r)
  <2>1. PICK r \in Runs : StartRun(r)
    BY <1>1
  <2>2. NewRunOn(PlaylistOf[r])
    BY <2>1 DEF StartRun, Goto, NewRunOn, TypeOK
  <2>3. \A p \in Playlists \ {PlaylistOf[r]} : covers'[p] = covers[p]
    BY <2>1 DEF StartRun, TypeOK
  <2>4. QED
    BY <2>2, <2>3 DEF FinishedRowsKept
<1>2. CASE \E r \in Runs : RunStep(r)
  BY <1>2, RunStepKeepsFinishedRows
<1>3. CASE \E r \in Runs : Beat(r)
  <2>1. PICK r \in Runs : covers' = Touched(r) \/ covers' = covers
    BY <1>3 DEF Beat
  <2>2. ASSUME NEW p \in Playlists PROVE covers'[p].status = covers[p].status
    <3>1. covers[p] \in CoverRow
      BY DEF TypeOK
    <3>2. QED
      BY <2>1, <3>1 DEF Touched, CoverRow
  <2>3. QED
    BY <2>2 DEF FinishedRowsKept
<1>4. CASE \E q \in Runs : DeleteRevision(q)
  BY <1>4 DEF DeleteRevision, FinishedRowsKept
<1>5. CASE \E p \in Playlists : DeleteCover(p)
  BY <1>5 DEF DeleteCover, FinishedRowsKept, TypeOK
<1>6. CASE Tick
  BY <1>6 DEF Tick, FinishedRowsKept, InFlight, InFlightStatus, TerminalStatus
\* The sweep and the reaps fail rows in flight only.
<1>7. ASSUME NEW S \in SUBSET {p \in Playlists : InFlight(p)}, covers' = FailedRows(S)
      PROVE  FinishedRowsKept
  BY <1>7 DEF FailedRows, FinishedRowsKept, InFlight, InFlightStatus, TerminalStatus
<1>8. CASE Sweep
  <2>1. {p \in Playlists : Stale(p)} \in SUBSET {p \in Playlists : InFlight(p)}
    BY DEF Stale
  <2>2. QED
    BY <1>7, <1>8, <2>1 DEF Sweep
<1>9. CASE Boot \/ Deploy
  <2>1. Reap
    BY <1>9 DEF Boot, Deploy
  <2>2. CASE UNCHANGED covers
    BY <2>2 DEF FinishedRowsKept
  <2>3. QED
    BY <1>7, <2>1, <2>2 DEF Reap
<1>10. CASE Crash \/ Drain
  BY <1>10 DEF Crash, Drain, tables, FinishedRowsKept
<1>11. QED
  BY <1>1, <1>2, <1>3, <1>4, <1>5, <1>6, <1>8, <1>9, <1>10 DEF Next

\* A finished cover is left alone by everything but its user.
THEOREM FinishedIsStable == ASSUME Steady PROVE Spec => TerminalIsStable
<1>1. TypeOK /\ ClaimInv /\ [Next]_vars => [FinishedRowsKept]_vars
  BY NextKeepsFinishedRows
<1>2. QED
  BY <1>1, TypeCorrect, ClaimIsHeld, PTL DEF Spec, TerminalIsStable

-----------------------------------------------------------------------------
(***************************************************************************)
(* What the tables tell a reader of a cover: that "ready" shows the        *)
(* artwork of the run that made it ready, that the history reads the same  *)
(* by number and by completion, and that CoverGeneration implements        *)
(* CoverClaim.                                                             *)
(*                                                                         *)
(* All three rest on ClaimInv, which says that nobody else writes while a  *)
(* run is at work, and on GenerationInv, which says what the run has       *)
(* written by then and that a cover's history belongs to its row.          *)
(***************************************************************************)

Stored(q) == revisions[q].status # "none"
Showable(q) == q \in images /\ revisions[q].status = "ready"
Dropped(q) == \E x \in removed : x.id = q

\* Where a run has not written its revision yet.
Early == {"idle", "saveAnalyzing", "saveGenerating", "recordRevision"}

\* A row is named by a run for its playlist and was claimed last by one.
IdInv ==
    \A p \in Playlists : Exists(p) =>
        /\ covers[p].id \in Runs /\ PlaylistOf[covers[p].id] = p
        /\ holder[p] \in Runs /\ PlaylistOf[holder[p]] = p

\* The history of a playlist belongs to the row that is there, and so does what the
\* user deleted from it; bytes belong to a revision.
HistoryInv ==
    /\ \A q \in Runs : Stored(q) =>
        Exists(PlaylistOf[q]) /\ revisions[q].cover = covers[PlaylistOf[q]].id
    /\ \A x \in removed :
        /\ Exists(PlaylistOf[x.id]) /\ x.cover = covers[PlaylistOf[x.id]].id
        /\ revisions[x.id].status # "ready"
    /\ \A q \in images : Stored(q)

\* What a run has written by the time it stands somewhere.
WrittenBy(r) ==
    /\ pc[r] \in Early => ~Stored(r) /\ ~Dropped(r)
    /\ pc[r] = "storeImage" => revisions[r].status = "ready" \/ Dropped(r)
    /\ pc[r] \in {"stopHeartbeat", "saveReady"} => Showable(r) \/ Dropped(r)
WrittenInv == \A r \in Runs : WrittenBy(r)

\* The revision of a run at work is the newest of its playlist, by number and by time.
Before(q, r) ==
    revisions[q].number < revisions[r].number /\ revisions[q].stamp < revisions[r].stamp
NewestOf(r) ==
    \A q \in Runs \ {r} : Stored(q) /\ PlaylistOf[q] = PlaylistOf[r] => Before(q, r)
NewestInv == \A r \in Runs : Active(r) /\ Stored(r) => NewestOf(r)

GenerationInv ==
    /\ IdInv /\ HistoryInv /\ WrittenInv /\ NewestInv
    /\ ReadyCoverShowsItsRun /\ HistoryOrdered

-----------------------------------------------------------------------------
(* What follows from the invariant in one state. *)

LEMMA InitGeneration == Init => GenerationInv
<1> SUFFICES ASSUME Init
             PROVE  GenerationInv
  OBVIOUS
<1>1. /\ \A p \in Playlists : ~Exists(p) /\ covers[p].status = "none"
      /\ \A q \in Runs : ~Stored(q) /\ pc[q] = "idle"
      /\ images = {} /\ removed = {}
  BY DEF Init, Exists, Stored, NoRow, NoRevision
<1>2. IdInv /\ HistoryInv /\ WrittenInv /\ NewestInv
  BY <1>1 DEF IdInv, HistoryInv, WrittenInv, WrittenBy, Dropped, NewestInv, Active, Working
<1>3. ReadyCoverShowsItsRun /\ HistoryOrdered
  BY <1>1 DEF ReadyCoverShowsItsRun, HistoryOrdered, Stored
<1> QED
  BY <1>2, <1>3 DEF GenerationInv

\* The revisions of a stored cover are those of its playlist's runs.
LEMMA HistoryIsOfPlaylist ==
    ASSUME IdInv, HistoryInv, NEW p \in Playlists, Exists(p), NEW q \in Runs
    PROVE  q \in RevisionsOf(covers[p].id) <=> Stored(q) /\ PlaylistOf[q] = p
<1>1. PlaylistOf[q] \in Playlists
  BY TargetAssumption
<1>2. ASSUME Stored(q), revisions[q].cover = covers[p].id
      PROVE  PlaylistOf[q] = p
  BY <1>1, <1>2 DEF IdInv, HistoryInv
<1>3. ASSUME Stored(q), PlaylistOf[q] = p
      PROVE  revisions[q].cover = covers[p].id
  BY <1>3 DEF HistoryInv
<1> QED
  BY <1>2, <1>3 DEF RevisionsOf, Stored

\* A run at work owns the row of its playlist, and nobody else works on it.
LEMMA WorkOwnsRow ==
    ASSUME ClaimInv, NEW r \in Runs, Active(r)
    PROVE  /\ PlaylistOf[r] \in Playlists /\ Exists(PlaylistOf[r]) /\ InFlight(PlaylistOf[r])
           /\ covers[PlaylistOf[r]].id = claim[r] /\ holder[PlaylistOf[r]] = r
           /\ covers[PlaylistOf[r]].status \notin TerminalStatus
           /\ \A s \in Runs \ {r} : Active(s) => PlaylistOf[s] # PlaylistOf[r]
<1>1. ClaimHeld(r)
  BY DEF ClaimInv
<1>2. InFlight(PlaylistOf[r]) /\ covers[PlaylistOf[r]].status \notin TerminalStatus
  BY <1>1 DEF ClaimHeld, InFlight, InFlightStatus, TerminalStatus
<1>3. Exists(PlaylistOf[r])
  BY <1>2 DEF InFlight, InFlightStatus, Exists
<1>4. \A s \in Runs \ {r} : Active(s) => PlaylistOf[s] # PlaylistOf[r]
  BY ClaimIsExclusive DEF OneRunPerPlaylist
<1> QED
  BY <1>1, <1>2, <1>3, <1>4, TargetAssumption DEF ClaimHeld

-----------------------------------------------------------------------------
(* Steps that write no revision, no bytes and delete nothing. *)

\* What such a step does to a row: it stays the same row, or is new and named by its run.
RowKept(p) ==
    /\ Exists(p) => covers'[p].status # "none" /\ covers'[p].id = covers[p].id
    /\ covers'[p].status # "none" =>
        /\ Exists(p) \/ (covers'[p].id \in Runs /\ PlaylistOf[covers'[p].id] = p)
        /\ \/ Exists(p) /\ holder'[p] = holder[p]
           \/ holder'[p] \in Runs /\ PlaylistOf[holder'[p]] = p
    /\ covers'[p].status = "ready" =>
        /\ Exists(p) /\ holder'[p] = holder[p]
        /\ covers[p].status = "ready" \/ \E r \in Runs : pc[r] = "saveReady" /\ PlaylistOf[r] = p

\* And to the place of a run: it stays, gives up, or goes on.
PlaceKept(r) ==
    \/ pc'[r] = pc[r]
    \/ pc'[r] \in {"unwind", "ended"}
    \/ pc'[r] \in {"failRevision", "failCover"} /\ Active(r)
    \/ pc[r] \in Early /\ pc'[r] \in Early
    \/ pc[r] = "stopHeartbeat" /\ pc'[r] = "saveReady"

LEMMA QuietStep ==
    ASSUME TypeOK, ClaimInv, GenerationInv, UNCHANGED <<revisions, images, removed>>,
           \A p \in Playlists : RowKept(p), \A r \in Runs : PlaceKept(r)
    PROVE  GenerationInv'
<1> USE DEF GenerationInv
<1>1. /\ \A q \in Runs : (Stored(q)' <=> Stored(q)) /\ (Showable(q)' <=> Showable(q))
      /\ \A q : Dropped(q)' <=> Dropped(q)
      /\ \A q, r \in Runs : Before(q, r)' <=> Before(q, r)
  BY DEF Stored, Showable, Dropped, Before
<1>2. \A r \in Runs : PlaylistOf[r] \in Playlists
  BY TargetAssumption
<1>3. IdInv'
  BY DEF IdInv, RowKept, Exists
<1>4. HistoryInv'
  <2>1. \A x \in removed : x.id \in Runs
    BY DEF TypeOK
  <2> QED
    BY <1>1, <1>2, <2>1 DEF HistoryInv, RowKept, Exists, Stored
<1>5. WrittenInv'
  <2> SUFFICES ASSUME NEW r \in Runs
               PROVE  WrittenBy(r)'
    BY DEF WrittenInv
  <2>1. WrittenBy(r) /\ PlaceKept(r)
    BY DEF WrittenInv
  <2>2. /\ pc'[r] \in Early => ~Stored(r) /\ ~Dropped(r)
        /\ pc'[r] = "storeImage" => revisions[r].status = "ready" \/ Dropped(r)
        /\ pc'[r] \in {"stopHeartbeat", "saveReady"} => Showable(r) \/ Dropped(r)
    BY <2>1 DEF WrittenBy, PlaceKept, Early
  <2> QED
    BY <1>1, <2>2 DEF WrittenBy
<1>6. NewestInv'
  <2> SUFFICES ASSUME NEW r \in Runs, Active(r)', Stored(r)
               PROVE  NewestOf(r)'
    BY <1>1 DEF NewestInv
  <2>1. Active(r)
    <3>1. pc[r] \notin Early
      BY DEF WrittenInv, WrittenBy
    <3> QED
      BY <3>1 DEF PlaceKept, Active, Working, Early
  <2> QED
    BY <1>1, <2>1 DEF NewestInv, NewestOf
<1>7. ReadyCoverShowsItsRun'
  <2> SUFFICES ASSUME NEW p \in Playlists, covers'[p].status = "ready"
               PROVE  \/ Dropped(holder[p])
                      \/ /\ Showable(holder[p])
                         /\ \A q \in RevisionsOf(covers[p].id) :
                             revisions[q].status = "ready"
                                => revisions[q].stamp <= revisions[holder[p]].stamp
    BY DEF ReadyCoverShowsItsRun, RowKept, Exists, RevisionsOf, Dropped, Showable
  <2>1. Exists(p)
    BY DEF RowKept
  <2>2. CASE covers[p].status = "ready"
    BY <2>2 DEF ReadyCoverShowsItsRun, Dropped, Showable
  <2>3. ASSUME NEW r \in Runs, pc[r] = "saveReady", PlaylistOf[r] = p
        PROVE  \/ Dropped(holder[p])
               \/ /\ Showable(holder[p])
                  /\ \A q \in RevisionsOf(covers[p].id) :
                      revisions[q].status = "ready"
                         => revisions[q].stamp <= revisions[holder[p]].stamp
    <3>1. Active(r)
      BY <2>3 DEF Active, Working
    <3>2. holder[p] = r
      BY <2>3, <3>1, WorkOwnsRow
    <3>3. Showable(r) \/ Dropped(r)
      BY <2>3 DEF WrittenInv, WrittenBy
    <3>4. ASSUME Showable(r), NEW q \in RevisionsOf(covers[p].id)
          PROVE  revisions[q].stamp <= revisions[r].stamp
      <4>1. q \in Runs /\ Stored(q) /\ PlaylistOf[q] = p
        BY <2>1, <3>4, HistoryIsOfPlaylist DEF RevisionsOf
      <4>2. q = r \/ Before(q, r)
        BY <2>3, <3>1, <3>4, <4>1 DEF NewestInv, NewestOf, Showable, Stored
      <4>3. revisions[q].stamp \in Nat /\ revisions[r].stamp \in Nat
        BY <4>1 DEF TypeOK, RevisionRow
      <4> QED
        BY <4>2, <4>3 DEF Before
    <3> QED
      BY <3>2, <3>3, <3>4
  <2> QED
    BY <2>2, <2>3 DEF RowKept
<1>8. HistoryOrdered'
  BY DEF HistoryOrdered
<1> QED
  BY <1>3, <1>4, <1>5, <1>6, <1>7, <1>8

-----------------------------------------------------------------------------
(* Which steps are quiet. *)

LEMMA SaveCoverKeepsRows ==
    ASSUME TypeOK, ClaimInv, GenerationInv, NEW r \in Runs, Active(r), NEW o,
           NEW status \in InFlightStatus \cup TerminalStatus,
           status = "ready" => pc[r] = "saveReady", SaveCover(r, status, o), holder' = holder
    PROVE  \A p \in Playlists : RowKept(p)
<1>1. /\ Exists(PlaylistOf[r]) /\ PlaylistOf[r] \in Playlists
      /\ status # "none"
  BY WorkOwnsRow DEF InFlightStatus, TerminalStatus
<1>2. \/ covers' = covers
      \/ covers' = [covers EXCEPT ![PlaylistOf[r]] =
                        [id |-> covers[PlaylistOf[r]].id, status |-> status, age |-> 0]]
  BY <1>1 DEF SaveCover
<1>3. ASSUME NEW p \in Playlists
      PROVE  /\ covers'[p].id = covers[p].id
             /\ covers'[p].status = covers[p].status
                \/ (p = PlaylistOf[r] /\ covers'[p].status = status)
  BY <1>1, <1>2 DEF TypeOK
<1> QED
  BY <1>1, <1>3 DEF RowKept, GenerationInv, IdInv, Exists

LEMMA StartRunGeneration ==
    ASSUME TypeOK, ClaimInv, GenerationInv, NEW r \in Runs, StartRun(r)
    PROVE  GenerationInv'
<1> DEFINE p == PlaylistOf[r]
<1>1. p \in Playlists
  BY TargetAssumption
<1>2. /\ covers'[p].id = (IF Exists(p) THEN covers[p].id ELSE r)
      /\ covers'[p].status = "pending" /\ holder'[p] = r
      /\ \A q \in Playlists \ {p} : covers'[q] = covers[q] /\ holder'[q] = holder[q]
  BY <1>1 DEF StartRun, TypeOK
<1>3. \A q \in Playlists : RowKept(q)
  BY <1>2 DEF RowKept, GenerationInv, IdInv, Exists
<1>4. \A s \in Runs : PlaceKept(s)
  BY DEF StartRun, Goto, PlaceKept, Early, TypeOK
<1> QED
  BY <1>3, <1>4, QuietStep DEF StartRun

\* The steps of a run that write its row, or nothing.
LEMMA QuietRunStep ==
    ASSUME TypeOK, ClaimInv, GenerationInv, NEW r \in Runs,
           \/ SaveAnalyzing(r) \/ SaveGenerating(r) \/ StopHeartbeat(r) \/ SaveReady(r)
           \/ FailCover(r) \/ Unwind(r)
    PROVE  GenerationInv'
<1>1. ASSUME NEW o, NEW status \in InFlightStatus \cup TerminalStatus, NEW next, Active(r),
             status = "ready" => pc[r] = "saveReady", SaveCover(r, status, o), Goto(r, next),
             (pc[r] \in Early /\ next \in Early) \/ next \in {"failRevision", "failCover", "unwind"},
             UNCHANGED <<revisions, images, history>>
      PROVE  GenerationInv'
  <2>1. \A p \in Playlists : RowKept(p)
    BY <1>1, SaveCoverKeepsRows DEF history
  <2>2. \A s \in Runs : PlaceKept(s)
    BY <1>1 DEF Goto, PlaceKept, TypeOK
  <2> QED
    BY <1>1, <2>1, <2>2, QuietStep DEF history
<1>2. ASSUME NEW next, Goto(r, next), UNCHANGED <<tables, history>>,
             next = "ended" \/ (pc[r] = "stopHeartbeat" /\ next = "saveReady")
      PROVE  GenerationInv'
  <2>1. \A p \in Playlists : RowKept(p)
    BY <1>2 DEF RowKept, Exists, GenerationInv, IdInv, tables, history
  <2>2. \A s \in Runs : PlaceKept(s)
    BY <1>2 DEF Goto, PlaceKept, TypeOK
  <2> QED
    BY <1>2, <2>1, <2>2, QuietStep DEF tables, history
<1>3. CASE SaveAnalyzing(r)
  <2>1. PICK o \in WriteOutcomes :
            SaveCover(r, "analyzing", o) /\ Goto(r, Then(o, "saveGenerating"))
    BY <1>3 DEF SaveAnalyzing
  <2> QED
    BY <1>1, <1>3, <2>1 DEF SaveAnalyzing, Then, Early, Active, Working, InFlightStatus
<1>4. CASE SaveGenerating(r)
  <2>1. PICK o \in WriteOutcomes :
            SaveCover(r, "generating", o) /\ Goto(r, Then(o, "recordRevision"))
    BY <1>4 DEF SaveGenerating
  <2> QED
    BY <1>1, <1>4, <2>1 DEF SaveGenerating, Then, Early, Active, Working, InFlightStatus
<1>5. CASE SaveReady(r)
  <2>1. PICK o \in ReleaseOutcomes : SaveCover(r, "ready", o) /\ Goto(r, Then(o, "unwind"))
    BY <1>5 DEF SaveReady
  <2> QED
    BY <1>1, <1>5, <2>1 DEF SaveReady, Then, Active, Working, TerminalStatus
<1>6. CASE FailCover(r)
  <2>1. PICK o \in WriteOutcomes : SaveCover(r, "failed", o)
    BY <1>6 DEF FailCover
  <2> QED
    BY <1>1, <1>6, <2>1 DEF FailCover, Active, Working, TerminalStatus
<1>7. CASE StopHeartbeat(r)
  BY <1>2, <1>7 DEF StopHeartbeat
<1>8. CASE Unwind(r)
  BY <1>2, <1>8 DEF Unwind
<1> QED
  BY <1>3, <1>4, <1>5, <1>6, <1>7, <1>8

\* Rows in flight that are failed from outside.
LEMMA FailedRowsKept ==
    ASSUME TypeOK, GenerationInv, NEW S, covers' = FailedRows(S), holder' = holder,
           \A p \in Playlists \cap S : Exists(p)
    PROVE  \A p \in Playlists : RowKept(p)
<1>1. ASSUME NEW p \in Playlists
      PROVE  /\ covers'[p].id = covers[p].id
             /\ covers'[p].status = covers[p].status \/ (Exists(p) /\ covers'[p].status = "failed")
  <2>1. covers[p] \in CoverRow
    BY DEF TypeOK
  <2> QED
    BY <2>1 DEF FailedRows, CoverRow
<1> QED
  BY <1>1 DEF RowKept, Exists, GenerationInv, IdInv

LEMMA BackgroundGeneration ==
    ASSUME TypeOK, ClaimInv, GenerationInv,
           (\E r \in Runs : Beat(r)) \/ Tick \/ Sweep \/ Crash \/ Boot \/ Deploy \/ Drain
    PROVE  GenerationInv'
<1>1. UNCHANGED <<revisions, images, removed, holder>>
  BY DEF Beat, Tick, Sweep, Crash, Boot, Deploy, Drain, tables, history
<1>2. \A r \in Runs : PlaceKept(r)
  <2>1. UNCHANGED pc \/ \E S : Kill(S)
    BY DEF Beat, Tick, Sweep, Crash, Boot, Deploy, Drain
  <2> QED
    BY <2>1 DEF Kill, PlaceKept
<1>3. \A p \in Playlists : RowKept(p)
  <2>1. ASSUME \A p \in Playlists : covers'[p].id = covers[p].id /\ covers'[p].status = covers[p].status
        PROVE  \A p \in Playlists : RowKept(p)
    BY <1>1, <2>1 DEF RowKept, Exists, GenerationInv, IdInv
  <2>2. CASE \E r \in Runs : Beat(r)
    <3>1. PICK r \in Runs : covers' = Touched(r) \/ covers' = covers
      BY <2>2 DEF Beat
    <3>2. ASSUME NEW p \in Playlists
          PROVE  covers'[p].id = covers[p].id /\ covers'[p].status = covers[p].status
      <4>1. covers[p] \in CoverRow
        BY DEF TypeOK
      <4> QED
        BY <3>1, <4>1 DEF Touched, CoverRow
    <3> QED
      BY <2>1, <3>2
  <2>3. CASE Tick
    <3>1. ASSUME NEW p \in Playlists
          PROVE  covers'[p].id = covers[p].id /\ covers'[p].status = covers[p].status
      <4>1. covers[p] \in CoverRow
        BY DEF TypeOK
      <4> QED
        BY <2>3, <4>1 DEF Tick, CoverRow
    <3> QED
      BY <2>1, <3>1
  <2>4. \A p \in Playlists : InFlight(p) => Exists(p)
    BY DEF InFlight, InFlightStatus, Exists
  <2>5. CASE Sweep
    <3>1. covers' = FailedRows({p \in Playlists : Stale(p)})
      BY <2>5 DEF Sweep
    <3> QED
      BY <1>1, <2>4, <3>1, FailedRowsKept DEF Stale
  <2>6. CASE Boot \/ Deploy
    <3>1. covers' = FailedRows({p \in Playlists : InFlight(p)}) \/ covers' = covers
      BY <2>6 DEF Boot, Deploy, Reap
    <3> QED
      BY <1>1, <2>1, <2>4, <3>1, FailedRowsKept
  <2>7. CASE Crash \/ Drain
    BY <2>1, <2>7 DEF Crash, Drain, tables
  <2> QED
    BY <2>2, <2>3, <2>5, <2>6, <2>7
<1> QED
  BY <1>1, <1>2, <1>3, QuietStep

-----------------------------------------------------------------------------
(* Steps that write a revision or its bytes. *)

\* A revision that is inserted or rewritten is the newest of its playlist.
LEMMA WrittenIsNewest ==
    ASSUME TypeOK, ClaimInv, GenerationInv, NEW r \in Runs, Active(r),
           NEW status \in TerminalStatus, NEW o, o # "error", SaveRevision(r, status, o)
    PROVE  /\ revisions'[r].cover = claim[r] /\ revisions'[r].status = status
           /\ \A q \in Runs \ {r} : revisions'[q] = revisions[q]
           /\ NewestOf(r)'
<1>1. PICK n \in RevisionNumbers, t \in RevisionNumbers :
        /\ IF revisions[r].status = "none" THEN IsNextNumber(claim[r], n)
           ELSE n = revisions[r].number
        /\ IsLatest(r, t)
        /\ revisions' = [revisions EXCEPT ![r] =
                [cover |-> claim[r], status |-> status, number |-> n, stamp |-> t]]
  BY DEF SaveRevision
<1>2. /\ revisions'[r] = [cover |-> claim[r], status |-> status, number |-> n, stamp |-> t]
      /\ \A q \in Runs \ {r} : revisions'[q] = revisions[q]
  BY <1>1 DEF TypeOK
<1>3. ASSUME NEW q \in Runs \ {r}, Stored(q)', PlaylistOf[q] = PlaylistOf[r]
      PROVE  Before(q, r)'
  <2>1. Stored(q) /\ q \in RevisionsOf(claim[r]) \ {r}
    BY <1>2, <1>3, WorkOwnsRow, HistoryIsOfPlaylist DEF GenerationInv, Stored
  <2>2. revisions[q].stamp < t
    BY <1>1, <2>1 DEF IsLatest
  <2>3. revisions[q].number < n
    BY <1>1, <1>3, <2>1 DEF IsNextNumber, GenerationInv, NewestInv, NewestOf, Before, Stored
  <2> QED
    BY <1>2, <2>2, <2>3 DEF Before
<1> QED
  BY <1>2, <1>3 DEF NewestOf

LEMMA SaveRevisionGeneration ==
    ASSUME TypeOK, ClaimInv, GenerationInv, NEW r \in Runs, Active(r), NEW next \in Working, NEW o,
           NEW status \in TerminalStatus, SaveRevision(r, status, o), Goto(r, next),
           UNCHANGED <<covers, images, holder, removed>>,
           status = "ready" => pc[r] = "recordRevision",
           next \in {"failRevision", "failCover"} \/ (next = "storeImage" /\ status = "ready" /\ o = "ok")
    PROVE  GenerationInv'
<1> USE DEF GenerationInv
<1>0. \A s \in Runs \ {r} : pc'[s] = pc[s]
  BY DEF Goto
<1>1. CASE o = "error"
  <2>1. UNCHANGED revisions /\ next \in {"failRevision", "failCover"}
    BY <1>1 DEF SaveRevision
  <2>2. \A p \in Playlists : RowKept(p)
    BY DEF RowKept, Exists, IdInv
  <2>3. \A s \in Runs : PlaceKept(s)
    BY <1>0, <2>1 DEF PlaceKept, Goto, TypeOK
  <2> QED
    BY <2>1, <2>2, <2>3, QuietStep
<1>2. CASE o # "error"
  <2>1. /\ revisions'[r].cover = claim[r] /\ revisions'[r].status = status /\ status # "none"
        /\ \A q \in Runs \ {r} : revisions'[q] = revisions[q]
        /\ NewestOf(r)'
    BY <1>2, WrittenIsNewest DEF TerminalStatus
  <2>2. /\ PlaylistOf[r] \in Playlists /\ Exists(PlaylistOf[r])
        /\ covers[PlaylistOf[r]].id = claim[r] /\ holder[PlaylistOf[r]] = r
        /\ covers[PlaylistOf[r]].status \notin TerminalStatus
        /\ \A s \in Runs \ {r} : Active(s) => PlaylistOf[s] # PlaylistOf[r]
    BY WorkOwnsRow
  <2>3. pc'[r] = next
    BY DEF Goto, TypeOK
  <2>4. IdInv'
    BY DEF IdInv, Exists
  <2>5. status = "ready" => ~Dropped(r)
    BY DEF WrittenInv, WrittenBy, Early
  <2>6. HistoryInv'
    <3>1. \A x \in removed : revisions'[x.id].status # "ready"
      <4>1. \A x \in removed : x.id \in Runs
        BY DEF TypeOK
      <4> QED
        BY <2>1, <2>5, <4>1 DEF HistoryInv, Dropped
    <3>2. \A q \in Runs : revisions'[q].status # "none" =>
            Exists(PlaylistOf[q]) /\ revisions'[q].cover = covers[PlaylistOf[q]].id
      BY <2>1, <2>2 DEF HistoryInv, Stored
    <3>3. \A q \in images : revisions'[q].status # "none"
      BY <2>1 DEF HistoryInv, Stored, TypeOK
    <3> QED
      BY <3>1, <3>2, <3>3 DEF HistoryInv, Exists, Stored
  <2>7. WrittenInv'
    <3>1. WrittenBy(r)'
      BY <2>1, <2>3 DEF WrittenBy, Early
    <3>2. ASSUME NEW s \in Runs \ {r}
          PROVE  WrittenBy(s)'
      BY <1>0, <2>1 DEF WrittenInv, WrittenBy, Stored, Dropped, Showable
    <3> QED
      BY <3>1, <3>2 DEF WrittenInv
  <2>8. NewestInv'
    <3>1. ASSUME NEW s \in Runs \ {r}, Active(s)', Stored(s)'
          PROVE  NewestOf(s)'
      <4>1. Active(s) /\ Stored(s) /\ PlaylistOf[s] # PlaylistOf[r]
        BY <1>0, <2>1, <2>2, <3>1 DEF Active, Stored
      <4>2. NewestOf(s)
        BY <4>1 DEF NewestInv
      <4> QED
        BY <2>1, <4>1, <4>2 DEF NewestOf, Before, Stored
    <3> QED
      BY <2>1, <3>1 DEF NewestInv
  <2>9. ReadyCoverShowsItsRun'
    <3> SUFFICES ASSUME NEW p \in Playlists, covers[p].status = "ready"
                 PROVE  \/ Dropped(holder[p])
                        \/ /\ revisions'[holder[p]].status = "ready" /\ holder[p] \in images
                           /\ \A q \in RevisionsOf(covers[p].id)' :
                               revisions'[q].status = "ready"
                                  => revisions'[q].stamp <= revisions'[holder[p]].stamp
      BY DEF ReadyCoverShowsItsRun, RevisionsOf, Dropped
    <3>1. Exists(p) /\ PlaylistOf[r] # p
      BY <2>2 DEF Exists, TerminalStatus
    <3>2. holder[p] \in Runs \ {r} /\ covers[p].id # claim[r]
      BY <2>2, <3>1 DEF IdInv
    <3>3. RevisionsOf(covers[p].id)' \subseteq RevisionsOf(covers[p].id) \ {r}
      BY <2>1, <3>2 DEF RevisionsOf
    <3> QED
      BY <2>1, <3>2, <3>3 DEF ReadyCoverShowsItsRun, Dropped, RevisionsOf
  <2>10. HistoryOrdered'
    <3>0. \A q \in Runs : revisions[q].stamp \in Nat
      BY DEF TypeOK, RevisionRow
    <3>1. \A q \in Runs : revisions'[q].stamp \in Nat /\ revisions'[q].number \in Nat
      BY SaveRevisionType DEF RevisionRow
    <3>2. ASSUME NEW q \in Runs \ {r}, Stored(q)', revisions'[q].cover = claim[r]
          PROVE  Before(q, r)'
      <4>1. q \in RevisionsOf(covers[PlaylistOf[r]].id)
        BY <2>1, <2>2, <3>2 DEF RevisionsOf, Stored
      <4>2. PlaylistOf[q] = PlaylistOf[r]
        BY <2>2, <4>1, HistoryIsOfPlaylist
      <4> QED
        BY <2>1, <3>2, <4>2 DEF NewestOf
    <3>3. ASSUME NEW q \in Runs, NEW s \in Runs,
                 Stored(q)', Stored(s)', revisions'[q].cover = revisions'[s].cover,
                 revisions'[q].stamp < revisions'[s].stamp
          PROVE  revisions'[q].number < revisions'[s].number
      <4>1. CASE q # r /\ s # r
        BY <2>1, <3>3, <4>1 DEF HistoryOrdered, Stored
      <4>2. CASE s = r
        <5>1. q # r
          BY <3>1, <3>3, <4>2
        <5> QED
          BY <2>1, <3>2, <3>3, <4>2, <5>1 DEF Before
      <4>3. CASE q = r /\ s # r
        <5>1. Before(s, r)'
          BY <2>1, <3>2, <3>3, <4>3
        <5> QED
          BY <3>1, <3>3, <4>3, <5>1 DEF Before
      <4> QED
        BY <4>1, <4>2, <4>3
    <3> QED
      BY <3>3 DEF HistoryOrdered, Stored
  <2> QED
    BY <2>4, <2>6, <2>7, <2>8, <2>9, <2>10
<1> QED
  BY <1>1, <1>2

LEMMA StoreImageGeneration ==
    ASSUME TypeOK, ClaimInv, GenerationInv, NEW r \in Runs, StoreImage(r)
    PROVE  GenerationInv'
<1> USE DEF GenerationInv
<1>1. PICK o \in ImageOutcomes(r) :
        /\ images' = IF o = "error" THEN images ELSE images \cup {r}
        /\ Goto(r, Then(o, "stopHeartbeat"))
  BY DEF StoreImage
<1>2. /\ UNCHANGED <<covers, revisions, holder, removed>>
      /\ pc[r] = "storeImage" /\ pc'[r] = Then(o, "stopHeartbeat")
      /\ \A s \in Runs \ {r} : pc'[s] = pc[s]
      /\ images \subseteq images'
  BY <1>1 DEF StoreImage, history, Goto, TypeOK
<1>3. o # "error" => Stored(r)
  BY <1>1 DEF ImageOutcomes, Stored
<1>4. IdInv' /\ HistoryInv' /\ HistoryOrdered'
  <2>1. \A q \in images' : Stored(q)
    BY <1>1, <1>3 DEF HistoryInv
  <2> QED
    BY <1>2, <2>1 DEF IdInv, HistoryInv, HistoryOrdered, Exists, Stored
<1>5. WrittenInv'
  <2>1. WrittenBy(r)'
    <3>1. revisions[r].status = "ready" \/ Dropped(r)
      BY <1>2 DEF WrittenInv, WrittenBy
    <3>2. o = "ok" => r \in images'
      BY <1>1
    <3> QED
      BY <1>2, <3>1, <3>2 DEF WrittenBy, Early, Then, Showable, Dropped
  <2>2. ASSUME NEW s \in Runs \ {r}
        PROVE  WrittenBy(s)'
    BY <1>2 DEF WrittenInv, WrittenBy, Stored, Dropped, Showable
  <2> QED
    BY <2>1, <2>2 DEF WrittenInv
<1>6. NewestInv'
  <2>1. \A s \in Runs : Active(s)' => Active(s)
    BY <1>2 DEF Active, Working
  <2> QED
    BY <1>2, <2>1 DEF NewestInv, NewestOf, Before, Stored
<1>7. ReadyCoverShowsItsRun'
  BY <1>2 DEF ReadyCoverShowsItsRun, RevisionsOf
<1> QED
  BY <1>4, <1>5, <1>6, <1>7

\* The steps of a run, all together.
LEMMA RunStepGeneration ==
    ASSUME TypeOK, ClaimInv, GenerationInv, NEW r \in Runs, RunStep(r)
    PROVE  GenerationInv'
<1>1. CASE RecordRevision(r)
  <2>1. PICK o \in RevisionOutcomes(r) :
            SaveRevision(r, "ready", o) /\ Goto(r, Then(o, "storeImage"))
    BY <1>1 DEF RecordRevision
  <2>2. /\ Active(r) /\ "ready" \in TerminalStatus /\ Then(o, "storeImage") \in Working
        /\ Then(o, "storeImage") = "failRevision" \/ (Then(o, "storeImage") = "storeImage" /\ o = "ok")
    BY <1>1 DEF RecordRevision, Active, Working, TerminalStatus, Then
  <2>3. UNCHANGED <<covers, images, holder, removed>> /\ pc[r] = "recordRevision"
    BY <1>1 DEF RecordRevision
  <2> QED
    BY <2>1, <2>2, <2>3, SaveRevisionGeneration
<1>2. CASE FailRevision(r)
  <2>1. PICK o \in RevisionOutcomes(r) : SaveRevision(r, "failed", o)
    BY <1>2 DEF FailRevision
  <2>2. Active(r) /\ "failed" \in TerminalStatus /\ "failCover" \in Working /\ Goto(r, "failCover")
    BY <1>2 DEF FailRevision, Active, Working, TerminalStatus
  <2>3. UNCHANGED <<covers, images, holder, removed>>
    BY <1>2 DEF FailRevision
  <2> QED
    BY <2>1, <2>2, <2>3, SaveRevisionGeneration
<1>3. CASE StoreImage(r)
  BY <1>3, StoreImageGeneration
<1> QED
  BY <1>1, <1>2, <1>3, QuietRunStep DEF RunStep

-----------------------------------------------------------------------------
(* Deletions. *)

LEMMA DeleteRevisionGeneration ==
    ASSUME TypeOK, ClaimInv, GenerationInv, NEW d \in Runs, DeleteRevision(d)
    PROVE  GenerationInv'
<1> USE DEF GenerationInv
<1>1. /\ Stored(d) /\ UNCHANGED <<covers, pc, holder>>
      /\ revisions'[d].status = "none" /\ \A q \in Runs \ {d} : revisions'[q] = revisions[q]
      /\ images' = images \ {d}
      /\ removed' = removed \cup
           {[id |-> d, cover |-> revisions[d].cover, number |-> revisions[d].number]}
  BY DEF DeleteRevision, DropRevisions, Stored, NoRevision
<1>2. /\ \A q : Dropped(q)' <=> (Dropped(q) \/ q = d)
      /\ \A q \in Runs : Stored(q)' => q # d /\ Stored(q)
      /\ \A q \in Runs \ {d} : (Stored(q)' <=> Stored(q)) /\ (Showable(q)' <=> Showable(q))
  <2>1. ASSUME NEW q PROVE Dropped(q)' <=> (Dropped(q) \/ q = d)
    <3>1. PICK row : row.id = d /\ removed' = removed \cup {row}
      BY <1>1
    <3> QED
      BY <3>1 DEF Dropped
  <2>2. ASSUME NEW q \in Runs PROVE Stored(q)' => q # d /\ Stored(q)
    BY <1>1 DEF Stored
  <2>3. ASSUME NEW q \in Runs \ {d}
        PROVE  (Stored(q)' <=> Stored(q)) /\ (Showable(q)' <=> Showable(q))
    BY <1>1 DEF Stored, Showable
  <2> QED
    BY <2>1, <2>2, <2>3
<1>3. IdInv'
  BY <1>1 DEF IdInv, Exists
<1>4. HistoryInv'
  <2>1. \A x \in removed : x.id \in Runs
    BY DEF TypeOK
  <2>2. \A x \in removed' : /\ Exists(PlaylistOf[x.id]) /\ x.cover = covers[PlaylistOf[x.id]].id
                            /\ revisions'[x.id].status # "ready"
    BY <1>1, <2>1 DEF HistoryInv
  <2>3. \A q \in Runs : Stored(q)' =>
            Exists(PlaylistOf[q]) /\ revisions'[q].cover = covers[PlaylistOf[q]].id
    BY <1>1, <1>2 DEF HistoryInv
  <2>4. \A q \in images' : Stored(q)'
    BY <1>1, <1>2 DEF HistoryInv, TypeOK
  <2> QED
    BY <1>1, <2>2, <2>3, <2>4 DEF HistoryInv, Exists
<1>5. WrittenInv'
  BY <1>1, <1>2 DEF WrittenInv, WrittenBy
<1>6. NewestInv'
  BY <1>1, <1>2 DEF NewestInv, NewestOf, Before, Active
<1>7. ReadyCoverShowsItsRun'
  <2> SUFFICES ASSUME NEW p \in Playlists, covers[p].status = "ready"
               PROVE  \/ Dropped(holder[p])'
                      \/ /\ revisions'[holder[p]].status = "ready" /\ holder[p] \in images'
                         /\ \A q \in RevisionsOf(covers[p].id)' :
                             revisions'[q].status = "ready"
                                => revisions'[q].stamp <= revisions'[holder[p]].stamp
    BY <1>1 DEF ReadyCoverShowsItsRun, RevisionsOf, Dropped
  <2>1. holder[p] \in Runs
    BY DEF IdInv, Exists
  <2>2. RevisionsOf(covers[p].id)' \subseteq RevisionsOf(covers[p].id) \ {d}
    BY <1>1 DEF RevisionsOf
  <2> QED
    BY <1>1, <1>2, <2>1, <2>2, ZenonT(40) DEF ReadyCoverShowsItsRun, Dropped, RevisionsOf
<1>8. HistoryOrdered'
  BY <1>1, <1>2 DEF HistoryOrdered, Stored
<1> QED
  BY <1>3, <1>4, <1>5, <1>6, <1>7, <1>8

\* What a deletion of a cover takes with it: all that belongs to its playlist's runs.
LEMMA DeleteCoverTakes ==
    ASSUME Steady, TypeOK, ClaimInv, GenerationInv, NEW p \in Playlists, DeleteCover(p)
    PROVE  /\ Exists(p) /\ ~InFlight(p) /\ covers'[p] = NoRow /\ holder'[p] = NoRun
           /\ \A o \in Playlists \ {p} : covers'[o] = covers[o] /\ holder'[o] = holder[o]
           /\ \A q \in Runs : PlaylistOf[q] = p =>
                /\ ~Stored(q)' /\ ~Dropped(q)' /\ q \notin images' /\ ~Active(q)
           /\ \A q \in Runs : PlaylistOf[q] # p =>
                /\ revisions'[q] = revisions[q] /\ (q \in images' <=> q \in images)
                /\ Dropped(q)' <=> Dropped(q)
           /\ removed' \subseteq removed /\ pc' = pc
<1> USE DEF GenerationInv
<1>1. /\ Exists(p) /\ ~InFlight(p)
      /\ covers' = [covers EXCEPT ![p] = NoRow] /\ holder' = [holder EXCEPT ![p] = NoRun]
      /\ DropRevisions(RevisionsOf(covers[p].id))
      /\ removed' = {x \in removed : x.cover # covers[p].id} /\ pc' = pc
  BY DEF DeleteCover, Steady
<1>2. ASSUME NEW q \in Runs
      PROVE  q \in RevisionsOf(covers[p].id) <=> Stored(q) /\ PlaylistOf[q] = p
  BY <1>1, HistoryIsOfPlaylist
<1>3. ASSUME NEW x \in removed
      PROVE  x.cover = covers[p].id <=> PlaylistOf[x.id] = p
  <2>1. PlaylistOf[x.id] \in Playlists
    BY TargetAssumption DEF TypeOK
  <2> QED
    BY <1>1, <2>1 DEF HistoryInv, IdInv
<1>4. ASSUME NEW q \in Runs, PlaylistOf[q] = p
      PROVE  ~Stored(q)' /\ ~Dropped(q)' /\ q \notin images' /\ ~Active(q)
  <2>1. ~Stored(q)'
    BY <1>1, <1>2, <1>4 DEF DropRevisions, Stored, NoRevision
  <2>2. q \notin images'
    BY <1>1, <1>2, <1>4 DEF DropRevisions, HistoryInv
  <2>3. ~Dropped(q)'
    BY <1>1, <1>3, <1>4 DEF Dropped
  <2>4. ~Active(q)
    BY <1>1, <1>4, WorkOwnsRow
  <2> QED
    BY <2>1, <2>2, <2>3, <2>4
<1>5. ASSUME NEW q \in Runs, PlaylistOf[q] # p
      PROVE  /\ revisions'[q] = revisions[q] /\ (q \in images' <=> q \in images)
             /\ Dropped(q)' <=> Dropped(q)
  <2>1. revisions'[q] = revisions[q] /\ (q \in images' <=> q \in images)
    BY <1>1, <1>2, <1>5 DEF DropRevisions
  <2>2. Dropped(q)' <=> Dropped(q)
    BY <1>1, <1>3, <1>5 DEF Dropped
  <2> QED
    BY <2>1, <2>2
<1> QED
  BY <1>1, <1>4, <1>5 DEF TypeOK

LEMMA DeleteCoverGeneration ==
    ASSUME Steady, TypeOK, ClaimInv, GenerationInv, NEW p \in Playlists, DeleteCover(p)
    PROVE  GenerationInv'
<1> USE DEF GenerationInv
<1>1. /\ Exists(p) /\ ~Exists(p)'
      /\ \A o \in Playlists \ {p} : covers'[o] = covers[o] /\ holder'[o] = holder[o]
      /\ \A q \in Runs : PlaylistOf[q] = p =>
            /\ ~Stored(q)' /\ ~Dropped(q)' /\ q \notin images' /\ ~Active(q)
      /\ \A q \in Runs : PlaylistOf[q] # p =>
            /\ revisions'[q] = revisions[q] /\ (q \in images' <=> q \in images)
            /\ Dropped(q)' <=> Dropped(q)
      /\ removed' \subseteq removed /\ pc' = pc
  BY DeleteCoverTakes DEF Exists, NoRow
<1>2. \A q \in Runs : PlaylistOf[q] \in Playlists
  BY TargetAssumption
<1>3. \A x \in removed : x.id \in Runs
  BY DEF TypeOK
<1>4. \A q \in Runs : Stored(q)' => PlaylistOf[q] # p /\ Stored(q)
  BY <1>1 DEF Stored
<1>5. IdInv'
  BY <1>1 DEF IdInv, Exists
<1>6. HistoryInv'
  <2>1. \A q \in Runs : Stored(q)' =>
            Exists(PlaylistOf[q])' /\ revisions'[q].cover = covers'[PlaylistOf[q]].id
    BY <1>1, <1>2, <1>4 DEF HistoryInv, Exists
  <2>2. ASSUME NEW x \in removed'
        PROVE  /\ Exists(PlaylistOf[x.id])' /\ x.cover = covers'[PlaylistOf[x.id]].id
               /\ revisions'[x.id].status # "ready"
    <3>1. x \in removed /\ x.id \in Runs
      BY <1>1, <1>3, <2>2
    <3>2. PlaylistOf[x.id] # p
      BY <1>1, <2>2, <3>1 DEF Dropped
    <3> QED
      BY <1>1, <1>2, <3>1, <3>2 DEF HistoryInv, Exists
  <2>3. \A q \in images' : Stored(q)'
    <3>1. images' \subseteq images /\ images \subseteq Runs
      BY DEF DeleteCover, DropRevisions, TypeOK
    <3> QED
      BY <1>1, <3>1 DEF HistoryInv, Stored
  <2> QED
    BY <2>1, <2>2, <2>3 DEF HistoryInv
<1>7. WrittenInv'
  <2> SUFFICES ASSUME NEW r \in Runs
               PROVE  WrittenBy(r)'
    BY DEF WrittenInv
  <2>1. CASE PlaylistOf[r] = p
    BY <1>1, <2>1 DEF WrittenBy, Active, Working
  <2>2. CASE PlaylistOf[r] # p
    BY <1>1, <2>2 DEF WrittenInv, WrittenBy, Stored, Showable
  <2> QED
    BY <2>1, <2>2
<1>8. NewestInv'
  <2> SUFFICES ASSUME NEW r \in Runs, Active(r)', Stored(r)', NEW q \in Runs \ {r},
                      Stored(q)', PlaylistOf[q] = PlaylistOf[r]
               PROVE  Before(q, r)'
    BY DEF NewestInv, NewestOf
  <2>1. Active(r) /\ PlaylistOf[r] # p /\ Stored(r) /\ Stored(q)
    BY <1>1, <1>4 DEF Active
  <2>2. Before(q, r)
    BY <2>1 DEF NewestInv, NewestOf
  <2> QED
    BY <1>1, <2>1, <2>2 DEF Before
<1>9. ReadyCoverShowsItsRun'
  <2> SUFFICES ASSUME NEW o \in Playlists, covers'[o].status = "ready"
               PROVE  \/ Dropped(holder[o])'
                      \/ /\ revisions'[holder[o]].status = "ready" /\ holder[o] \in images'
                         /\ \A q \in RevisionsOf(covers[o].id)' :
                             revisions'[q].status = "ready"
                                => revisions'[q].stamp <= revisions'[holder[o]].stamp
    BY <1>1 DEF ReadyCoverShowsItsRun, RevisionsOf, Dropped, Exists
  <2>1. o # p /\ covers[o].status = "ready" /\ Exists(o)
    BY <1>1 DEF Exists
  <2>2. holder[o] \in Runs /\ PlaylistOf[holder[o]] # p
    BY <2>1 DEF IdInv
  <2>3. ASSUME NEW q \in RevisionsOf(covers[o].id)'
        PROVE  q \in RevisionsOf(covers[o].id) /\ revisions'[q] = revisions[q]
    <3>1. q \in Runs /\ Stored(q)' /\ revisions'[q].cover = covers'[o].id
      BY <1>1, <2>1, <2>3 DEF RevisionsOf, Stored
    <3> QED
      BY <1>1, <1>4, <2>1, <3>1 DEF RevisionsOf, Stored
  <2> QED
    BY <1>1, <2>1, <2>2, <2>3 DEF ReadyCoverShowsItsRun, Dropped
<1>10. HistoryOrdered'
  BY <1>1, <1>4 DEF HistoryOrdered, Stored
<1> QED
  BY <1>5, <1>6, <1>7, <1>8, <1>9, <1>10

-----------------------------------------------------------------------------
LEMMA NextGeneration ==
    ASSUME Steady, TypeOK, ClaimInv, GenerationInv, [Next]_vars
    PROVE  GenerationInv'
<1>1. CASE UNCHANGED vars
  <2>1. (\A p \in Playlists : RowKept(p)) /\ \A r \in Runs : PlaceKept(r)
    BY <1>1 DEF vars, RowKept, PlaceKept, Exists, GenerationInv, IdInv
  <2> QED
    BY <1>1, <2>1, QuietStep DEF vars
<1> QED
  BY <1>1, StartRunGeneration, RunStepGeneration, BackgroundGeneration, DeleteRevisionGeneration,
     DeleteCoverGeneration DEF Next

LEMMA GenerationHolds == ASSUME Steady PROVE Spec => []GenerationInv
<1>1. TypeOK /\ ClaimInv /\ GenerationInv /\ [Next]_vars => GenerationInv'
  BY NextGeneration
<1> QED
  BY <1>1, InitGeneration, TypeCorrect, ClaimIsHeld, PTL DEF Spec

\* Whoever reads a cover as ready finds the artwork of the run that made it ready, the
\* newest of its history, unless the user deleted it.
THEOREM ReadyIsTrue == ASSUME Steady PROVE Spec => []ReadyCoverShowsItsRun
<1>1. GenerationInv => ReadyCoverShowsItsRun
  BY DEF GenerationInv
<1> QED
  BY <1>1, GenerationHolds, PTL

\* The history reads the same by number and by completion.
THEOREM HistoryIsOrdered == ASSUME Steady PROVE Spec => []HistoryOrdered
<1>1. GenerationInv => HistoryOrdered
  BY DEF GenerationInv
<1> QED
  BY <1>1, GenerationHolds, PTL
-----------------------------------------------------------------------------
(* The contract.  These are the values CoverGeneration gives CoverClaim's variables. *)

ShownAs(p) == IF InFlight(p) THEN "running" ELSE covers[p].status
Shows == [p \in Playlists |-> ShownAs(p)]
Art == {r \in images : revisions[r].status = "ready"}
Deleted == {x.id : x \in removed}
Requested == {r \in Runs : pc[r] # "idle"}

ContractKept == [Contract!ClaimNext]_(Contract!claimVars)

\* A step of which a reader sees nothing.
LEMMA ContractStutters ==
    ASSUME UNCHANGED <<Shows, holder, Art, Deleted, Requested>>
    PROVE  ContractKept
BY DEF ContractKept, Contract!claimVars, Shows, ShownAs, Art, Deleted, Requested

LEMMA ShownRows ==
    ASSUME \A p \in Playlists : covers'[p].status = covers[p].status
    PROVE  Shows' = Shows
BY DEF Shows, ShownAs, InFlight

LEMMA InitContract == Init => Contract!ClaimInit
<1> SUFFICES ASSUME Init
             PROVE  Contract!ClaimInit
  OBVIOUS
<1>1. \A p \in Playlists : ~InFlight(p) /\ covers[p].status = "none"
  BY DEF Init, NoRow, InFlight, InFlightStatus
<1>2. images = {} /\ removed = {} /\ \A r \in Runs : pc[r] = "idle"
  BY DEF Init
<1> QED
  BY <1>1, <1>2 DEF Init, Contract!ClaimInit

LEMMA StartRunClaims ==
    ASSUME TypeOK, NEW r \in Runs, StartRun(r)
    PROVE  Contract!Claim(r)
<1> DEFINE p == PlaylistOf[r]
<1>1. p \in Playlists
  BY TargetAssumption
<1>2. /\ pc[r] = "idle" /\ ~InFlight(p) /\ UNCHANGED <<revisions, images, removed>>
      /\ holder' = [holder EXCEPT ![p] = r]
      /\ covers'[p].status = "pending" /\ \A o \in Playlists \ {p} : covers'[o] = covers[o]
  BY <1>1 DEF StartRun, ClaimFree, TypeOK
<1>3. pc'[r] # "idle" /\ \A s \in Runs \ {r} : pc'[s] = pc[s]
  BY DEF StartRun, Goto, TypeOK
<1>4. Requested' = Requested \cup {r} /\ r \notin Requested
  BY <1>2, <1>3 DEF Requested
<1>5. Shows' = [Shows EXCEPT ![p] = "running"]
  BY <1>1, <1>2 DEF Shows, ShownAs, InFlight, InFlightStatus
<1>6. Shows[p] # "running"
  <2>1. covers[p].status # "running"
    BY <1>1 DEF TypeOK, CoverRow, InFlightStatus, TerminalStatus
  <2> QED
    BY <1>1, <1>2, <2>1 DEF Shows, ShownAs
<1>7. Art' = Art /\ Deleted' = Deleted
  BY <1>2 DEF Art, Deleted
<1> QED
  BY <1>2, <1>4, <1>5, <1>6, <1>7 DEF Contract!Claim, Shows, ShownAs, Art, Deleted, Requested

\* A run at work holds the claim of the contract.
LEMMA WorkHolds ==
    ASSUME ClaimInv, NEW r \in Runs, Active(r)
    PROVE  Contract!Holds(r)
BY WorkOwnsRow DEF Contract!Holds

\* No step of a run takes it back to where it was not requested.
LEMMA RequestedKept ==
    ASSUME TypeOK, NEW r \in Runs, pc[r] # "idle", NEW place, place # "idle", Goto(r, place)
    PROVE  Requested' = Requested
BY DEF TypeOK, Goto, Requested

\* Save moves what the cover shows only when it ends the run, and "ready" only with
\* the artwork in place.
LEMMA SaveCoverFinishes ==
    ASSUME TypeOK, ClaimInv, NEW r \in Runs, Active(r), NEW o,
           NEW status \in InFlightStatus \cup TerminalStatus, SaveCover(r, status, o),
           status = "ready" => Showable(r) \/ Dropped(r),
           UNCHANGED <<revisions, images, holder, removed, Requested>>
    PROVE  ContractKept
<1> DEFINE p == PlaylistOf[r]
<1>1. p \in Playlists /\ InFlight(p) /\ Contract!Holds(r)
  BY WorkOwnsRow, WorkHolds
<1>2. Art' = Art /\ Deleted' = Deleted
  BY DEF Art, Deleted
<1>3. CASE o = "error"
  BY <1>2, <1>3, ShownRows, ContractStutters DEF SaveCover
<1>4. CASE o # "error"
  <2>1. covers'[p].status = status /\ \A q \in Playlists \ {p} : covers'[q] = covers[q]
    BY <1>1, <1>4 DEF SaveCover, TypeOK
  <2>2. CASE status \in InFlightStatus
    <3>1. Shows' = Shows
      BY <1>1, <2>1, <2>2 DEF Shows, ShownAs, InFlight
    <3> QED
      BY <1>2, <3>1, ContractStutters
  <2>3. CASE status \in TerminalStatus
    <3>1. Shows' = [Shows EXCEPT ![p] = status]
      BY <1>1, <2>1, <2>3 DEF Shows, ShownAs, InFlight, InFlightStatus, TerminalStatus
    <3>2. status = "ready" => r \in Art \cup Deleted
      BY DEF Showable, Dropped, Art, Deleted
    <3>3. Contract!Finish(r, status)
      BY <1>1, <1>2, <3>1, <3>2
      DEF Contract!Finish, Shows, ShownAs, Art, Deleted, Requested
    <3> QED
      BY <2>3, <3>3 DEF ContractKept, Contract!ClaimNext, Contract!Outcomes, TerminalStatus
  <2> QED
    BY <2>2, <2>3
<1> QED
  BY <1>3, <1>4

\* A revision written before its bytes shows nothing, and one rewritten to "failed"
\* takes its artwork back.
LEMMA SaveRevisionContract ==
    ASSUME TypeOK, ClaimInv, GenerationInv, NEW r \in Runs, RecordRevision(r) \/ FailRevision(r),
           Requested' = Requested
    PROVE  ContractKept
<1>1. UNCHANGED <<covers, images, holder, removed>> /\ Active(r)
  BY DEF RecordRevision, FailRevision, Active, Working
<1>2. Shows' = Shows /\ Deleted' = Deleted
  BY <1>1 DEF Shows, ShownAs, InFlight, Deleted
<1>3. Art' = Art => ContractKept
  BY <1>1, <1>2, ContractStutters
<1>4. CASE RecordRevision(r)
  <2>1. r \notin images
    BY <1>4 DEF RecordRevision, GenerationInv, WrittenInv, WrittenBy, Early, HistoryInv
  <2>2. \A q \in Runs \ {r} : revisions'[q] = revisions[q]
    BY <1>4 DEF RecordRevision, SaveRevision, TypeOK
  <2>3. Art' = Art
    BY <1>1, <2>1, <2>2 DEF Art, TypeOK
  <2> QED
    BY <1>3, <2>3
<1>5. CASE FailRevision(r)
  <2>1. PICK o \in RevisionOutcomes(r) : SaveRevision(r, "failed", o)
    BY <1>5 DEF FailRevision
  <2>2. CASE o = "error"
    BY <1>1, <1>3, <2>1, <2>2 DEF SaveRevision, Art
  <2>3. CASE o # "error"
    <3>1. revisions'[r].status = "failed" /\ \A q \in Runs \ {r} : revisions'[q] = revisions[q]
      BY <1>1, <2>1, <2>3, WrittenIsNewest DEF TerminalStatus
    <3>2. Art' = Art \ {r}
      BY <1>1, <3>1 DEF Art, TypeOK
    <3>3. Contract!Withdraw(r)
      BY <1>1, <1>2, <3>2, WorkHolds
      DEF Contract!Withdraw, Shows, ShownAs, Art, Deleted, Requested
    <3> QED
      BY <3>3 DEF ContractKept, Contract!ClaimNext
  <2> QED
    BY <2>2, <2>3
<1> QED
  BY <1>4, <1>5

\* Bytes stored for a ready revision are what publishes the artwork.
LEMMA StoreImageContract ==
    ASSUME TypeOK, ClaimInv, GenerationInv, NEW r \in Runs, StoreImage(r),
           Requested' = Requested
    PROVE  ContractKept
<1>1. UNCHANGED <<covers, revisions, holder, removed>> /\ Active(r)
      /\ images' \in {images, images \cup {r}}
  BY DEF StoreImage, Active, Working, history
<1>2. Shows' = Shows /\ Deleted' = Deleted
  BY <1>1 DEF Shows, ShownAs, InFlight, Deleted
<1>3. CASE revisions[r].status = "ready" /\ images' = images \cup {r}
  <2>1. r \notin Deleted
    BY <1>3 DEF GenerationInv, HistoryInv, Deleted
  <2>2. Art' = Art \cup {r}
    BY <1>1, <1>3 DEF Art
  <2>3. Contract!Publish(r)
    BY <1>1, <1>2, <2>1, <2>2, WorkHolds
    DEF Contract!Publish, Shows, ShownAs, Art, Deleted, Requested
  <2> QED
    BY <2>3 DEF ContractKept, Contract!ClaimNext
<1>4. CASE revisions[r].status # "ready" \/ images' = images
  <2>1. Art' = Art
    BY <1>1, <1>4 DEF Art
  <2> QED
    BY <1>1, <1>2, <2>1, ContractStutters
<1> QED
  BY <1>1, <1>3, <1>4

LEMMA RunStepContract ==
    ASSUME TypeOK, ClaimInv, GenerationInv, NEW r \in Runs, RunStep(r)
    PROVE  ContractKept
<1>1. Requested' = Requested
  <2>1. CASE SaveAnalyzing(r) \/ SaveGenerating(r) \/ RecordRevision(r) \/ StoreImage(r) \/ SaveReady(r)
    <3>1. /\ pc[r] # "idle"
          /\ \E o : \E next \in Places \ {"idle"} : Goto(r, Then(o, next))
      BY <2>1 DEF SaveAnalyzing, SaveGenerating, RecordRevision, StoreImage, SaveReady, Places, Working
    <3> QED
      BY <3>1, RequestedKept DEF Then
  <2>2. CASE StopHeartbeat(r) \/ FailRevision(r) \/ FailCover(r) \/ Unwind(r)
    <3>1. pc[r] # "idle" /\ \E place \in {"saveReady", "failCover", "unwind", "ended"} : Goto(r, place)
      BY <2>2 DEF StopHeartbeat, FailRevision, FailCover, Unwind
    <3> QED
      BY <3>1, RequestedKept
  <2> QED
    BY <2>1, <2>2 DEF RunStep
<1>2. CASE SaveAnalyzing(r) \/ SaveGenerating(r) \/ SaveReady(r) \/ FailCover(r)
  <2>1. \E o : \E status \in InFlightStatus \cup TerminalStatus :
          SaveCover(r, status, o) /\ (status = "ready" => pc[r] = "saveReady")
    BY <1>2 DEF SaveAnalyzing, SaveGenerating, SaveReady, FailCover, InFlightStatus, TerminalStatus
  <2>2. Active(r) /\ UNCHANGED <<revisions, images, holder, removed>>
    BY <1>2 DEF SaveAnalyzing, SaveGenerating, SaveReady, FailCover, Active, Working, history
  <2>3. pc[r] = "saveReady" => Showable(r) \/ Dropped(r)
    BY DEF GenerationInv, WrittenInv, WrittenBy
  <2> QED
    BY <1>1, <2>1, <2>2, <2>3, SaveCoverFinishes
<1>3. CASE RecordRevision(r) \/ FailRevision(r)
  BY <1>1, <1>3, SaveRevisionContract
<1>4. CASE StoreImage(r)
  BY <1>1, <1>4, StoreImageContract
<1>5. CASE StopHeartbeat(r) \/ Unwind(r)
  <2>1. UNCHANGED <<covers, revisions, images, holder, removed>>
    BY <1>5 DEF StopHeartbeat, Unwind, tables, history
  <2>2. UNCHANGED <<Shows, Art, Deleted>>
    BY <2>1 DEF Shows, ShownAs, InFlight, Art, Deleted
  <2> QED
    BY <1>1, <2>1, <2>2, ContractStutters
<1> QED
  BY <1>2, <1>3, <1>4, <1>5 DEF RunStep

\* Whoever fails rows in flight revokes their claims, all at once.
LEMMA FailedRowsRevoke ==
    ASSUME TypeOK, NEW S \in SUBSET Playlists, \A p \in S : InFlight(p), covers' = FailedRows(S),
           UNCHANGED <<revisions, images, holder, removed, Requested>>
    PROVE  ContractKept
<1>1. Art' = Art /\ Deleted' = Deleted
  BY DEF Art, Deleted
<1>2. CASE S = {}
  <2>1. \A p \in Playlists : covers'[p].status = covers[p].status
    BY <1>2 DEF FailedRows
  <2> QED
    BY <1>1, <2>1, ShownRows, ContractStutters
<1>3. CASE S # {}
  <2>1. ASSUME NEW p \in Playlists
        PROVE  ShownAs(p)' = IF p \in S THEN "failed" ELSE Shows[p]
    <3>1. covers'[p].status = IF p \in S THEN "failed" ELSE covers[p].status
      BY DEF FailedRows, TypeOK, CoverRow
    <3> QED
      BY <3>1 DEF Shows, ShownAs, InFlight, InFlightStatus
  <2>2. Shows' = [p \in Playlists |-> IF p \in S THEN "failed" ELSE Shows[p]]
    BY <2>1 DEF Shows
  <2>3. \A p \in S : Shows[p] = "running"
    BY DEF Shows, ShownAs
  <2>4. Contract!Revoke(S)
    BY <1>1, <1>3, <2>2, <2>3 DEF Contract!Revoke, Shows, ShownAs, Art, Deleted, Requested
  <2> QED
    BY <2>4 DEF ContractKept, Contract!ClaimNext
<1> QED
  BY <1>2, <1>3

LEMMA KillKeepsRequested ==
    ASSUME TypeOK, NEW S, \A r \in S : r \in Runs => pc[r] # "idle", Kill(S)
    PROVE  Requested' = Requested
BY DEF TypeOK, Kill, Requested

\* Beats and ticks are not seen, a crash is not seen until the reap that follows it,
\* and the sweep and that reap revoke.
LEMMA BackgroundContract ==
    ASSUME Steady, TypeOK, ClaimInv,
           (\E r \in Runs : Beat(r)) \/ Tick \/ Sweep \/ Crash \/ Boot \/ Deploy \/ Drain
    PROVE  ContractKept
<1>1. UNCHANGED <<revisions, images, holder, removed>>
  BY DEF Beat, Tick, Sweep, Crash, Boot, Deploy, Drain, tables, history
<1>2. Art' = Art /\ Deleted' = Deleted
  BY <1>1 DEF Art, Deleted
<1>3. ASSUME \A p \in Playlists : covers'[p].status = covers[p].status, Requested' = Requested
      PROVE  ContractKept
  BY <1>1, <1>2, <1>3, ShownRows, ContractStutters
<1>4. CASE (\E r \in Runs : Beat(r)) \/ Tick
  <2>1. \A p \in Playlists : covers'[p].status = covers[p].status
    BY <1>4 DEF Beat, Tick, Touched, TypeOK, CoverRow
  <2> QED
    BY <1>3, <1>4, <2>1 DEF Beat, Tick, Requested
<1>5. CASE Crash
  <2>1. Requested' = Requested
    BY <1>5, KillKeepsRequested DEF Crash, Alive, Active, Working
  <2> QED
    BY <1>3, <1>5, <2>1 DEF Crash, tables
<1>6. CASE Sweep
  <2>1. covers' = FailedRows({p \in Playlists : Stale(p)}) /\ pc' = pc
    BY <1>6 DEF Sweep
  <2> QED
    BY <1>1, <2>1, FailedRowsRevoke DEF Stale, Requested
<1>7. CASE Boot
  <2>1. Reap /\ pc' = pc
    BY <1>7 DEF Boot
  <2>2. CASE covers' = covers
    BY <1>3, <2>1, <2>2 DEF Requested
  <2>3. CASE covers' = FailedRows({p \in Playlists : InFlight(p)})
    BY <1>1, <2>1, <2>3, FailedRowsRevoke DEF Requested
  <2> QED
    BY <2>1, <2>2, <2>3 DEF Reap
<1>8. ~Deploy /\ ~Drain
  BY DEF Steady, ClaimInv, Deploy, Drain
<1> QED
  BY <1>4, <1>5, <1>6, <1>7, <1>8

LEMMA DeleteRevisionContract ==
    ASSUME TypeOK, NEW d \in Runs, DeleteRevision(d)
    PROVE  ContractKept
<1>1. /\ UNCHANGED <<covers, pc, holder>> /\ images' = images \ {d}
      /\ \A q \in Runs \ {d} : revisions'[q] = revisions[q]
  BY DEF DeleteRevision, DropRevisions
<1>2. PICK row : row.id = d /\ removed' = removed \cup {row}
  BY DEF DeleteRevision
<1>3. Deleted' = Deleted \cup {d}
  BY <1>2 DEF Deleted
<1>4. Art' = Art \ {d}
  BY <1>1 DEF Art, TypeOK
<1>5. Shows' = Shows /\ Requested' = Requested
  BY <1>1 DEF Shows, ShownAs, InFlight, Requested
<1>6. Contract!DropArtwork(d)
  BY <1>1, <1>3, <1>4, <1>5
  DEF Contract!DropArtwork, Shows, ShownAs, Art, Deleted, Requested
<1> QED
  BY <1>6 DEF ContractKept, Contract!ClaimNext

LEMMA DeleteCoverContract ==
    ASSUME Steady, TypeOK, ClaimInv, GenerationInv, NEW p \in Playlists, DeleteCover(p)
    PROVE  ContractKept
<1>1. /\ Exists(p) /\ ~InFlight(p) /\ covers'[p] = NoRow /\ pc' = pc
      /\ \A o \in Playlists \ {p} : covers'[o] = covers[o]
      /\ holder' = [holder EXCEPT ![p] = NoRun]
  BY DeleteCoverTakes DEF DeleteCover
<1>2. \A q \in Runs :
        /\ PlaylistOf[q] = p => ~Dropped(q)' /\ q \notin images'
        /\ PlaylistOf[q] # p =>
             /\ revisions'[q] = revisions[q] /\ (q \in images' <=> q \in images)
             /\ Dropped(q)' <=> Dropped(q)
  BY DeleteCoverTakes
<1>3. \A q : q \in Contract!RunsOf(p) <=> q \in Runs /\ PlaylistOf[q] = p
  BY DEF Contract!RunsOf
<1>4. images \subseteq Runs /\ images' \subseteq Runs
  BY DEF TypeOK, DeleteCover, DropRevisions
<1>5. Deleted \subseteq Runs /\ Deleted' \subseteq Runs
  BY DeleteCoverTakes DEF TypeOK, Deleted
<1>6. \A q : (q \in Deleted <=> Dropped(q)) /\ (q \in Deleted' <=> Dropped(q)')
  BY DEF Deleted, Dropped
<1>7. Art' = Art \ Contract!RunsOf(p)
  BY <1>2, <1>3, <1>4 DEF Art
<1>8. Deleted' = Deleted \ Contract!RunsOf(p)
  BY <1>2, <1>3, <1>5, <1>6
<1>9. Shows' = [Shows EXCEPT ![p] = "none"]
  <2>1. covers'[p].status = "none" /\ ShownAs(p)' = "none"
    BY <1>1 DEF ShownAs, InFlight, InFlightStatus, NoRow
  <2>2. \A o \in Playlists \ {p} : ShownAs(o)' = ShownAs(o)
    BY <1>1 DEF ShownAs, InFlight
  <2> QED
    BY <2>1, <2>2 DEF Shows
<1>10. Shows[p] \in Contract!Outcomes
  BY <1>1 DEF Shows, ShownAs, InFlight, Exists, TypeOK, CoverRow, TerminalStatus, Contract!Outcomes
<1>11. Requested' = Requested
  BY <1>1 DEF Requested
<1>12. Contract!Forget(p)
  <2>1. Shows[p] \in Contract!Outcomes /\ Shows' = [Shows EXCEPT ![p] = "none"]
    BY <1>9, <1>10
  <2>2. Art' = Art \ Contract!RunsOf(p) /\ Deleted' = Deleted \ Contract!RunsOf(p)
    BY <1>7, <1>8
  <2> QED
    BY <1>1, <1>11, <2>1, <2>2
    DEF Contract!Forget, Shows, ShownAs, Art, Deleted, Requested
<1> QED
  BY <1>12 DEF ContractKept, Contract!ClaimNext

\* Pipelines, heartbeat, sweep, crashes, restarts and deletions together keep the
\* contract of CoverClaim: a run decides over a cover and its artwork while it holds
\* the claim, and after that nothing it still does is seen.
THEOREM GenerationKeepsContract == ASSUME Steady PROVE Spec => KeepsContract
<1>1. TypeOK /\ ClaimInv /\ GenerationInv /\ [Next]_vars => [Contract!ClaimNext]_(Contract!claimVars)
  <2> SUFFICES ASSUME TypeOK, ClaimInv, GenerationInv, [Next]_vars
               PROVE  ContractKept
    BY DEF ContractKept
  <2>1. ASSUME NEW r \in Runs, StartRun(r)
        PROVE  ContractKept
    BY <2>1, StartRunClaims DEF ContractKept, Contract!ClaimNext
  <2>2. CASE UNCHANGED vars
    BY <2>2, ContractStutters
    DEF vars, Shows, ShownAs, InFlight, Art, Deleted, Requested
  <2> QED
    BY <2>1, <2>2, RunStepContract, BackgroundContract, DeleteRevisionContract,
       DeleteCoverContract DEF Next
<1> QED
  BY <1>1, InitContract, TypeCorrect, ClaimIsHeld, GenerationHolds, PTL
  DEF Spec, KeepsContract, Contract!ClaimSpec
=============================================================================
