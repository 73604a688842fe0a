----------------------------- MODULE CoverEvents -----------------------------
(***************************************************************************)
(* How a browser tab learns what became of a generation: the trigger that  *)
(* notifies, the LISTEN connection that may drop, the one-slot signal of a *)
(* subscriber, the server-sent-events handler that re-reads the row, and   *)
(* the tab whose caches decide who holds the stream.                       *)
(*                                                                         *)
(* One cover, one tab.  The row carries the number of writes it has seen   *)
(* as its updated_at: only equality of the stamps matters to the code.     *)
(* The tab's effects run in the step that changed its caches: React        *)
(* flushes them before the next response arrives from the network.  An     *)
(* entry of a cache stays for as long as the tab does.                     *)
(***************************************************************************)
EXTENDS Integers, Sequences, FiniteSets

CONSTANTS
    MaxRuns,     \* bound: generations of the cover
    MaxWrites,   \* bound: writes of the row
    Faults       \* a subset of AllFaults

\* "drop": the LISTEN connection is lost.  "cut": the stream's connection is.
\* "error": a request fails, or its answer is lost.  "revoke": the session ends.
\* "delete": the cover is deleted.
AllFaults == {"drop", "cut", "error", "revoke", "delete"}

ASSUME BoundAssumption == MaxRuns \in Nat \ {0} /\ MaxWrites \in Nat \ {0}
ASSUME FaultAssumption == Faults \subseteq AllFaults

VARIABLES
    row,         \* the cover's row; run counts its generations
    listening,   \* the watcher holds a connection with LISTEN on it
    inbox,       \* notifications the connection has not handed to notify yet
    handler,     \* the Events handler serving the tab's connection
    wire,        \* snapshots sent and not yet handled by the tab
    tab,         \* the tab's stream, its holders and its caches
    signedIn,    \* the tab's session is active
    missed       \* history: a write's signal did not reach the handler that serves

vars == <<row, listening, inbox, handler, wire, tab, signedIn, missed>>

Phases == {"none", "live", "settled", "deleted"}
Row == [phase : Phases, run : 0 .. MaxRuns, stamp : 0 .. MaxWrites]
NoRow == [phase |-> "none", run |-> 0, stamp |-> 0]
Closed == [pc |-> "closed", slot |-> FALSE, snap |-> NoRow]

TypeOK ==
    /\ row \in Row
    /\ listening \in BOOLEAN
    /\ inbox \in 0 .. MaxWrites
    /\ handler \in [pc : {"closed", "subscribe", "wait", "send", "refused"},
                    slot : BOOLEAN, snap : Row]
    /\ wire \in Seq(Row)
    /\ tab \in [open : BOOLEAN, refs : 0 .. 2, root : BOOLEAN, shown : BOOLEAN,
                screen : {"elsewhere", "gallery", "page"}, posting : BOOLEAN,
                accepted : BOOLEAN, listed : BOOLEAN, detail : Phases, list : Phases,
                fetching : BOOLEAN, learned : 0 .. MaxRuns, severed : BOOLEAN]
    /\ signedIn \in BOOLEAN
    /\ missed \in BOOLEAN

\* A tab loaded in mid-generation finds the cover in its list of running ones and watches it.
Loaded(running) ==
    [open |-> running, refs |-> IF running THEN 1 ELSE 0, root |-> running, shown |-> FALSE,
     screen |-> "elsewhere", posting |-> FALSE, accepted |-> FALSE, listed |-> running,
     detail |-> "none", list |-> "none", fetching |-> FALSE, learned |-> 0, severed |-> FALSE]

Init ==
    /\ row \in {NoRow, [phase |-> "live", run |-> 1, stamp |-> 1]}
    /\ tab = Loaded(row # NoRow)
    /\ listening = TRUE
    /\ inbox = 0
    /\ handler = Closed
    /\ wire = <<>>
    /\ signedIn = TRUE
    /\ missed = FALSE

-----------------------------------------------------------------------------
(* The row's writers and the trigger. *)

Settled(c) == c.phase = "settled"
Subscribed == handler.pc \in {"wait", "send"}
Serving == Subscribed \/ handler.pc = "subscribe"

\* AFTER INSERT OR UPDATE: every write notifies whoever listens, a delete nobody.
Notified ==
    IF listening THEN inbox' = inbox + 1 /\ UNCHANGED missed
    ELSE missed' = (missed \/ Serving) /\ UNCHANGED inbox

Write(phase, run) ==
    /\ row.stamp < MaxWrites
    /\ row' = [phase |-> phase, run |-> run, stamp |-> row.stamp + 1]
    /\ Notified

\* A stage change or a heartbeat of the run; leaves a write for its end.
Progress ==
    /\ row.phase = "live" /\ row.stamp < MaxWrites - 1
    /\ Write("live", row.run)
    /\ UNCHANGED <<listening, handler, wire, tab, signedIn>>

\* The run ends, or the sweep ends it.
Settle ==
    /\ row.phase = "live"
    /\ Write("settled", row.run)
    /\ UNCHANGED <<listening, handler, wire, tab, signedIn>>

\* Bound: a cover is deleted or the session ends, each of which ends the stream, before the
\* last of the generations.
Delete ==
    /\ "delete" \in Faults /\ signedIn /\ row.run < MaxRuns /\ row.phase \in {"live", "settled"}
    /\ row' = [row EXCEPT !.phase = "deleted"]
    /\ UNCHANGED <<listening, inbox, handler, wire, tab, signedIn, missed>>

-----------------------------------------------------------------------------
(* The watcher. *)

\* For the mutant: an unbuffered channel, taken only by a handler that waits.
SignalTaken == handler.pc = "wait"
\* The channel has one slot; a full slot already promises a re-read.
Signalled == Subscribed

\* listenOnce receives a notification and calls notify.
Fanout ==
    /\ inbox > 0
    /\ inbox' = inbox - 1
    /\ handler' = [handler EXCEPT !.slot = @ \/ Signalled]
    /\ missed' = (missed \/ (Serving /\ ~Subscribed))
    /\ UNCHANGED <<row, listening, wire, tab, signedIn>>

DropListen ==
    /\ "drop" \in Faults /\ listening
    /\ listening' = FALSE
    /\ inbox' = 0
    /\ missed' = (missed \/ (Serving /\ inbox > 0))
    /\ UNCHANGED <<row, handler, wire, tab, signedIn>>

\* listen: a second later.
Listen ==
    /\ ~listening
    /\ listening' = TRUE
    /\ UNCHANGED <<row, inbox, handler, wire, tab, signedIn, missed>>

-----------------------------------------------------------------------------
(* The handler. *)

Sent(c) == wire' = Append(wire, c)
Gone == row.phase \in {"none", "deleted"}

\* EventSource connects.  The first snapshot is read and sent before the handler subscribes.
Connecting == tab.open /\ handler.pc = "closed" /\ wire = <<>>
Connect ==
    /\ Connecting /\ ~Gone /\ signedIn
    /\ Sent(row)
    /\ handler' = IF Settled(row) THEN Closed
                  ELSE [pc |-> "subscribe", slot |-> FALSE, snap |-> row]
    /\ missed' = FALSE
    /\ UNCHANGED <<row, listening, inbox, tab, signedIn>>

\* An error response: nobody's cover, no session, a lapsed access token, a read that
\* fails, a server that shuts down.  It is final: EventSource does not try again.
Refuse ==
    /\ Connecting /\ (Gone \/ ~signedIn \/ "error" \in Faults)
    /\ handler' = [Closed EXCEPT !.pc = "refused"]
    /\ UNCHANGED <<row, listening, inbox, wire, tab, signedIn, missed>>

Subscribe ==
    /\ handler.pc = "subscribe"
    /\ handler' = [handler EXCEPT !.pc = "wait"]
    /\ UNCHANGED <<row, listening, inbox, wire, tab, signedIn, missed>>

\* The handler re-reads the cover: nothing new is a ping.
Read(slot) ==
    handler' = IF Gone THEN Closed
               ELSE IF row.stamp = handler.snap.stamp THEN [handler EXCEPT !.slot = slot]
               ELSE [pc |-> "send", slot |-> slot, snap |-> row]

Wake ==
    /\ handler.pc = "wait" /\ handler.slot
    /\ Read(FALSE)
    /\ missed' = FALSE
    /\ UNCHANGED <<row, listening, inbox, wire, tab, signedIn>>

\* For the mutants: a heartbeat that only pings; one that skips the session.
BeatPing == UNCHANGED handler
BeatUnchecked == Read(handler.slot)
\* Every fifteen seconds: the session is checked again and the row re-read.
BeatChecked == IF signedIn THEN Read(handler.slot) ELSE handler' = Closed

Beat ==
    /\ handler.pc = "wait"
    /\ BeatChecked
    /\ missed' = FALSE
    /\ UNCHANGED <<row, listening, inbox, wire, tab, signedIn>>

\* The read that a signal or a heartbeat asks for fails, and ends the stream.
ReadFails ==
    /\ "error" \in Faults /\ handler.pc = "wait"
    /\ handler' = Closed
    /\ missed' = FALSE
    /\ UNCHANGED <<row, listening, inbox, wire, tab, signedIn>>

Send ==
    /\ handler.pc = "send"
    /\ Sent(handler.snap)
    /\ handler' = IF Settled(handler.snap) THEN Closed ELSE [handler EXCEPT !.pc = "wait"]
    /\ UNCHANGED <<row, listening, inbox, tab, signedIn, missed>>

\* The connection breaks.
Cut ==
    /\ "cut" \in Faults /\ handler.pc \in {"subscribe", "wait", "send"}
    /\ handler' = Closed
    /\ wire' = <<>>
    /\ UNCHANGED <<row, listening, inbox, tab, signedIn, missed>>

-----------------------------------------------------------------------------
(* The tab. *)

\* useWatchCoverGenerations: a generation this tab was granted or its list of running
\* covers names, unless the cover's own entry says that it has settled.
RootLive(t) == (t.accepted \/ t.listed) /\ t.detail # "settled"
\* useCovers, useCover: the gallery and the cover's page, of which one is on screen.
ShownLive(t) ==
    \/ t.screen = "gallery" /\ t.list = "live"
    \/ t.screen = "page" /\ t.detail = "live"
\* Somebody reads the cover's entry: it is there, and it is fetched again when invalidated.
Observed(t) == t.accepted \/ t.screen = "page"

Holders(t) == (IF t.root THEN 1 ELSE 0) + (IF t.shown THEN 1 ELSE 0)

\* For the mutants: a release that closes for everybody; one that finds no stream.
WatchedAlone(t, holds, held) ==
    IF holds /\ ~held THEN [t EXCEPT !.open = TRUE, !.refs = IF t.open THEN @ + 1 ELSE 1]
    ELSE IF held /\ ~holds THEN [t EXCEPT !.open = FALSE, !.refs = 0]
    ELSE t
WatchedBlindly(t, holds, held) ==
    IF holds /\ ~held THEN [t EXCEPT !.open = TRUE, !.refs = IF t.open THEN @ + 1 ELSE 1]
    ELSE IF held /\ ~holds THEN [t EXCEPT !.open = t.refs > 1, !.refs = @ - 1]
    ELSE t
\* watchCover when an effect starts to hold the cover, its release when it ends.
Watched(t, holds, held) ==
    IF holds /\ ~held THEN [t EXCEPT !.open = TRUE, !.refs = IF t.open THEN @ + 1 ELSE 1]
    ELSE IF held /\ ~holds /\ t.open
         THEN [t EXCEPT !.open = t.refs > 1, !.refs = @ - 1]
    ELSE t
\* The root renders with what it subscribes to: the tab's mutations, the entries of the
\* covers they were granted, and the list.  Another's entry it only looks up.
RootHolds(t, renders) == IF renders \/ t.accepted THEN RootLive(t) ELSE t.root
Effects(t, renders) ==
    LET a == Watched(t, RootHolds(t, renders), t.root)
        b == Watched(a, ShownLive(t), t.shown)
    IN [b EXCEPT !.root = RootHolds(t, renders), !.shown = ShownLive(t),
                 !.severed = @ /\ (RootHolds(t, renders) \/ ShownLive(t))]

\* closeStream runs after the caches are written and before React sees them.  A root
\* that goes on holding does not notice.
Closing(t) == [t EXCEPT !.open = FALSE, !.refs = 0, !.severed = @ \/ t.root]

\* The tab's caches become t's.  Closing the stream ends the handler, ctx.Done.
Tab(t, renders, snapshots) ==
    /\ tab' = Effects(t, renders)
    /\ IF t.open /\ Effects(t, renders).open THEN wire' = snapshots /\ UNCHANGED handler
       ELSE wire' = <<>> /\ handler' = Closed

\* What a list shows of the cover, and what its detail says after a fetch.
Listed == IF Gone THEN "none" ELSE row.phase
Fetched(t) == IF Gone THEN t.detail ELSE row.phase
Learned(t) == IF Settled(row) THEN row.run ELSE t.learned

\* The caches of covers are invalidated and those in use fetched again.
Invalidated(t) ==
    [t EXCEPT !.listed = row.phase = "live", !.learned = Learned(t),
              !.list = IF t.screen = "gallery" THEN Listed ELSE @,
              !.fetching = @ \/ Observed(t)]

\* The tab asks for a generation, and a write is left for its end.
Generate ==
    /\ row.phase \in {"none", "settled"} /\ row.run < MaxRuns /\ row.stamp < MaxWrites - 1
    /\ signedIn /\ ~tab.posting
    /\ Write("live", row.run + 1)
    /\ Tab([tab EXCEPT !.posting = TRUE], TRUE, wire)
    /\ UNCHANGED <<listening, signedIn>>

\* The POST is answered with the cover, and onSuccess invalidates.
Accept ==
    /\ tab.posting
    /\ Tab(Invalidated([tab EXCEPT !.posting = FALSE, !.accepted = TRUE]), TRUE, wire)
    /\ UNCHANGED <<row, listening, inbox, signedIn, missed>>

\* The run was started, and the tab is told otherwise or nothing.
PostFails ==
    /\ tab.posting /\ "error" \in Faults
    /\ Tab([tab EXCEPT !.posting = FALSE], TRUE, wire)
    /\ UNCHANGED <<row, listening, inbox, signedIn, missed>>

\* applyCover merges a snapshot into the caches that exist; a terminal one
\* refetches the detail, replacing a fetch under way, and closes the stream.
Receive ==
    /\ tab.open /\ wire # <<>>
    /\ LET c == Head(wire)
           known == [tab EXCEPT
                       !.detail = IF Observed(tab) \/ @ # "none" THEN c.phase ELSE @,
                       !.list = IF @ = "none" THEN @ ELSE c.phase,
                       !.learned = IF Settled(c) THEN c.run ELSE @,
                       !.fetching = @ \/ (Observed(tab) /\ Settled(c))]
       IN Tab(IF Settled(c) THEN Closing(known) ELSE known, FALSE, Tail(wire))
    /\ UNCHANGED <<row, listening, inbox, signedIn, missed>>

\* A refetch is answered with the row as it is.
FetchDetail ==
    /\ tab.fetching
    /\ Tab([tab EXCEPT !.fetching = FALSE, !.detail = Fetched(tab), !.learned = Learned(tab)],
           FALSE, wire)
    /\ UNCHANGED <<row, listening, inbox, signedIn, missed>>

\* The user opens the gallery, which goes back to the server for its list, or the cover's
\* page, and leaves it.  What the list's cache holds in between is read again before use.
Navigate ==
    /\ signedIn /\ row.phase # "deleted"
    /\ \/ /\ tab.screen = "elsewhere"
          /\ \/ Tab([tab EXCEPT !.screen = "gallery", !.list = row.phase], FALSE, wire)
             \/ Tab([tab EXCEPT !.screen = "page", !.fetching = TRUE], FALSE, wire)
       \/ /\ tab.screen # "elsewhere"
          /\ Tab([tab EXCEPT !.screen = "elsewhere", !.list = "none"], FALSE, wire)
    /\ UNCHANGED <<row, listening, inbox, signedIn, missed>>

SignedOut ==
    /\ "revoke" \in Faults /\ signedIn /\ row.run < MaxRuns /\ row.phase # "deleted"
    /\ signedIn' = FALSE
    /\ UNCHANGED <<row, listening, inbox, handler, wire, tab, missed>>

-----------------------------------------------------------------------------
Watcher == Fanout \/ Listen
Handler == Subscribe \/ Wake \/ Beat \/ Send
Connection == Connect \/ Refuse
Answer == Accept \/ PostFails

Next ==
    \/ Generate \/ Progress \/ Settle \/ Delete
    \/ Watcher \/ DropListen
    \/ Handler \/ ReadFails \/ Cut
    \/ Connection \/ Answer \/ FetchDetail
    \/ Receive \/ Navigate \/ SignedOut

\* Threads that can run do, and a handler that waits is woken by its ticker if by nothing
\* else; the browser reconnects and is answered, and so is a fetch of the detail.  Receive
\* is strong: connections may break again and again, but not every one before its first
\* event arrives.
Fairness ==
    /\ WF_vars(Watcher) /\ WF_vars(Handler) /\ WF_vars(Connection) /\ WF_vars(FetchDetail)
    /\ SF_vars(Receive)
Spec == Init /\ [][Next]_vars
FairSpec == Spec /\ Fairness

-----------------------------------------------------------------------------
(* Properties. *)

\* A subscribed handler that is behind the row has a signal coming, unless the
\* write fell between its first read and its subscription or while LISTEN was
\* down: the one slot coalesces signals and never loses the last one (notify).
NoSilentMiss ==
    handler.pc = "wait" /\ ~Gone /\ row.stamp # handler.snap.stamp /\ ~missed
        => handler.slot \/ inbox > 0

\* While the tab knows a cover to be running that it was granted or shows, its stream is
\* open and counts every surface that watches it, so none that leaves closes it on the
\* others; a tab loaded in mid-generation included, until a terminal snapshot has closed
\* the stream under a root that goes on counting itself (watchCover, useWatchCoverGenerations).
RunningIsWatched ==
    Observed(tab) /\ tab.detail = "live" /\ ~tab.severed
        => tab.open /\ tab.refs = Holders(tab)

\* "Hold a stream open for every running cover" (useWatchCoverGenerations): no exception
\* for a tab that was loaded in mid-generation and generates again.
EveryRunningCoverHasStream == tab.accepted /\ tab.detail = "live" => tab.open

\* Whatever is lost on the way, a root that holds the stream when a generation ends
\* learns it, unless the cover is regenerated or deleted first, the session ends, or its
\* stream is refused, which nothing repeats.
TabLearns ==
    Settled(row) /\ tab.root /\ tab.open
        ~> \/ tab.learned = row.run \/ ~Settled(row) \/ ~signedIn
           \/ handler.pc = "refused" \/ tab.severed

\* A stream of an ended session, or of a deleted cover, is closed by the next
\* heartbeat: nothing else would tell the handler.
StreamIsReleased ==
    ~signedIn \/ row.phase = "deleted" ~> handler.pc \in {"closed", "refused"}
=============================================================================
