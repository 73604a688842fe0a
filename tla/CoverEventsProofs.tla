-------------------------- MODULE CoverEventsProofs --------------------------
(***************************************************************************)
(* What a reader of the stream can count on, for any number of generations *)
(* and writes: types, that a signal is never lost silently, and that the   *)
(* tab's stream is open and counts its holders while a generation runs.    *)
(***************************************************************************)
EXTENDS CoverEvents, TLAPS

Tabs == [open : BOOLEAN, refs : 0 .. 2, root : BOOLEAN, shown : BOOLEAN,
         screen : {"elsewhere", "gallery", "page"}, posting : BOOLEAN,
         accepted : BOOLEAN, listed : BOOLEAN, detail : Phases, list : Phases,
         fetching : BOOLEAN, learned : 0 .. MaxRuns, severed : BOOLEAN]

One(held) == IF held THEN 1 ELSE 0

\* The stream is there exactly while somebody is counted.
Counted(t) == t.open <=> t.refs > 0

-----------------------------------------------------------------------------
(* What an effect does to the stream and its count. *)

\* u knows what t knows: its caches and the surfaces that are there.
SameCaches(u, t) ==
    /\ u.screen = t.screen /\ u.accepted = t.accepted /\ u.listed = t.listed
    /\ u.detail = t.detail /\ u.list = t.list

\* One effect changes the count by what it starts or stops to hold, and not at all when
\* it lets go of a stream that is closed already.
LEMMA WatchedCounts ==
    ASSUME NEW t \in Tabs, Counted(t), NEW holds \in BOOLEAN, NEW held \in BOOLEAN,
           NEW n \in Nat, t.refs <= n, n + One(holds) - One(held) \in 0 .. 2
    PROVE  LET w == Watched(t, holds, held)
               m == n + One(holds) - One(held)
           IN  /\ w \in Tabs /\ Counted(w) /\ SameCaches(w, t)
               /\ w.root = t.root /\ w.shown = t.shown /\ w.severed = t.severed
               /\ w.refs <= m /\ (t.refs = n => w.refs = m)
<1> DEFINE w == Watched(t, holds, held)
           m == n + One(holds) - One(held)
<1>1. t.refs \in 0 .. 2 /\ t.open \in BOOLEAN
  BY DEF Tabs
<1>2. CASE holds /\ ~held
  <2> DEFINE c == IF t.open THEN t.refs + 1 ELSE 1
  <2>1. w = [t EXCEPT !.open = TRUE, !.refs = c]
    BY <1>2 DEF Watched, Tabs
  <2>2. m = n + 1 /\ n + 1 \in 0 .. 2
    BY <1>2 DEF One
  <2>3. c \in 0 .. 2 /\ c > 0
    BY <1>1, <2>2
  <2>7. c <= n + 1 /\ (t.refs = n => c = n + 1)
    BY <1>1, <2>2 DEF Counted
  <2> HIDE DEF w, m, c
  <2>4. w.open = TRUE /\ w.refs = c
    BY <2>1 DEF Tabs
  <2>5. w \in Tabs /\ SameCaches(w, t) /\ w.root = t.root /\ w.shown = t.shown
          /\ w.severed = t.severed
    BY <2>1, <2>3 DEF Tabs, SameCaches
  <2>6. Counted(w)
    BY <2>3, <2>4 DEF Counted
  <2>8. w.refs <= m /\ (t.refs = n => w.refs = m)
    BY <2>2, <2>4, <2>7
  <2>9. /\ w \in Tabs /\ Counted(w) /\ SameCaches(w, t)
        /\ w.root = t.root /\ w.shown = t.shown /\ w.severed = t.severed
        /\ w.refs <= m /\ (t.refs = n => w.refs = m)
    BY <2>5, <2>6, <2>8
  <2> QED
    BY <2>9 DEF w, m
<1>3. CASE held /\ ~holds /\ t.open
  <2>1. w = [t EXCEPT !.open = t.refs > 1, !.refs = t.refs - 1]
    BY <1>3 DEF Watched, Tabs
  <2>2. m = n - 1 /\ n - 1 \in 0 .. 2 /\ t.refs > 0
    BY <1>3 DEF One, Counted
  <2>3. t.refs - 1 \in 0 .. 2 /\ (t.refs > 1) \in BOOLEAN /\ (t.refs > 1 <=> t.refs - 1 > 0)
    BY <1>1, <2>2
  <2>4. w.open = (t.refs > 1) /\ w.refs = t.refs - 1
    BY <2>1 DEF Tabs
  <2>5. w \in Tabs /\ SameCaches(w, t) /\ w.root = t.root /\ w.shown = t.shown
          /\ w.severed = t.severed
    BY <2>1, <2>3 DEF Tabs, SameCaches
  <2>6. Counted(w)
    BY <2>3, <2>4 DEF Counted
  <2>7. w.refs <= n - 1 /\ (t.refs = n => w.refs = n - 1)
    BY <1>1, <2>2, <2>4
  <2> QED
    BY <2>2, <2>5, <2>6, <2>7
<1>4. CASE (held /\ ~holds /\ ~t.open) \/ holds = held
  <2>1. w = t
    BY <1>4 DEF Watched
  <2>2. m = (IF holds = held THEN n ELSE n - 1)
    BY <1>4 DEF One
  <2>3. holds # held => t.refs = 0 /\ n - 1 \in 0 .. 2
    BY <1>1, <1>4, <2>2 DEF Counted
  <2>4. w.refs <= m /\ (t.refs = n => w.refs = m)
    BY <1>1, <2>1, <2>2, <2>3
  <2>5. SameCaches(w, t)
    BY <2>1 DEF SameCaches
  <2> QED
    BY <2>1, <2>4, <2>5
<1>5. (holds /\ ~held) \/ (held /\ ~holds) \/ holds = held
  OBVIOUS
<1> QED
  BY <1>2, <1>3, <1>4, <1>5

\* The flags after the effects: who holds, and whether the root is severed.
Flagged(t, r, s, v) == [t EXCEPT !.root = r, !.shown = s, !.severed = v]

\* After the effects the flags say who holds, and the count is at most theirs; it is
\* theirs if it was before.
LEMMA EffectsCount ==
    ASSUME NEW t \in Tabs, Counted(t), t.refs <= Holders(t), NEW renders \in BOOLEAN
    PROVE  LET e == Effects(t, renders)
           IN  /\ e \in Tabs /\ Counted(e) /\ SameCaches(e, t)
               /\ e.root = RootHolds(t, renders) /\ e.shown = ShownLive(t)
               /\ e.severed = (t.severed /\ (RootHolds(t, renders) \/ ShownLive(t)))
               /\ e.refs <= Holders(e)
               /\ t.refs = Holders(t) => e.refs = Holders(e)
<1> DEFINE r == RootHolds(t, renders)
           s == ShownLive(t)
           a == Watched(t, r, t.root)
           b == Watched(a, s, t.shown)
           k == Holders(t) + One(r) - One(t.root)
           e == Effects(t, renders)
<1>1. r \in BOOLEAN /\ s \in BOOLEAN /\ t.root \in BOOLEAN /\ t.shown \in BOOLEAN
      /\ t.severed \in BOOLEAN
  BY DEF RootHolds, RootLive, ShownLive, Tabs
<1>6. e = [b EXCEPT !.root = r, !.shown = s, !.severed = b.severed /\ (r \/ s)]
  <2>1. b \in Tabs => e = [b EXCEPT !.root = r, !.shown = s, !.severed = b.severed /\ (r \/ s)]
    BY DEF Effects, Tabs
  <2> QED
    BY DEF Effects
<1>8. r = RootHolds(t, renders) /\ s = ShownLive(t)
  OBVIOUS
<1> HIDE DEF r, s
<1>2. Holders(t) \in Nat /\ k \in 0 .. 2 /\ k = One(r) + One(t.shown)
  BY <1>1 DEF One, Holders
<1>3. /\ a \in Tabs /\ Counted(a) /\ SameCaches(a, t)
      /\ a.root = t.root /\ a.shown = t.shown /\ a.severed = t.severed
      /\ a.refs <= k /\ (t.refs = Holders(t) => a.refs = k)
  BY <1>1, <1>2, WatchedCounts
<1>4. /\ k + One(s) - One(t.shown) \in 0 .. 2
      /\ k + One(s) - One(t.shown) = One(r) + One(s)
  BY <1>1, <1>2 DEF One
<1> HIDE DEF a, k
<1>5. /\ b \in Tabs /\ Counted(b) /\ SameCaches(b, a) /\ b.severed = a.severed
      /\ b.refs <= One(r) + One(s)
      /\ a.refs = k => b.refs = One(r) + One(s)
  <2>1. k \in Nat
    BY <1>2
  <2> QED
    BY <2>1, <1>1, <1>3, <1>4, WatchedCounts
<1> HIDE DEF b, e
<1>7. /\ e \in Tabs /\ SameCaches(e, b) /\ e.root = r /\ e.shown = s
      /\ e.severed = (b.severed /\ (r \/ s))
      /\ e.refs = b.refs /\ e.open = b.open
  <2> DEFINE v == b.severed /\ (r \/ s)
  <2>1. v \in BOOLEAN
    BY <1>1, <1>5 DEF Tabs
  <2>2. e = Flagged(b, r, s, v) /\ v = (b.severed /\ (r \/ s))
    BY <1>6 DEF Flagged
  <2> HIDE DEF v
  <2> DEFINE u == Flagged(b, r, s, v)
  <2>3. u \in Tabs
    BY <1>1, <1>5, <2>1 DEF Flagged, Tabs
  <2>4. SameCaches(u, b) /\ u.refs = b.refs /\ u.open = b.open
    BY <1>5 DEF Flagged, Tabs, SameCaches
  <2>5. u.root = r /\ u.shown = s /\ u.severed = v
    BY <1>5 DEF Flagged, Tabs
  <2> QED
    BY <2>2, <2>3, <2>4, <2>5, Zenon
<1>9. Counted(e) /\ SameCaches(e, t)
  BY <1>3, <1>5, <1>7 DEF Counted, SameCaches
<1>10. Holders(e) = One(r) + One(s)
  BY <1>7 DEF Holders, One
<1> QED
  BY <1>3, <1>5, <1>7, <1>8, <1>9, <1>10 DEF e

-----------------------------------------------------------------------------
(* Types.  The count is bounded because it never exceeds the surfaces that hold the *)
(* stream; an unhanded notification is a write.                                      *)

Stream(t) == Counted(t) /\ t.refs <= Holders(t)
Types == TypeOK /\ inbox <= row.stamp /\ Stream(tab)

\* t differs from u in what the caches hold only.
SameStream(t, u) ==
    t.open = u.open /\ t.refs = u.refs /\ t.root = u.root /\ t.shown = u.shown

LEMMA StreamOfCaches ==
    ASSUME NEW t, NEW u, SameStream(t, u)
    PROVE  Holders(t) = Holders(u) /\ (Stream(u) => Stream(t))
  BY DEF SameStream, Holders, Stream, Counted

\* The stream is shut before the effects run: nothing is counted.
LEMMA ClosingStream ==
    ASSUME NEW t \in Tabs
    PROVE  Closing(t) \in Tabs /\ Stream(Closing(t)) /\ SameCaches(Closing(t), t)
           /\ Closing(t).root = t.root /\ Closing(t).shown = t.shown
           /\ ~Closing(t).open /\ Closing(t).refs = 0
           /\ Closing(t).severed = (t.severed \/ t.root)
<1>0. 0 \in 0 .. 2
  OBVIOUS
<1>1. /\ Closing(t) \in Tabs /\ SameCaches(Closing(t), t)
      /\ Closing(t).root = t.root /\ Closing(t).shown = t.shown
      /\ Closing(t).open = FALSE /\ Closing(t).refs = 0
      /\ Closing(t).severed = (t.severed \/ t.root)
  BY <1>0 DEF Closing, Tabs, SameCaches
<1>2. Holders(Closing(t)) \in Nat
  BY <1>1 DEF Holders
<1> QED
  BY <1>1, <1>2 DEF Stream, Counted

\* Whatever the tab comes to know, its stream stays counted.
LEMMA TabTypes ==
    ASSUME Types, NEW t \in Tabs, Stream(t), NEW renders \in BOOLEAN,
           NEW snapshots \in Seq(Row), Tab(t, renders, snapshots)
    PROVE  /\ tab' \in Tabs /\ Stream(tab)'
           /\ wire' \in Seq(Row) /\ handler' \in {handler, Closed}
<1>1. tab' = Effects(t, renders)
  BY DEF Tab
<1>2. Effects(t, renders) \in Tabs /\ Stream(Effects(t, renders))
  BY EffectsCount DEF Stream
<1>3. tab' \in Tabs /\ Stream(tab')
  BY <1>1, <1>2
<1>4. Stream(tab)'
  BY <1>3 DEF Stream, Counted, Holders
<1>5. wire' \in {snapshots, <<>>} /\ handler' \in {handler, Closed} /\ <<>> \in Seq(Row)
  BY DEF Tab
<1> QED
  BY <1>3, <1>4, <1>5

\* What a snapshot and an invalidation write into the caches leaves the stream alone.
Merged(t, d, l, n, f) == [t EXCEPT !.detail = d, !.list = l, !.learned = n, !.fetching = f]
Relisted(t, x, l, n, f) == [t EXCEPT !.listed = x, !.learned = n, !.list = l, !.fetching = f]

LEMMA CachesTyped ==
    ASSUME NEW t \in Tabs, NEW d \in Phases, NEW l \in Phases, NEW n \in 0 .. MaxRuns,
           NEW f \in BOOLEAN, NEW x \in BOOLEAN
    PROVE  LET u == Merged(t, d, l, n, f)
               v == Relisted(t, x, l, n, f)
           IN  /\ u \in Tabs /\ SameStream(u, t) /\ u.severed = t.severed
               /\ u.accepted = t.accepted /\ u.screen = t.screen /\ u.detail = d /\ u.list = l
               /\ v \in Tabs /\ SameStream(v, t) /\ v.severed = t.severed
<1>1. Merged(t, d, l, n, f) \in Tabs
  BY DEF Tabs, Merged
<1>2. Relisted(t, x, l, n, f) \in Tabs
  BY DEF Tabs, Relisted
<1> QED
  BY <1>1, <1>2 DEF Tabs, SameStream, Merged, Relisted

LEMMA NoRowTyped == NoRow \in Row
  BY BoundAssumption DEF NoRow, Row, Phases

LEMMA ClosedTyped ==
    Closed \in [pc : {"closed", "subscribe", "wait", "send", "refused"}, slot : BOOLEAN, snap : Row]
  BY NoRowTyped DEF Closed

\* A write leaves a row of the type and at most one notification more.
LEMMA WriteTypes ==
    ASSUME Types, NEW phase \in Phases, NEW run \in 0 .. MaxRuns, Write(phase, run)
    PROVE  /\ row' \in Row /\ inbox' \in 0 .. MaxWrites /\ missed' \in BOOLEAN
           /\ inbox' <= row'.stamp
<1>1. row.stamp \in 0 .. MaxWrites /\ inbox \in 0 .. MaxWrites /\ row.stamp < MaxWrites
      /\ inbox <= row.stamp /\ missed \in BOOLEAN
  BY DEF Types, TypeOK, Row, Write
<1>2. row' \in Row /\ row'.stamp = row.stamp + 1
  BY <1>1, BoundAssumption DEF Write, Row
<1>3. inbox' \in {inbox, inbox + 1}
  BY DEF Write, Notified
<1>4. missed' \in BOOLEAN
  BY <1>1 DEF Write, Notified
<1>5. inbox' \in 0 .. MaxWrites /\ inbox' <= row.stamp + 1
  BY <1>1, <1>3, BoundAssumption
<1> QED
  BY <1>2, <1>4, <1>5

LEMMA TypesInit == Init => Types
<1> SUFFICES ASSUME Init PROVE Types
  OBVIOUS
<1> DEFINE running == row # NoRow
<1>1. row \in {NoRow, [phase |-> "live", run |-> 1, stamp |-> 1]} /\ tab = Loaded(running)
      /\ running \in BOOLEAN
  BY DEF Init
<1> HIDE DEF running
<1>2. row \in Row
  BY <1>1, NoRowTyped, BoundAssumption DEF Row, Phases
<1>3. tab \in Tabs
  BY <1>1, BoundAssumption DEF Tabs, Phases, Loaded
<1>4. Stream(tab)
  <2>1. /\ tab.open = running /\ tab.refs = (IF running THEN 1 ELSE 0)
        /\ tab.root = running /\ tab.shown = FALSE
    BY <1>1 DEF Loaded
  <2> QED
    BY <1>1, <2>1 DEF Stream, Counted, Holders
<1>5. inbox = 0 /\ inbox \in 0 .. MaxWrites /\ row.stamp \in Nat
  BY <1>2, BoundAssumption DEF Init, Row
<1>6. handler = Closed /\ wire = <<>> /\ <<>> \in Seq(Row)
  BY DEF Init
<1>7. listening \in BOOLEAN /\ signedIn \in BOOLEAN /\ missed \in BOOLEAN
  BY DEF Init
<1> QED
  BY <1>2, <1>3, <1>4, <1>5, <1>6, <1>7, ClosedTyped DEF Types, TypeOK, Tabs

\* What the steps of the handler can leave of it, for any row it may re-read.
LEMMA HandlerTypes ==
    ASSUME Types, Wake \/ Beat \/ Send \/ Connect \/ Refuse \/ Subscribe \/ Fanout
    PROVE  handler' \in [pc : {"closed", "subscribe", "wait", "send", "refused"},
                         slot : BOOLEAN, snap : Row]
<1> DEFINE H == [pc : {"closed", "subscribe", "wait", "send", "refused"}, slot : BOOLEAN, snap : Row]
<1>1. handler \in H /\ row \in Row /\ Closed \in H
  BY ClosedTyped DEF Types, TypeOK
<1>2. ASSUME NEW slot \in BOOLEAN, Read(slot) PROVE handler' \in H
  <2>1. [handler EXCEPT !.slot = slot] \in H /\ [pc |-> "send", slot |-> slot, snap |-> row] \in H
    BY <1>1
  <2> QED
    BY <1>1, <1>2, <2>1 DEF Read
<1>3. CASE Wake
  BY <1>2, <1>3 DEF Wake
<1>4. CASE Beat
  <2>1. handler.slot \in BOOLEAN
    BY <1>1
  <2> QED
    BY <1>1, <1>2, <1>4, <2>1 DEF Beat, BeatChecked
<1>5. CASE Send
  BY <1>1, <1>5 DEF Send
<1>6. CASE Connect \/ Refuse
  <2>1. [Closed EXCEPT !.pc = "refused"] \in H /\ [pc |-> "subscribe", slot |-> FALSE, snap |-> row] \in H
    BY <1>1
  <2> QED
    BY <1>1, <1>6, <2>1 DEF Connect, Refuse
<1>7. CASE Subscribe
  BY <1>1, <1>7 DEF Subscribe
<1>8. CASE Fanout
  <2>1. (handler.slot \/ Signalled) \in BOOLEAN
    OBVIOUS
  <2> QED
    BY <1>1, <1>8, <2>1 DEF Fanout
<1> QED
  BY <1>3, <1>4, <1>5, <1>6, <1>7, <1>8

LEMMA TypesNext == Types /\ [Next]_vars => Types'
<1> SUFFICES ASSUME Types, [Next]_vars PROVE Types'
  OBVIOUS
<1> DEFINE H == [pc : {"closed", "subscribe", "wait", "send", "refused"}, slot : BOOLEAN, snap : Row]
<1>0. /\ row \in Row /\ listening \in BOOLEAN /\ inbox \in 0 .. MaxWrites /\ handler \in H
      /\ wire \in Seq(Row) /\ tab \in Tabs /\ signedIn \in BOOLEAN /\ missed \in BOOLEAN
      /\ inbox <= row.stamp /\ Stream(tab)
  BY DEF Types, TypeOK, Tabs
\* What is to be shown, one variable at a time.
<1>q. SUFFICES /\ row' \in Row /\ listening' \in BOOLEAN /\ inbox' \in 0 .. MaxWrites /\ handler' \in H
               /\ wire' \in Seq(Row) /\ tab' \in Tabs /\ signedIn' \in BOOLEAN /\ missed' \in BOOLEAN
               /\ inbox' <= row'.stamp /\ Stream(tab)'
  BY DEF Types, TypeOK, Tabs
<1> HIDE DEF H
<1>t. tab' = tab => tab' \in Tabs /\ Stream(tab)'
  BY <1>0 DEF Stream, Counted, Holders
<1>c. Closed \in H
  BY ClosedTyped DEF H
\* A step of the tab: what its caches become, the stream's count being as it was.
<1>d. ASSUME NEW t \in Tabs, Stream(t), NEW renders \in BOOLEAN, NEW snapshots \in Seq(Row),
             Tab(t, renders, snapshots)
      PROVE  handler' \in H /\ wire' \in Seq(Row) /\ tab' \in Tabs /\ Stream(tab)'
  BY <1>0, <1>c, <1>d, TabTypes
<1>1. CASE Generate
  <2>1. row.run + 1 \in 0 .. MaxRuns /\ "live" \in Phases
    BY <1>0, <1>1, BoundAssumption DEF Generate, Row, Phases
  <2> DEFINE t == [tab EXCEPT !.posting = TRUE]
  <2>2. t \in Tabs /\ SameStream(t, tab) /\ Tab(t, TRUE, wire)
    BY <1>0, <1>1 DEF Generate, Tabs, SameStream
  <2> HIDE DEF t
  <2>3. Stream(t)
    BY <1>0, <2>2, StreamOfCaches
  <2>4. handler' \in H /\ wire' \in Seq(Row) /\ tab' \in Tabs /\ Stream(tab)'
    BY <1>0, <1>d, <2>2, <2>3
  <2> QED
    BY <1>0, <1>1, <2>1, <2>4, WriteTypes DEF Generate
<1>2. CASE Progress
  <2>1. row.run \in 0 .. MaxRuns /\ "live" \in Phases
    BY <1>0 DEF Row, Phases
  <2> QED
    BY <1>0, <1>t, <1>2, <2>1, WriteTypes DEF Progress
<1>3. CASE Settle
  <2>1. row.run \in 0 .. MaxRuns /\ "settled" \in Phases
    BY <1>0 DEF Row, Phases
  <2> QED
    BY <1>0, <1>t, <1>3, <2>1, WriteTypes DEF Settle
<1>4. CASE Delete
  <2>1. row' \in Row /\ row'.stamp = row.stamp
    BY <1>0, <1>4 DEF Delete, Row, Phases
  <2> QED
    BY <1>0, <1>t, <1>4, <2>1 DEF Delete
<1>5. CASE Fanout
  <2>1. row.stamp \in Nat
    BY <1>0 DEF Row
  <2>2. inbox > 0 /\ inbox' = inbox - 1 /\ row' = row
    BY <1>5 DEF Fanout
  <2>5. inbox' \in 0 .. MaxWrites /\ inbox' <= row'.stamp
    BY <1>0, <2>1, <2>2, BoundAssumption
  <2>3. missed' \in BOOLEAN
    BY <1>5 DEF Fanout
  <2>4. handler' \in H
    BY <1>5, HandlerTypes DEF H
  <2> QED
    BY <1>0, <1>t, <1>5, <2>3, <2>4, <2>5 DEF Fanout
<1>6. CASE DropListen
  <2>1. row.stamp \in Nat /\ 0 \in 0 .. MaxWrites
    BY <1>0, BoundAssumption DEF Row
  <2>2. missed' \in BOOLEAN /\ inbox' = 0
    BY <1>6 DEF DropListen
  <2>3. inbox' <= row'.stamp
    BY <1>6, <2>1, <2>2 DEF DropListen
  <2> QED
    BY <1>0, <1>t, <1>6, <2>1, <2>2, <2>3 DEF DropListen
<1>7. CASE Listen
  BY <1>0, <1>t, <1>7 DEF Listen
<1>8. CASE Connect
  <2>1. wire' \in {wire, Append(wire, row)} /\ Append(wire, row) \in Seq(Row) /\ missed' = FALSE
    BY <1>0, <1>8 DEF Connect, Sent
  <2>2. handler' \in H
    BY <1>8, HandlerTypes DEF H
  <2> QED
    BY <1>0, <1>t, <1>8, <2>1, <2>2 DEF Connect
<1>20. CASE Refuse
  <2>1. handler' \in H
    BY <1>20, HandlerTypes DEF H
  <2> QED
    BY <1>0, <1>t, <1>20, <2>1 DEF Refuse
<1>9. CASE Subscribe
  <2>1. handler' \in H
    BY <1>9, HandlerTypes DEF H
  <2> QED
    BY <1>0, <1>t, <1>9, <2>1 DEF Subscribe
<1>10. CASE Wake
  <2>1. handler' \in H
    BY <1>10, HandlerTypes DEF H
  <2> QED
    BY <1>0, <1>t, <1>10, <2>1 DEF Wake
<1>11. CASE Beat
  <2>1. handler' \in H
    BY <1>11, HandlerTypes DEF H
  <2> QED
    BY <1>0, <1>t, <1>11, <2>1 DEF Beat
<1>12. CASE Send
  <2>1. handler' \in H
    BY <1>12, HandlerTypes DEF H
  <2>2. wire' \in Seq(Row)
    BY <1>0, <1>12 DEF Send, Sent, H
  <2> QED
    BY <1>0, <1>t, <1>12, <2>1, <2>2 DEF Send
<1>13. CASE Cut
  <2>1. handler' \in H /\ wire' \in Seq(Row)
    BY <1>13, ClosedTyped DEF Cut, H
  <2> QED
    BY <1>0, <1>t, <1>13, <2>1 DEF Cut
<1>22. CASE ReadFails
  <2>1. handler' \in H
    BY <1>22, ClosedTyped DEF ReadFails, H
  <2> QED
    BY <1>0, <1>t, <1>22, <2>1 DEF ReadFails
<1>f. /\ tab \in Tabs /\ row.phase \in Phases /\ row.run \in 0 .. MaxRuns
      /\ Listed \in Phases /\ Fetched(tab) \in Phases /\ Learned(tab) \in 0 .. MaxRuns
      /\ Observed(tab) \in BOOLEAN /\ (row.phase = "live") \in BOOLEAN /\ "none" \in Phases
  BY <1>0 DEF Row, Tabs, Listed, Fetched, Learned, Observed, Phases
<1>14. CASE Accept
  <2> DEFINE u == [tab EXCEPT !.posting = FALSE, !.accepted = TRUE]
             t == Invalidated(u)
  <2>0. u \in Tabs /\ SameStream(u, tab) /\ Learned(u) \in 0 .. MaxRuns /\ Observed(u) \in BOOLEAN
    BY <1>f DEF Tabs, SameStream, Learned, Observed
  <2>2. Tab(t, TRUE, wire)
    BY <1>14 DEF Accept
  <2> HIDE DEF u
  <2> DEFINE l == IF u.screen = "gallery" THEN Listed ELSE u.list
             f == u.fetching \/ Observed(u)
  <2>4. l \in Phases /\ f \in BOOLEAN /\ u.detail \in Phases
    BY <1>f, <2>0 DEF Tabs
  <2>5. t = Relisted(u, row.phase = "live", l, Learned(u), f)
    BY DEF Invalidated, Relisted
  <2> HIDE DEF t, l, f
  <2>1. t \in Tabs /\ SameStream(t, u)
    BY <1>f, <2>0, <2>4, <2>5, CachesTyped
  <2> HIDE DEF t
  <2>3. Stream(t)
    BY <1>0, <2>0, <2>1, StreamOfCaches
  <2> QED
    BY <1>0, <1>14, <1>d, <2>1, <2>2, <2>3 DEF Accept
<1>21. CASE PostFails
  <2> DEFINE t == [tab EXCEPT !.posting = FALSE]
  <2>1. t \in Tabs /\ SameStream(t, tab)
    BY <1>f DEF Tabs, SameStream
  <2>2. Tab(t, TRUE, wire)
    BY <1>21 DEF PostFails
  <2> HIDE DEF t
  <2>3. Stream(t)
    BY <1>0, <2>1, StreamOfCaches
  <2> QED
    BY <1>0, <1>21, <1>d, <2>1, <2>2, <2>3 DEF PostFails
<1>15. CASE Receive
  <2> DEFINE c == Head(wire)
             d == IF Observed(tab) \/ tab.detail # "none" THEN c.phase ELSE tab.detail
             l == IF tab.list = "none" THEN tab.list ELSE c.phase
             n == IF Settled(c) THEN c.run ELSE tab.learned
             f == tab.fetching \/ (Observed(tab) /\ Settled(c))
             known == Merged(tab, d, l, n, f)
             t == IF Settled(c) THEN Closing(known) ELSE known
  <2>1. c \in Row /\ Tail(wire) \in Seq(Row)
    BY <1>0, <1>15 DEF Receive
  <2>2. Tab(t, FALSE, Tail(wire))
    BY <1>15 DEF Receive, Merged
  <2> HIDE DEF c
  <2>6. d \in Phases /\ l \in Phases /\ n \in 0 .. MaxRuns /\ f \in BOOLEAN
    BY <1>f, <2>1 DEF Tabs, Row
  <2> HIDE DEF d, l, n, f
  <2>3. known \in Tabs /\ SameStream(known, tab)
    BY <1>f, <2>6, CachesTyped
  <2> HIDE DEF known
  <2>4. Stream(known)
    BY <1>0, <2>3, StreamOfCaches
  <2>5. t \in Tabs /\ Stream(t)
    BY <2>3, <2>4, ClosingStream
  <2> HIDE DEF t
  <2> QED
    BY <1>0, <1>15, <1>d, <2>1, <2>2, <2>5 DEF Receive
<1>16. CASE FetchDetail
  <2> DEFINE t == [tab EXCEPT !.fetching = FALSE, !.detail = Fetched(tab),
                              !.learned = Learned(tab)]
  <2>1. t \in Tabs /\ SameStream(t, tab)
    BY <1>f DEF Tabs, SameStream
  <2>2. Tab(t, FALSE, wire)
    BY <1>16 DEF FetchDetail
  <2> HIDE DEF t
  <2>3. Stream(t)
    BY <1>0, <2>1, StreamOfCaches
  <2> QED
    BY <1>0, <1>16, <1>d, <2>1, <2>2, <2>3 DEF FetchDetail
<1>17. CASE Navigate
  <2>1. PICK t \in {[tab EXCEPT !.screen = "gallery", !.list = row.phase],
                    [tab EXCEPT !.screen = "page", !.fetching = TRUE],
                    [tab EXCEPT !.screen = "elsewhere", !.list = "none"]} : Tab(t, FALSE, wire)
    BY <1>17 DEF Navigate
  <2>2. t \in Tabs
    BY <1>f, <2>1 DEF Tabs
  <2>4. SameStream(t, tab)
    BY <1>f, <2>1 DEF Tabs, SameStream
  <2>3. Stream(t)
    BY <1>0, <2>4, StreamOfCaches
  <2> QED
    BY <1>0, <1>17, <1>d, <2>1, <2>2, <2>3 DEF Navigate
<1>18. CASE SignedOut
  BY <1>0, <1>t, <1>18 DEF SignedOut
<1>19. CASE UNCHANGED vars
  BY <1>0, <1>t, <1>19 DEF vars
<1> QED
  BY <1>1, <1>2, <1>3, <1>4, <1>5, <1>6, <1>7, <1>8, <1>9, <1>10, <1>11, <1>12, <1>13, <1>22,
     <1>14, <1>15, <1>16, <1>17, <1>18, <1>19, <1>20, <1>21
     DEF Next, Watcher, Handler, Connection, Answer

LEMMA TypesAlways == Spec => []Types
  BY TypesInit, TypesNext, PTL DEF Spec

\* In every reachable state the variables have their types: no more notifications wait
\* than rows were written, and the tab never counts more holders than the root and a screen.
THEOREM EventsTypeCorrect == Spec => []TypeOK
<1>1. Types => TypeOK
  BY DEF Types
<1> QED
  BY <1>1, TypesAlways, PTL

-----------------------------------------------------------------------------
(* Signals.  What NoSilentMiss says of a handler that waits must hold of one that is *)
(* about to: its signal may come before it waits again.                              *)

Behind == ~Gone /\ row.stamp # handler.snap.stamp
Promised == Serving /\ Behind /\ ~missed => handler.slot \/ inbox > 0

LEMMA PromisedInit == Init => Promised
  BY DEF Init, Closed, Promised, Serving, Subscribed

\* Every write leaves a notification, or is missed because LISTEN is down.
LEMMA WriteNotifies ==
    ASSUME Types, NEW phase, NEW run, Write(phase, run)
    PROVE  inbox' > 0 \/ missed' \/ ~Serving
<1>1. inbox \in Nat
  BY BoundAssumption DEF Types, TypeOK
<1>2. inbox' = inbox + 1 \/ missed' \/ ~Serving
  BY DEF Write, Notified
<1> QED
  BY <1>1, <1>2

LEMMA PromisedNext == Types /\ Promised /\ [Next]_vars => Promised'
<1> SUFFICES ASSUME Types, Promised, [Next]_vars PROVE Promised'
  OBVIOUS
<1>h. handler.slot \in BOOLEAN /\ handler.snap \in Row /\ inbox \in Nat /\ row \in Row
      /\ handler = [pc |-> handler.pc, slot |-> handler.slot, snap |-> handler.snap]
  BY BoundAssumption DEF Types, TypeOK
<1>1. CASE Generate \/ Progress \/ Settle
  <2>1. inbox' > 0 \/ missed' \/ ~Serving
    BY <1>1, WriteNotifies DEF Generate, Progress, Settle
  <2>2. Serving' => Serving
    <3>1. handler' = handler \/ handler' = Closed
      BY <1>1 DEF Generate, Progress, Settle, Tab
    <3> QED
      BY <3>1 DEF Closed, Serving, Subscribed
  <2> QED
    BY <2>1, <2>2 DEF Promised
<1>2. CASE Delete
  BY <1>2 DEF Delete, Promised, Behind, Gone, Types, TypeOK, Row
<1>3. CASE Fanout
  <2>1. CASE Subscribed
    <3>1. handler'.slot = TRUE
      BY <1>3, <2>1, <1>h DEF Fanout, Signalled, Types, TypeOK
    <3> QED
      BY <3>1 DEF Promised
  <2>2. CASE ~Subscribed
    <3>1. handler' = [handler EXCEPT !.slot = @ \/ FALSE]
      BY <1>3, <2>2, <1>h DEF Fanout, Signalled
    <3>2. handler'.pc = handler.pc
      BY <1>h, <3>1
    <3>3. Serving' => missed'
      BY <1>3, <2>2, <3>2 DEF Fanout, Serving, Subscribed
    <3> QED
      BY <3>3 DEF Promised
  <2> QED
    BY <2>1, <2>2
<1>4. CASE DropListen
  <2>1. handler' = handler /\ row' = row /\ inbox' = 0 /\ (missed' <=> missed \/ (Serving /\ inbox > 0))
    BY <1>4 DEF DropListen
  <2> QED
    BY <2>1 DEF Promised, Serving, Subscribed, Behind, Gone
<1>5. CASE Connect \/ Refuse
  BY <1>5 DEF Connect, Refuse, Closed, Promised, Serving, Subscribed, Behind
<1>6. CASE Subscribe
  <2>1. handler'.pc = "wait" /\ handler'.slot = handler.slot /\ handler'.snap = handler.snap
        /\ handler.pc = "subscribe"
    BY <1>6, <1>h DEF Subscribe, Types, TypeOK
  <2>2. row' = row /\ inbox' = inbox /\ missed' = missed
    BY <1>6 DEF Subscribe
  <2> QED
    BY <2>1, <2>2 DEF Promised, Serving, Subscribed, Behind, Gone
\* A handler that has re-read the row is behind it no more.
<1>7. ASSUME NEW slot \in BOOLEAN, Read(slot), UNCHANGED row PROVE ~(Serving /\ Behind)'
  <2>1. CASE Read(slot) /\ Gone
    BY <1>7, <2>1 DEF Read, Closed, Serving, Subscribed
  <2>2. CASE Read(slot) /\ ~Gone /\ row.stamp = handler.snap.stamp
    <3>1. handler'.snap = handler.snap
      BY <1>7, <2>2, <1>h DEF Read, Types, TypeOK
    <3> QED
      BY <1>7, <2>2, <3>1 DEF Behind
  <2>3. CASE Read(slot) /\ ~Gone /\ row.stamp # handler.snap.stamp
    BY <1>7, <2>3 DEF Read, Behind
  <2> QED
    BY <1>7, <2>1, <2>2, <2>3
<1>8. CASE Wake
  BY <1>7, <1>8 DEF Wake, Promised
<1>9. CASE Beat
  <2>1. CASE signedIn
    BY <1>7, <1>9, <1>h, <2>1 DEF Beat, BeatChecked, Promised
  <2>2. CASE ~signedIn
    BY <1>9, <2>2 DEF Beat, BeatChecked, Closed, Promised, Serving, Subscribed
  <2> QED
    BY <2>1, <2>2
<1>10. CASE Send
  <2>1. row' = row /\ inbox' = inbox /\ missed' = missed /\ handler.pc = "send"
    BY <1>10 DEF Send
  <2>2. handler'.pc = "closed" \/ (handler'.slot = handler.slot /\ handler'.snap = handler.snap)
    BY <1>10, <1>h DEF Send, Closed, Types, TypeOK
  <2> QED
    BY <2>1, <2>2 DEF Promised, Serving, Subscribed, Behind, Gone
<1>11. CASE Cut \/ ReadFails
  BY <1>11 DEF Cut, ReadFails, Closed, Promised, Serving, Subscribed
<1>12. CASE Accept \/ PostFails \/ Receive \/ FetchDetail \/ Navigate
  <2>1. row' = row /\ inbox' = inbox /\ missed' = missed /\ (handler' = handler \/ handler' = Closed)
    BY <1>12 DEF Accept, PostFails, Receive, FetchDetail, Navigate, Tab
  <2> QED
    BY <2>1 DEF Closed, Promised, Serving, Subscribed, Behind, Gone
<1>13. CASE Listen \/ SignedOut \/ UNCHANGED vars
  <2>1. row' = row /\ inbox' = inbox /\ missed' = missed /\ handler' = handler
    BY <1>13 DEF Listen, SignedOut, vars
  <2> QED
    BY <2>1 DEF Promised, Serving, Subscribed, Behind, Gone
<1> QED
  BY <1>1, <1>2, <1>3, <1>4, <1>5, <1>6, <1>8, <1>9, <1>10, <1>11, <1>12, <1>13
     DEF Next, Watcher, Handler, Connection, Answer

\* A subscribed handler that is behind the row has a signal coming, unless the write fell
\* before its subscription or while LISTEN was down: with one slot for any number of
\* writes, and with Fanout, Wake and Beat in any order (notify, Events).
THEOREM SignalsAreKept == Spec => []NoSilentMiss
<1>1. Promised => NoSilentMiss
  BY DEF Promised, Serving, Subscribed, Behind, NoSilentMiss
<1>2. Spec => []Promised
  <2>1. Types /\ Promised /\ [Next]_vars => Promised'
    BY PromisedNext
  <2> QED
    BY <2>1, PromisedInit, TypesAlways, PTL DEF Spec
<1> QED
  BY <1>1, <1>2, PTL

-----------------------------------------------------------------------------
(* Who holds the stream.  The screen's flag follows its cache in every step, the     *)
(* root's in every step once a generation was granted; the count follows both until  *)
(* a terminal snapshot shuts the stream under a root that does not look.             *)

Held ==
    /\ ~tab.severed => tab.refs = Holders(tab)
    /\ tab.accepted /\ tab.detail # "settled" => tab.root
    /\ tab.shown = ShownLive(tab)

LEMMA HeldInit == Init => Held
<1> SUFFICES ASSUME Init PROVE Held
  OBVIOUS
<1>1. tab = Loaded(row # NoRow) /\ (row # NoRow) \in BOOLEAN
  BY DEF Init
<1>2. /\ tab.root = (row # NoRow) /\ tab.shown = FALSE /\ tab.screen = "elsewhere"
      /\ tab.refs = (IF row # NoRow THEN 1 ELSE 0) /\ tab.accepted = FALSE
  BY <1>1 DEF Loaded
<1>3. ShownLive(tab) = FALSE
  BY <1>2 DEF ShownLive
<1>4. tab.refs = Holders(tab)
  <2>1. CASE row # NoRow
    <3>1. tab.root = TRUE /\ tab.shown = FALSE /\ tab.refs = 1
      BY <1>2, <2>1
    <3> QED
      BY <3>1 DEF Holders
  <2>2. CASE row = NoRow
    <3>1. tab.root = FALSE /\ tab.shown = FALSE /\ tab.refs = 0
      BY <1>2, <2>2
    <3> QED
      BY <3>1 DEF Holders
  <2> QED
    BY <2>1, <2>2
<1>5. tab.shown = ShownLive(tab)
  BY <1>2, <1>3, Zenon
<1> QED
  BY <1>2, <1>4, <1>5 DEF Held

\* The flags after a step of the tab.
LEMMA FlagsHold ==
    ASSUME NEW e, NEW t, NEW renders \in BOOLEAN, SameCaches(e, t),
           e.root = RootHolds(t, renders), e.shown = ShownLive(t)
    PROVE  (e.accepted /\ e.detail # "settled" => e.root) /\ e.shown = ShownLive(e)
  BY DEF SameCaches, RootHolds, RootLive, ShownLive

\* The effects bring the flags and the count up to date with the caches.
LEMMA TabHolds ==
    ASSUME NEW t \in Tabs, Stream(t), ~t.severed => t.refs = Holders(t),
           NEW renders \in BOOLEAN, NEW snapshots, Tab(t, renders, snapshots)
    PROVE  Held'
<1> DEFINE e == Effects(t, renders)
<1>1. tab' = e
  BY DEF Tab
<1>2. /\ e \in Tabs /\ SameCaches(e, t) /\ e.root = RootHolds(t, renders) /\ e.shown = ShownLive(t)
      /\ e.severed = (t.severed /\ (RootHolds(t, renders) \/ ShownLive(t)))
      /\ e.refs <= Holders(e) /\ (t.refs = Holders(t) => e.refs = Holders(e))
  BY EffectsCount DEF Stream
<1> HIDE DEF e
<1>3. ~e.severed => e.refs = Holders(e)
  <2>1. CASE ~t.severed
    BY <1>2, <2>1
  <2>2. CASE t.severed /\ ~e.severed
    <3>1. ~e.root /\ ~e.shown
      BY <1>2, <2>2
    <3>2. Holders(e) = 0 /\ e.refs \in 0 .. 2
      BY <1>2, <3>1 DEF Holders, Tabs
    <3> QED
      BY <1>2, <3>2
  <2> QED
    BY <2>1, <2>2
<1>4. (e.accepted /\ e.detail # "settled" => e.root) /\ e.shown = ShownLive(e)
  BY <1>2, FlagsHold
<1>5. Holders(tab)' = Holders(e) /\ ShownLive(tab)' = ShownLive(e)
  BY <1>1 DEF Holders, ShownLive
<1> QED
  BY <1>1, <1>3, <1>4, <1>5 DEF Held

\* A terminal snapshot shuts the stream.  Whatever shows the cover lets go of it, and a
\* root that does not is severed from it.
LEMMA ClosingHolds ==
    ASSUME NEW t \in Tabs, t.accepted => t.detail = "settled", ~ShownLive(t),
           NEW snapshots, Tab(Closing(t), FALSE, snapshots)
    PROVE  Held'
<1> DEFINE u == Closing(t)
           r == RootHolds(u, FALSE)
<1>1. /\ u \in Tabs /\ SameCaches(u, t) /\ ~u.open /\ u.refs = 0
      /\ u.root = t.root /\ u.shown = t.shown /\ u.severed = (t.severed \/ t.root)
  BY ClosingStream
<1>2. tab' = Effects(u, FALSE)
  BY DEF Tab
<1>r. r = RootHolds(u, FALSE)
  OBVIOUS
<1> HIDE DEF u, r
<1>3. /\ ShownLive(u) = FALSE /\ r \in BOOLEAN /\ (r => u.root)
      /\ u.root \in BOOLEAN /\ u.shown \in BOOLEAN
  BY <1>1, <1>r DEF SameCaches, RootHolds, RootLive, ShownLive, Tabs
<1>4. Watched(u, r, u.root) = u /\ Watched(u, FALSE, u.shown) = u
  BY <1>1, <1>3 DEF Watched
<1>5. tab' = [u EXCEPT !.root = r, !.shown = FALSE, !.severed = u.severed /\ (r \/ FALSE)]
  BY <1>2, <1>3, <1>4, <1>r, <1>1 DEF Effects, Tabs
<1> DEFINE e == tab'
<1>6. /\ e.root = r /\ e.shown = FALSE /\ e.severed = (u.severed /\ r) /\ e.refs = 0
      /\ SameCaches(e, u)
  BY <1>1, <1>3, <1>5 DEF Tabs, SameCaches
<1> HIDE DEF e
<1>7. ~e.severed => Holders(e) = 0
  BY <1>1, <1>3, <1>6 DEF Holders
<1>8. (e.accepted /\ e.detail # "settled" => e.root) /\ e.shown = ShownLive(e)
  BY <1>3, <1>6, <1>r, FlagsHold
<1>9. Held' = (/\ ~e.severed => e.refs = Holders(e)
               /\ e.accepted /\ e.detail # "settled" => e.root
               /\ e.shown = ShownLive(e))
  BY DEF Held, e, Holders, ShownLive
<1> QED
  BY <1>6, <1>7, <1>8, <1>9

LEMMA HeldNext == Types /\ Held /\ [Next]_vars => Held'
<1> SUFFICES ASSUME Types, Held, [Next]_vars PROVE Held'
  OBVIOUS
<1>0. tab \in Tabs /\ row \in Row /\ wire \in Seq(Row) /\ Stream(tab)
      /\ (~tab.severed => tab.refs = Holders(tab))
  BY DEF Types, TypeOK, Tabs, Held
<1>f. /\ row.phase \in Phases /\ row.run \in 0 .. MaxRuns /\ Listed \in Phases
      /\ Fetched(tab) \in Phases /\ Learned(tab) \in 0 .. MaxRuns
      /\ Observed(tab) \in BOOLEAN /\ (row.phase = "live") \in BOOLEAN /\ "none" \in Phases
  BY <1>0 DEF Row, Tabs, Listed, Fetched, Learned, Observed, Phases
\* Whatever the caches come to hold, the stream stays held.
<1>t. ASSUME NEW t \in Tabs, SameStream(t, tab), t.severed = tab.severed,
             NEW renders \in BOOLEAN, NEW snapshots, Tab(t, renders, snapshots)
      PROVE  Held'
  <2>1. Stream(t) /\ (~t.severed => t.refs = Holders(t))
    BY <1>0, <1>t, StreamOfCaches DEF SameStream
  <2> QED
    BY <1>t, <2>1, TabHolds
<1>1. CASE Generate
  <2> DEFINE t == [tab EXCEPT !.posting = TRUE]
  <2>1. t \in Tabs /\ SameStream(t, tab) /\ t.severed = tab.severed /\ Tab(t, TRUE, wire)
    BY <1>0, <1>1 DEF Generate, Tabs, SameStream
  <2> HIDE DEF t
  <2> QED
    BY <1>t, <2>1
<1>2. CASE Accept
  <2> DEFINE u == [tab EXCEPT !.posting = FALSE, !.accepted = TRUE]
             t == Invalidated(u)
  <2>1. u \in Tabs /\ SameStream(u, tab) /\ u.severed = tab.severed
        /\ Learned(u) \in 0 .. MaxRuns /\ Observed(u) \in BOOLEAN
    BY <1>0, <1>f DEF Tabs, SameStream, Learned, Observed
  <2>2. Tab(t, TRUE, wire)
    BY <1>2 DEF Accept
  <2> HIDE DEF u
  <2> DEFINE l == IF u.screen = "gallery" THEN Listed ELSE u.list
             x == row.phase = "live"
             f == u.fetching \/ Observed(u)
  <2>5. l \in Phases /\ f \in BOOLEAN /\ u.detail \in Phases /\ x \in BOOLEAN
    BY <1>f, <2>1 DEF Tabs
  <2>6. t = Relisted(u, x, l, Learned(u), f)
    BY DEF Invalidated, Relisted
  <2> HIDE DEF t, l, f, x
  <2>3. t \in Tabs /\ SameStream(t, u) /\ t.severed = u.severed
    <3>1. u \in Tabs /\ u.detail \in Phases /\ l \in Phases /\ f \in BOOLEAN
          /\ Learned(u) \in 0 .. MaxRuns /\ x \in BOOLEAN
      BY <1>f, <2>1, <2>5
    <3> QED
      BY <2>6, <3>1, CachesTyped
  <2> HIDE DEF t
  <2>4. SameStream(t, tab)
    BY <2>1, <2>3 DEF SameStream
  <2> QED
    BY <1>t, <2>1, <2>2, <2>3, <2>4
<1>3. CASE PostFails
  <2> DEFINE t == [tab EXCEPT !.posting = FALSE]
  <2>1. t \in Tabs /\ SameStream(t, tab) /\ t.severed = tab.severed /\ Tab(t, TRUE, wire)
    BY <1>0, <1>3 DEF PostFails, Tabs, SameStream
  <2> HIDE DEF t
  <2> QED
    BY <1>t, <2>1
<1>4. CASE Receive
  <2> DEFINE c == Head(wire)
             d == IF Observed(tab) \/ tab.detail # "none" THEN c.phase ELSE tab.detail
             l == IF tab.list = "none" THEN tab.list ELSE c.phase
             n == IF Settled(c) THEN c.run ELSE tab.learned
             f == tab.fetching \/ (Observed(tab) /\ Settled(c))
             known == Merged(tab, d, l, n, f)
  <2>1. c \in Row
    BY <1>0, <1>4 DEF Receive
  <2>2. Tab(IF Settled(c) THEN Closing(known) ELSE known, FALSE, Tail(wire))
    BY <1>4 DEF Receive, Merged
  <2> HIDE DEF c
  <2>7. d \in Phases /\ l \in Phases /\ n \in 0 .. MaxRuns /\ f \in BOOLEAN
    BY <1>0, <1>f, <2>1 DEF Tabs, Row
  <2>3. known \in Tabs /\ SameStream(known, tab) /\ known.severed = tab.severed
    <3> HIDE DEF d, l, n, f
    <3> QED
      BY <1>0, <1>f, <2>7, CachesTyped
  <2>4. /\ known.accepted = tab.accepted /\ known.screen = tab.screen
        /\ known.detail = d /\ known.list = l
    <3> HIDE DEF d, l, n, f
    <3> QED
      BY <1>0, <2>7, CachesTyped
  <2> HIDE DEF known
  <2>5. CASE Settled(c)
    <3>1. (known.accepted => known.detail = "settled") /\ ~ShownLive(known)
      BY <2>4, <2>5 DEF Settled, Observed, ShownLive
    <3> QED
      BY <2>2, <2>3, <2>5, <3>1, ClosingHolds
  <2>6. CASE ~Settled(c)
    BY <1>t, <2>2, <2>3, <2>6
  <2> QED
    BY <2>5, <2>6
<1>5. CASE FetchDetail
  <2> DEFINE t == [tab EXCEPT !.fetching = FALSE, !.detail = Fetched(tab),
                              !.learned = Learned(tab)]
  <2>1. t \in Tabs /\ SameStream(t, tab) /\ t.severed = tab.severed
    BY <1>0, <1>f DEF Tabs, SameStream
  <2>2. Tab(t, FALSE, wire)
    BY <1>5 DEF FetchDetail
  <2> HIDE DEF t
  <2> QED
    BY <1>t, <2>1, <2>2
<1>6. CASE Navigate
  <2>1. PICK t \in {[tab EXCEPT !.screen = "gallery", !.list = row.phase],
                    [tab EXCEPT !.screen = "page", !.fetching = TRUE],
                    [tab EXCEPT !.screen = "elsewhere", !.list = "none"]} : Tab(t, FALSE, wire)
    BY <1>6 DEF Navigate
  <2>2. t \in Tabs /\ SameStream(t, tab) /\ t.severed = tab.severed
    <3>1. t \in Tabs
      BY <1>0, <1>f, <2>1 DEF Tabs
    <3> QED
      BY <1>0, <2>1, <3>1 DEF Tabs, SameStream
  <2> QED
    BY <1>t, <2>1, <2>2
<1>7. ASSUME tab' = tab PROVE Held'
  BY <1>7 DEF Held, Holders, ShownLive
<1>8. CASE Progress \/ Settle \/ Delete \/ Fanout \/ Listen \/ DropListen \/ Subscribe \/ Wake \/ Send
           \/ Beat \/ ReadFails \/ Cut \/ Connect \/ Refuse \/ SignedOut \/ UNCHANGED vars
  BY <1>7, <1>8 DEF Progress, Settle, Delete, Fanout, Listen, DropListen, Subscribe, Wake, Send,
                    Beat, ReadFails, Cut, Connect, Refuse, SignedOut, vars
<1> QED
  BY <1>1, <1>2, <1>3, <1>4, <1>5, <1>6, <1>8 DEF Next, Watcher, Handler, Connection, Answer

\* While the tab knows a cover to be running that it was granted or shows, its stream is
\* open and counts every surface that watches it, for a tab loaded in mid-generation too,
\* until a terminal snapshot has closed the stream under a root that holds on.
THEOREM RunningStaysWatched == Spec => []RunningIsWatched
<1>1. Types /\ Held => RunningIsWatched
  <2> SUFFICES ASSUME Types, Held, Observed(tab), tab.detail = "live", ~tab.severed
               PROVE  tab.open /\ tab.refs = Holders(tab)
    BY DEF RunningIsWatched
  <2>1. tab.refs = Holders(tab) /\ Counted(tab)
    BY DEF Held, Types, Stream
  <2>2. tab.root \/ tab.shown
    BY DEF Held, Observed, ShownLive
  <2> QED
    BY <2>1, <2>2 DEF Holders, Counted
<1>2. Spec => []Held
  <2>1. Types /\ Held /\ [Next]_vars => Held'
    BY HeldNext
  <2> QED
    BY <2>1, HeldInit, TypesAlways, PTL DEF Spec
<1> QED
  BY <1>1, <1>2, TypesAlways, PTL
=============================================================================
