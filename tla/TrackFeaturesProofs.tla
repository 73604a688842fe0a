------------------------ MODULE TrackFeaturesProofs -------------------------
(***************************************************************************)
(* What a lookup of features may rely on, for any number of lookups,       *)
(* builds, tracks and repeated songs: searches of a process are paced, an  *)
(* outage is never taken for an answer, and every occurrence of a song is  *)
(* answered alike.                                                         *)
(***************************************************************************)
EXTENDS TrackFeatures, TLAPS

-----------------------------------------------------------------------------
(* Sequences. *)

LEMMA AppendAt ==
    ASSUME NEW S, NEW s \in Seq(S), NEW x \in S
    PROVE  /\ Append(s, x) \in Seq(S) /\ Len(s) \in Nat /\ Len(Append(s, x)) = Len(s) + 1
           /\ \A n \in 1 .. Len(s) : Append(s, x)[n] = s[n] /\ s[n] \in S
           /\ Append(s, x)[Len(s) + 1] = x
  OBVIOUS

LEMMA TailAt ==
    ASSUME NEW S, NEW s \in Seq(S), s # <<>>
    PROVE  /\ Tail(s) \in Seq(S) /\ Len(s) \in Nat \ {0} /\ Len(Tail(s)) = Len(s) - 1
           /\ \A n \in 1 .. Len(s) - 1 : n + 1 \in 1 .. Len(s) /\ Tail(s)[n] = s[n + 1]
           /\ 1 \in 1 .. Len(s) /\ Head(s) = s[1] /\ s[1] \in S
  OBVIOUS

-----------------------------------------------------------------------------
(* One lookup.  Its record says everything the answers depend on: what is still to be *)
(* searched or fetched has no answer yet, and no two of those are of one song.        *)

Answer == [found : Found \cup {"none"}, version : Builds \cup {0}]
Queued == [index : Positions, matched : BOOLEAN]
Entry == [found : Found \cup {"none"}, at : 0 .. Horizon]
Lookup == [pc : {"idle", "looking", "done"}, todo : SUBSET Positions,
           search : {"queue", "slot", "asking"}, until : LongAgo .. Horizon + Interval,
           queue : Seq(Queued), fresh : [Songs -> Entry], ended : BOOLEAN,
           out : [Positions -> Answer]]

\* A track that has no features, as far as the two services know.
Featureless(k) == Known[k] \in {"unmatched", "unanalysed"}

\* What was found stands in the queue as it is known.
QueueTrue(q) ==
    \A n \in 1 .. Len(q.queue) :
        q.queue[n].matched = (Known[Tracks[q.queue[n].index]] # "unmatched")

AbsenceTrue(q) ==
    /\ \A k \in Songs : q.fresh[k].found = "absent" => Featureless(k)
    /\ \A i \in Positions : q.out[i].found = "absent" => Featureless(Tracks[i])

\* Nothing is known yet of the song of index p.
Untouched(q, p) ==
    /\ q.fresh[Tracks[p]] = NothingLearned
    /\ \A i \in Positions : Tracks[i] = Tracks[p] => q.out[i] = NoAnswer

\* What is still to be looked up: one index of each song.
PendingApart(q) ==
    /\ \A p \in q.todo : Untouched(q, p)
    /\ \A n \in 1 .. Len(q.queue) : Untouched(q, q.queue[n].index)
    /\ \A p, r \in q.todo : Tracks[p] = Tracks[r] => p = r
    /\ \A m, n \in 1 .. Len(q.queue) :
          Tracks[q.queue[m].index] = Tracks[q.queue[n].index] => m = n
    /\ \A p \in q.todo, n \in 1 .. Len(q.queue) : Tracks[p] # Tracks[q.queue[n].index]

\* Answers are of the build or a later one, and those that differ are of a song that was
\* learned, whose answer the others will get.
OutAgrees(q, b) ==
    /\ \A i \in Positions : q.out[i].found # "none" => q.out[i].version >= b
    /\ \A i \in Positions :
          LET f == q.fresh[Tracks[i]] IN
          f # NothingLearned =>
              f.found \in Found /\ q.out[i] \in {NoAnswer, [found |-> f.found, version |-> b]}
    /\ \A i, j \in Positions :
          Tracks[i] = Tracks[j] /\ q.fresh[Tracks[i]] = NothingLearned => q.out[i] = q.out[j]

Agreed(q, b) ==
    \A i, j \in Positions :
        /\ q.out[i].found # "none" => q.out[i].version >= b
        /\ Tracks[i] = Tracks[j] => q.out[i] = q.out[j]

Fine(q, b) ==
    /\ q \in Lookup /\ QueueTrue(q) /\ AbsenceTrue(q)
    /\ q.pc # "looking" => q.todo = {} /\ q.queue = <<>>
    /\ q.pc = "looking" => PendingApart(q) /\ OutAgrees(q, b)
    /\ q.pc = "done" => Agreed(q, b)

LEMMA ConstantTypes ==
    /\ Positions \subseteq Nat /\ \A i \in Positions : Tracks[i] \in Songs
    /\ \A l \in Lookups : Build[l] \in Builds /\ Build[l] \in Nat \ {0}
    /\ 0 \in LongAgo .. Horizon + Interval /\ LongAgo \in LongAgo .. Horizon /\ LongAgo \in Int
    /\ NothingLearned \in Entry /\ NoAnswer \in Answer
<1>1. Positions \subseteq Nat /\ \A i \in Positions : Tracks[i] \in Songs
  BY LookupAssumption DEF Positions
<1>2. \A l \in Lookups : Build[l] \in Builds /\ Build[l] \in Nat \ {0}
  BY LookupAssumption DEF Builds
<1>3. 0 \in LongAgo .. Horizon + Interval /\ LongAgo \in LongAgo .. Horizon /\ LongAgo \in Int
  BY LookupAssumption DEF LongAgo
<1>4. 0 \in 0 .. Horizon
  BY LookupAssumption
<1>5. NothingLearned \in Entry /\ NoAnswer \in Answer
  BY <1>4 DEF NothingLearned, Entry, NoAnswer, Answer
<1> QED
  BY <1>1, <1>2, <1>3, <1>5

LEMMA IdleFine == ASSUME NEW b PROVE Fine(NotBegun, b)
<1>1. NotBegun \in Lookup
  <2>1. <<>> \in Seq(Queued)
    OBVIOUS
  <2>2. [k \in Songs |-> NothingLearned] \in [Songs -> Entry]
        /\ [i \in Positions |-> NoAnswer] \in [Positions -> Answer]
    BY ConstantTypes
  <2> QED
    BY <2>1, <2>2, ConstantTypes DEF NotBegun, Lookup
<1>2. NotBegun.pc = "idle" /\ NotBegun.todo = {} /\ NotBegun.queue = <<>> /\ Len(NotBegun.queue) = 0
  BY DEF NotBegun
<1>3. \A i \in Positions : NotBegun.out[i] = NoAnswer
  BY DEF NotBegun
<1>4. \A k \in Songs : NotBegun.fresh[k] = NothingLearned
  BY DEF NotBegun
<1>5. AbsenceTrue(NotBegun)
  BY <1>3, <1>4 DEF AbsenceTrue, NoAnswer, NothingLearned
<1>6. QueueTrue(NotBegun)
  BY <1>2 DEF QueueTrue
<1> QED
  BY <1>1, <1>2, <1>5, <1>6 DEF Fine

\* The indexes chosen are unanswered, and the first of their song.
LEMMA PendingFirst ==
    ASSUME NEW answered
    PROVE  /\ Pending(answered) \subseteq Positions
           /\ \A p \in Pending(answered) :
                p \notin answered /\ \A j \in 1 .. p - 1 : Tracks[j] # Tracks[p]
           /\ \A p, r \in Pending(answered) : Tracks[p] = Tracks[r] => p = r
<1>1. \A p \in Pending(answered) :
        p \in Positions /\ p \notin answered /\ \A j \in 1 .. p - 1 : Tracks[j] # Tracks[p]
  BY DEF Pending
<1>2. ASSUME NEW p \in Pending(answered), NEW r \in Pending(answered), Tracks[p] = Tracks[r]
      PROVE  p = r
  <2>1. p \in Nat \ {0} /\ r \in Nat \ {0}
    BY <1>1, LookupAssumption DEF Positions
  <2>2. ~(p < r) /\ ~(r < p)
    BY <1>1, <1>2, <2>1
  <2> QED
    BY <2>1, <2>2
<1> QED
  BY <1>1, <1>2

\* The table: no row of a song says it has no features unless it has none.
RowsTrue ==
    /\ rows \in [Songs -> [found : Found \cup {"none"}, version : Builds \cup {0}, at : 0 .. Horizon]]
    /\ \A k \in Songs : rows[k].found = "absent" => Featureless(k)

\* What a lookup holds after its one query.
Started(answered) ==
    [NotBegun EXCEPT !.pc = "looking", !.todo = Pending(answered),
        !.out = [i \in Positions |-> IF i \in answered
                 THEN [found |-> CachedRow(Tracks[i]).found, version |-> CachedRow(Tracks[i]).version]
                 ELSE NoAnswer]]

LEMMA AnswerIs ==
    ASSUME NEW f \in Found \cup {"none"}, NEW v \in Builds \cup {0}
    PROVE  [found |-> f, version |-> v] \in Answer
  BY DEF Answer

LEMMA StartedFine ==
    ASSUME RowsTrue, NEW l \in Lookups, NEW answered,
           answered = {} \/ answered = {i \in Positions : FreshRow(CachedRow(Tracks[i]), Build[l])}
    PROVE  Fine(Started(answered), Build[l])
<1> DEFINE q == Started(answered)
           F == [k \in Songs |-> NothingLearned]
           O == [i \in Positions |-> IF i \in answered
                 THEN [found |-> CachedRow(Tracks[i]).found, version |-> CachedRow(Tracks[i]).version]
                 ELSE NoAnswer]
           T == Pending(answered)
<1>0. q = [NotBegun EXCEPT !.pc = "looking", !.todo = T, !.out = O]
  BY DEF Started
<1>i. NotBegun = [pc |-> "idle", todo |-> {}, search |-> "queue", until |-> 0, queue |-> <<>>,
              fresh |-> F, ended |-> FALSE, out |-> [i \in Positions |-> NoAnswer]]
  BY DEF NotBegun
<1> HIDE DEF q, F, O, T
<1>1. /\ q = [pc |-> "looking", todo |-> T, search |-> "queue", until |-> 0, queue |-> <<>>,
              fresh |-> F, ended |-> FALSE, out |-> O]
      /\ q.pc = "looking" /\ q.todo = T /\ q.queue = <<>> /\ q.fresh = F /\ q.out = O
  BY <1>0, <1>i
<1>2. \A i \in Positions : i \in answered => FreshRow(CachedRow(Tracks[i]), Build[l])
  OBVIOUS
<1>3. \A i, j \in Positions : Tracks[i] = Tracks[j] => (i \in answered <=> j \in answered)
  OBVIOUS
<1>r. \A i \in Positions :
        /\ rows[Tracks[i]].found \in Found \cup {"none"}
        /\ rows[Tracks[i]].version \in Builds \cup {0}
  BY ConstantTypes DEF RowsTrue
<1>a. \A i \in answered :
        q.out[i] = [found |-> rows[Tracks[i]].found, version |-> rows[Tracks[i]].version]
  BY <1>1 DEF CachedRow, O
<1>4. /\ \A i \in answered : /\ q.out[i].found = rows[Tracks[i]].found
                              /\ q.out[i].version = rows[Tracks[i]].version
      /\ \A i \in Positions \ answered : q.out[i] = NoAnswer
  BY <1>1, <1>a DEF O
<1>o. \A i \in Positions : q.out[i] \in Answer
  <2>1. ASSUME NEW i \in answered PROVE q.out[i] \in Answer
    <3>1. i \in Positions
      OBVIOUS
    <3> QED
      BY <1>r, <1>a, <3>1, AnswerIs, ZenonT(40)
  <2>2. ASSUME NEW i \in Positions, i \notin answered PROVE q.out[i] \in Answer
    BY <1>4, <2>2, ConstantTypes
  <2> QED
    BY <2>1, <2>2
<1>5. q \in Lookup
  <2>1. O \in [Positions -> Answer]
    BY <1>1, <1>o DEF O
  <2>2. <<>> \in Seq(Queued) /\ F \in [Songs -> Entry] /\ T \in SUBSET Positions
    BY ConstantTypes, PendingFirst DEF F, T
  <2> QED
    BY <1>1, <2>1, <2>2, ConstantTypes DEF Lookup
<1>6. Len(q.queue) = 0 /\ QueueTrue(q)
  BY <1>1 DEF QueueTrue
<1>7. \A k \in Songs : q.fresh[k] = NothingLearned
  BY <1>1 DEF F
<1>8. AbsenceTrue(q)
  <2>1. \A k \in Songs : q.fresh[k].found = "none"
    BY <1>7 DEF NothingLearned
  <2>2. \A i \in Positions : q.out[i].found = "absent" => i \in answered
    BY <1>4 DEF NoAnswer
  <2>3. \A i \in Positions : q.out[i].found = "absent" => Featureless(Tracks[i])
    BY <1>4, <2>2, ConstantTypes DEF RowsTrue
  <2> QED
    BY <2>1, <2>3 DEF AbsenceTrue
<1>9. PendingApart(q)
  <2>1. ASSUME NEW p \in q.todo PROVE Untouched(q, p)
    <3>1. p \in Positions /\ p \notin answered
      BY <1>1, <2>1, PendingFirst DEF T
    <3>2. ASSUME NEW i \in Positions, Tracks[i] = Tracks[p] PROVE q.out[i] = NoAnswer
      BY <1>3, <1>4, <3>1, <3>2
    <3> QED
      BY <1>7, <3>1, <3>2, ConstantTypes DEF Untouched
  <2>2. \A p, r \in q.todo : Tracks[p] = Tracks[r] => p = r
    BY <1>1, PendingFirst DEF T
  <2>3. 1 .. Len(q.queue) = {}
    BY <1>6
  <2> QED
    BY <2>1, <2>2, <2>3 DEF PendingApart
<1>10. OutAgrees(q, Build[l])
  <2>1. ASSUME NEW i \in Positions, q.out[i].found # "none" PROVE q.out[i].version >= Build[l]
    <3>1. i \in answered
      <4>1. NoAnswer.found = "none"
        BY DEF NoAnswer
      <4> QED
        BY <1>4, <2>1, <4>1
    <3>2. rows[Tracks[i]].version >= Build[l]
      BY <1>2, <3>1 DEF FreshRow, CachedRow
    <3> QED
      BY <1>4, <3>1, <3>2
  <2>2. ASSUME NEW i \in Positions, NEW j \in Positions, Tracks[i] = Tracks[j]
        PROVE  q.out[i] = q.out[j]
    <3>1. CASE i \in answered
      BY <1>3, <1>a, <2>2, <3>1
    <3>2. CASE i \notin answered
      BY <1>3, <1>4, <2>2, <3>2
    <3> QED
      BY <3>1, <3>2
  <2>3. \A i \in Positions : q.fresh[Tracks[i]] = NothingLearned
    BY <1>7, ConstantTypes
  <2> QED
    BY <2>1, <2>2, <2>3 DEF OutAgrees
<1> QED
  BY <1>1, <1>5, <1>6, <1>8, <1>9, <1>10 DEF Fine, q

\* A step that leaves alone what the answers depend on.
LEMMA FineKept ==
    ASSUME NEW b, NEW q, Fine(q, b), NEW r \in Lookup,
           r.queue = q.queue, r.fresh = q.fresh, r.out = q.out, r.pc = q.pc,
           r.todo \subseteq q.todo
    PROVE  Fine(r, b)
<1>1. QueueTrue(r) /\ AbsenceTrue(r)
  BY DEF Fine, QueueTrue, AbsenceTrue
<1>2. q.pc = "looking" => PendingApart(r)
  BY DEF Fine, PendingApart, Untouched
<1>3. OutAgrees(q, b) => OutAgrees(r, b)
  BY DEF OutAgrees
<1>4. Agreed(q, b) => Agreed(r, b)
  BY DEF Agreed
<1>5. r.pc # "looking" => r.todo = {} /\ r.queue = <<>>
  BY DEF Fine
<1> QED
  BY <1>1, <1>2, <1>3, <1>4, <1>5 DEF Fine

\* A search that went well moves its index from the list to the queue.
LEMMA ResolvedFine ==
    ASSUME NEW b, NEW q, Fine(q, b), NEW i \in q.todo
    PROVE  Fine([q EXCEPT !.todo = @ \ {i}, !.search = "queue",
                   !.queue = Append(@, [index |-> i, matched |-> Known[Tracks[i]] # "unmatched"])], b)
<1> DEFINE c == [index |-> i, matched |-> Known[Tracks[i]] # "unmatched"]
           r == [q EXCEPT !.todo = @ \ {i}, !.search = "queue", !.queue = Append(@, c)]
           N == Len(q.queue)
<1>1. q \in Lookup /\ i \in Positions /\ q.pc = "looking" /\ PendingApart(q) /\ OutAgrees(q, b)
  BY DEF Fine, Lookup
<1>2. c \in Queued /\ c.index = i /\ c.matched = (Known[Tracks[i]] # "unmatched")
  BY <1>1 DEF Queued
<1>3. /\ r.todo = q.todo \ {i} /\ r.queue = Append(q.queue, c) /\ r.search = "queue"
      /\ r.pc = q.pc /\ r.fresh = q.fresh /\ r.out = q.out
  BY <1>1 DEF Lookup
<1> HIDE DEF c
<1>4. /\ Append(q.queue, c) \in Seq(Queued) /\ N \in Nat /\ Len(Append(q.queue, c)) = N + 1
      /\ \A n \in 1 .. N : Append(q.queue, c)[n] = q.queue[n] /\ q.queue[n] \in Queued
      /\ Append(q.queue, c)[N + 1] = c
  <2>1. q.queue \in Seq(Queued)
    BY <1>1 DEF Lookup
  <2> QED
    BY <2>1, <1>2, AppendAt
<1>5. r \in Lookup
  BY <1>1, <1>4 DEF Lookup
<1> HIDE DEF r
<1>6. /\ Len(r.queue) = N + 1 /\ r.queue[N + 1] = c
      /\ \A n \in 1 .. N : r.queue[n] = q.queue[n]
      /\ \A n \in 1 .. N + 1 : n \in 1 .. N \/ n = N + 1
  BY <1>3, <1>4
<1>7. QueueTrue(r)
  <2>1. \A n \in 1 .. N : q.queue[n].matched = (Known[Tracks[q.queue[n].index]] # "unmatched")
    BY DEF Fine, QueueTrue
  <2>2. \A n \in 1 .. N + 1 :
          r.queue[n].matched = (Known[Tracks[r.queue[n].index]] # "unmatched")
    BY <1>2, <1>6, <2>1
  <2> QED
    BY <1>6, <2>2 DEF QueueTrue
<1>8. AbsenceTrue(r)
  BY <1>3 DEF Fine, AbsenceTrue
<1>9. \A p \in Positions : Untouched(q, p) => Untouched(r, p)
  BY <1>3 DEF Untouched
<1>10. PendingApart(r)
  <2>1. \A p \in r.todo : p \in q.todo /\ p # i /\ p \in Positions
    BY <1>1, <1>3 DEF Lookup
  <2>2. \A n \in 1 .. N : q.queue[n].index \in Positions
    BY <1>4 DEF Queued
  <2>3. \A p \in r.todo : Untouched(r, p)
    BY <1>1, <1>9, <2>1 DEF PendingApart
  <2>4. \A n \in 1 .. N + 1 : Untouched(r, r.queue[n].index)
    BY <1>1, <1>2, <1>6, <1>9, <2>2 DEF PendingApart
  <2>5. \A p, s \in r.todo : Tracks[p] = Tracks[s] => p = s
    BY <1>1, <2>1 DEF PendingApart
  <2>6. ASSUME NEW m \in 1 .. N + 1, NEW n \in 1 .. N + 1,
               Tracks[r.queue[m].index] = Tracks[r.queue[n].index]
        PROVE  m = n
    <3>a. \A x, y \in 1 .. N : Tracks[q.queue[x].index] = Tracks[q.queue[y].index] => x = y
      BY <1>1 DEF PendingApart
    <3>b. \A x \in 1 .. N : Tracks[q.queue[x].index] # Tracks[i]
      BY <1>1 DEF PendingApart
    <3>1. CASE m \in 1 .. N /\ n \in 1 .. N
      BY <1>6, <2>6, <3>1, <3>a
    <3>2. CASE m \in 1 .. N /\ n = N + 1
      BY <1>2, <1>6, <2>6, <3>2, <3>b
    <3>3. CASE m = N + 1 /\ n \in 1 .. N
      BY <1>2, <1>6, <2>6, <3>3, <3>b
    <3> QED
      BY <1>6, <3>1, <3>2, <3>3
  <2>7. \A p \in r.todo, n \in 1 .. N + 1 : Tracks[p] # Tracks[r.queue[n].index]
    BY <1>1, <1>2, <1>6, <2>1 DEF PendingApart
  <2> QED
    BY <1>6, <2>3, <2>4, <2>5, <2>6, <2>7 DEF PendingApart
<1>11. OutAgrees(r, b)
  BY <1>1, <1>3 DEF OutAgrees
<1>12. Fine(r, b)
  BY <1>1, <1>3, <1>5, <1>7, <1>8, <1>10, <1>11 DEF Fine
<1> QED
  BY <1>12 DEF r, c

\* A track is passed over: its candidate leaves the queue.
LEMMA PassedFine ==
    ASSUME NEW b, NEW q, Fine(q, b), q.queue # <<>>
    PROVE  Fine([q EXCEPT !.queue = Tail(@)], b)
<1> DEFINE r == [q EXCEPT !.queue = Tail(@)]
           N == Len(q.queue) - 1
<1>1. q \in Lookup /\ q.pc = "looking" /\ PendingApart(q) /\ OutAgrees(q, b)
  BY DEF Fine
<1>2. /\ Tail(q.queue) \in Seq(Queued) /\ N \in Nat /\ Len(q.queue) = N + 1 /\ Len(Tail(q.queue)) = N
      /\ \A n \in 1 .. N : n + 1 \in 1 .. N + 1 /\ Tail(q.queue)[n] = q.queue[n + 1]
  <2>1. q.queue \in Seq(Queued)
    BY <1>1 DEF Lookup
  <2>2. /\ Tail(q.queue) \in Seq(Queued) /\ Len(q.queue) \in Nat \ {0} /\ Len(Tail(q.queue)) = N
        /\ \A n \in 1 .. N : n + 1 \in 1 .. Len(q.queue) /\ Tail(q.queue)[n] = q.queue[n + 1]
    BY <2>1, TailAt
  <2>3. N \in Nat /\ Len(q.queue) = N + 1
    BY <2>2
  <2> QED
    BY <2>2, <2>3
<1>3. /\ r.queue = Tail(q.queue) /\ r.todo = q.todo /\ r.pc = q.pc
      /\ r.fresh = q.fresh /\ r.out = q.out /\ r \in Lookup
  BY <1>1, <1>2 DEF Lookup
<1> HIDE DEF r, N
<1>4. QueueTrue(r)
  <2>1. \A n \in 1 .. N + 1 :
          q.queue[n].matched = (Known[Tracks[q.queue[n].index]] # "unmatched")
    BY <1>2 DEF Fine, QueueTrue
  <2> QED
    BY <1>2, <1>3, <2>1 DEF QueueTrue
<1>5. AbsenceTrue(r)
  BY <1>3 DEF Fine, AbsenceTrue
<1>6. \A p : Untouched(q, p) => Untouched(r, p)
  BY <1>3 DEF Untouched
<1>7. PendingApart(r)
  <2>1. /\ \A p \in r.todo : Untouched(r, p)
        /\ \A p, s \in r.todo : Tracks[p] = Tracks[s] => p = s
    BY <1>1, <1>3, <1>6 DEF PendingApart
  <2>2. \A n \in 1 .. N : Untouched(r, r.queue[n].index)
    BY <1>1, <1>2, <1>3, <1>6 DEF PendingApart
  <2>3. ASSUME NEW m \in 1 .. N, NEW n \in 1 .. N,
               Tracks[r.queue[m].index] = Tracks[r.queue[n].index]
        PROVE  m = n
    <3>a. \A x, y \in 1 .. N + 1 : Tracks[q.queue[x].index] = Tracks[q.queue[y].index] => x = y
      BY <1>1, <1>2 DEF PendingApart
    <3>1. m + 1 = n + 1
      BY <1>2, <1>3, <2>3, <3>a
    <3> QED
      BY <3>1
  <2>4. \A p \in r.todo, n \in 1 .. N : Tracks[p] # Tracks[r.queue[n].index]
    BY <1>1, <1>2, <1>3 DEF PendingApart
  <2> QED
    BY <1>2, <1>3, <2>1, <2>2, <2>3, <2>4 DEF PendingApart
<1>8. OutAgrees(r, b)
  BY <1>1, <1>3 DEF OutAgrees
<1>9. Fine(r, b)
  BY <1>1, <1>3, <1>4, <1>5, <1>7, <1>8 DEF Fine
<1> QED
  BY <1>9 DEF r

\* A fetch that answers says what is known of the track, whose song it is the first to
\* answer for.
LEMMA LearnedFine ==
    ASSUME NEW b \in Builds \cap Nat, NEW q, Fine(q, b), q.queue # <<>>, time \in 1 .. Horizon,
           NEW i, i = Head(q.queue).index,
           NEW found \in features(Tracks[i], Head(q.queue).matched)
    PROVE  Fine([q EXCEPT !.queue = Tail(@), !.out[i] = [found |-> found, version |-> b],
                   !.fresh[Tracks[i]] =
                       IF @ = NothingLearned THEN [found |-> found, at |-> time] ELSE @], b)
<1> DEFINE p == [q EXCEPT !.queue = Tail(@)]
           k == Tracks[i]
           a == [found |-> found, version |-> b]
           e == [found |-> found, at |-> time]
           r == [p EXCEPT !.out[i] = a, !.fresh[k] = e]
<1>1. q \in Lookup /\ q.pc = "looking" /\ PendingApart(q) /\ QueueTrue(q)
  BY DEF Fine
<1>2. /\ 1 \in 1 .. Len(q.queue) /\ Head(q.queue) = q.queue[1] /\ q.queue[1] \in Queued
      /\ Len(q.queue) \in Nat \ {0}
  <2>1. q.queue \in Seq(Queued)
    BY <1>1 DEF Lookup
  <2> QED
    BY <2>1, TailAt
<1>3. i \in Positions /\ k \in Songs /\ i = q.queue[1].index
  BY <1>2, ConstantTypes DEF Queued
<1>4. Untouched(q, i) /\ q.fresh[k] = NothingLearned
  BY <1>1, <1>2, <1>3 DEF PendingApart, Untouched
<1>5. found \in Found /\ (found = "absent" => Featureless(k))
  <2>1. Head(q.queue).matched = (Known[k] # "unmatched")
    BY <1>1, <1>2, <1>3 DEF QueueTrue
  <2>2. Known[k] \in {"unmatched", "unanalysed", "plain", "full"}
    BY <1>3, LookupAssumption
  <2> QED
    BY <2>1, <2>2 DEF features, Found, Featureless
<1>6. Fine(p, b)
  BY PassedFine
<1>7. /\ p \in Lookup /\ p.pc = "looking" /\ p.out = q.out /\ p.fresh = q.fresh /\ p.todo = q.todo
      /\ p.queue = Tail(q.queue)
  BY <1>1, <1>6 DEF Fine, Lookup
\* No other index of the song is still to be looked up.
<1>8. /\ \A t \in p.todo : Tracks[t] # k /\ t \in Positions
      /\ \A n \in 1 .. Len(p.queue) : Tracks[p.queue[n].index] # k /\ p.queue[n].index \in Positions
  <2>1. q.queue \in Seq(Queued)
    BY <1>1 DEF Lookup
  <2>2. /\ Tail(q.queue) \in Seq(Queued) /\ Len(Tail(q.queue)) = Len(q.queue) - 1
        /\ \A n \in 1 .. Len(q.queue) - 1 : n + 1 \in 1 .. Len(q.queue) /\ Tail(q.queue)[n] = q.queue[n + 1]
    BY <2>1, TailAt
  <2>3. ASSUME NEW n \in 1 .. Len(p.queue)
        PROVE  Tracks[p.queue[n].index] # k /\ p.queue[n].index \in Positions
    <3>1. n + 1 \in 1 .. Len(q.queue) /\ p.queue[n] = q.queue[n + 1] /\ n + 1 # 1
      BY <1>7, <2>2
    <3>2. q.queue[n + 1] \in Queued
      BY <2>1, <3>1
    <3>3. \A x, y \in 1 .. Len(q.queue) :
            Tracks[q.queue[x].index] = Tracks[q.queue[y].index] => x = y
      BY <1>1 DEF PendingApart
    <3> QED
      BY <1>2, <1>3, <3>1, <3>2, <3>3 DEF Queued
  <2>4. \A t \in p.todo : Tracks[t] # k /\ t \in Positions
    <3>1. q.todo \subseteq Positions /\ p.todo = q.todo
      BY <1>1, <1>7 DEF Lookup
    <3>2. \A t \in q.todo : Tracks[t] # Tracks[q.queue[1].index]
      BY <1>1, <1>2 DEF PendingApart
    <3> QED
      BY <1>3, <3>1, <3>2
  <2> QED
    BY <2>3, <2>4
<1>9. a \in Answer /\ e \in Entry /\ a.found = found /\ a.version = b /\ e.found = found
      /\ e # NothingLearned /\ a.found # "none"
  BY <1>5, LookupAssumption DEF Answer, Entry, NothingLearned, Found
<1> HIDE DEF p, a, e, k
<1>10. /\ r \in Lookup /\ r.pc = "looking" /\ r.todo = p.todo /\ r.queue = p.queue
       /\ \A j \in Positions : r.out[j] = IF j = i THEN a ELSE q.out[j]
       /\ \A c \in Songs : r.fresh[c] = IF c = k THEN e ELSE q.fresh[c]
  <2>1. [p.out EXCEPT ![i] = a] \in [Positions -> Answer] /\ [p.fresh EXCEPT ![k] = e] \in [Songs -> Entry]
    BY <1>7, <1>9 DEF Lookup
  <2>2. r = [p EXCEPT !.out = [p.out EXCEPT ![i] = a], !.fresh = [p.fresh EXCEPT ![k] = e]]
    BY <1>7 DEF Lookup
  <2>3. /\ r \in Lookup /\ r.pc = p.pc /\ r.todo = p.todo /\ r.queue = p.queue
        /\ r.out = [p.out EXCEPT ![i] = a] /\ r.fresh = [p.fresh EXCEPT ![k] = e]
    BY <1>7, <2>1, <2>2 DEF Lookup
  <2>4. p.out \in [Positions -> Answer] /\ p.fresh \in [Songs -> Entry]
    BY <1>7 DEF Lookup
  <2> QED
    BY <1>7, <2>3, <2>4
<1>11. r = [q EXCEPT !.queue = Tail(@), !.out[i] = a,
                     !.fresh[k] = IF @ = NothingLearned THEN e ELSE @]
  BY <1>1, <1>4 DEF p, Lookup
<1> HIDE DEF r
<1>12. QueueTrue(r)
  BY <1>6, <1>10 DEF Fine, QueueTrue
<1>13. AbsenceTrue(r)
  <2>1. AbsenceTrue(q)
    BY DEF Fine
  <2>2. \A c \in Songs : r.fresh[c].found = "absent" => Featureless(c)
    BY <1>5, <1>9, <1>10, <2>1 DEF AbsenceTrue
  <2>3. \A j \in Positions : r.out[j].found = "absent" => Featureless(Tracks[j])
    BY <1>5, <1>9, <1>10, <2>1 DEF AbsenceTrue, k
  <2> QED
    BY <2>2, <2>3 DEF AbsenceTrue
<1>14. PendingApart(r)
  <2>1. PendingApart(p)
    BY <1>6, <1>7 DEF Fine
  <2>2. ASSUME NEW t \in Positions, Tracks[t] # k, Untouched(p, t) PROVE Untouched(r, t)
    <3>1. Tracks[t] \in Songs
      BY ConstantTypes
    <3>2. r.fresh[Tracks[t]] = NothingLearned
      BY <1>7, <1>10, <2>2, <3>1 DEF Untouched
    <3>3. ASSUME NEW j \in Positions, Tracks[j] = Tracks[t] PROVE r.out[j] = NoAnswer
      <4>1. j # i
        BY <2>2, <3>3 DEF k
      <4> QED
        BY <1>7, <1>10, <2>2, <3>3, <4>1 DEF Untouched
    <3> QED
      BY <3>2, <3>3 DEF Untouched
  <2>3. \A t \in r.todo : Untouched(r, t)
    BY <1>8, <1>10, <2>1, <2>2 DEF PendingApart
  <2>4. \A n \in 1 .. Len(r.queue) : Untouched(r, r.queue[n].index)
    BY <1>8, <1>10, <2>1, <2>2 DEF PendingApart
  <2> QED
    BY <1>10, <2>1, <2>3, <2>4 DEF PendingApart
<1>15. OutAgrees(r, b)
  <2>1. OutAgrees(q, b)
    BY <1>1 DEF Fine
  <2>2. \A j \in Positions : r.out[j].found # "none" => r.out[j].version >= b
    BY <1>9, <1>10, <2>1 DEF OutAgrees
  <2>3. ASSUME NEW j \in Positions, r.fresh[Tracks[j]] # NothingLearned
        PROVE  /\ r.fresh[Tracks[j]].found \in Found
               /\ r.out[j] \in {NoAnswer, [found |-> r.fresh[Tracks[j]].found, version |-> b]}
    <3>1. CASE Tracks[j] = k
      <4>1. r.fresh[Tracks[j]] = e
        BY <1>3, <1>10, <3>1
      <4>2. q.out[j] = NoAnswer
        BY <1>4, <3>1 DEF Untouched, k
      <4>3. r.out[j] \in {NoAnswer, a}
        BY <1>10, <4>2
      <4> QED
        BY <1>5, <1>9, <4>1, <4>3 DEF a, e
    <3>2. CASE Tracks[j] # k
      <4>1. j # i
        BY <3>2 DEF k
      <4>2. r.fresh[Tracks[j]] = q.fresh[Tracks[j]] /\ r.out[j] = q.out[j]
        BY <1>10, <3>2, <4>1, ConstantTypes
      <4> QED
        BY <2>1, <2>3, <4>2 DEF OutAgrees
    <3> QED
      BY <3>1, <3>2
  <2>4. ASSUME NEW j \in Positions, NEW m \in Positions, Tracks[j] = Tracks[m],
               r.fresh[Tracks[j]] = NothingLearned
        PROVE  r.out[j] = r.out[m]
    <3>1. Tracks[j] # k /\ Tracks[j] \in Songs
      BY <1>3, <1>9, <1>10, <2>4, ConstantTypes
    <3>2. j # i /\ m # i
      BY <2>4, <3>1 DEF k
    <3>3. q.fresh[Tracks[j]] = NothingLearned
      BY <1>10, <2>4, <3>1
    <3> QED
      BY <1>10, <2>1, <2>4, <3>2, <3>3 DEF OutAgrees
  <2> QED
    BY <2>2, <2>3, <2>4 DEF OutAgrees
<1>16. Fine(r, b)
  BY <1>10, <1>12, <1>13, <1>14, <1>15 DEF Fine
<1> QED
  BY <1>11, <1>16 DEF a, e, k

\* The answers a lookup returns: of every song the same, once what was learned is filled in.
FilledOut(q, b) ==
    [i \in Positions |->
        IF q.out[i].found \in {"plain", "full"} \/ q.fresh[Tracks[i]] = NothingLearned
        THEN q.out[i]
        ELSE [found |-> q.fresh[Tracks[i]].found, version |-> b]]

LEMMA FilledFine ==
    ASSUME NEW b \in Builds \cap Nat, NEW q, Fine(q, b), q.pc = "looking", q.todo = {}, q.queue = <<>>
    PROVE  Fine([q EXCEPT !.pc = "done", !.out = FilledOut(q, b)], b)
<1> DEFINE O == FilledOut(q, b)
           r == [q EXCEPT !.pc = "done", !.out = O]
           A(i) == [found |-> q.fresh[Tracks[i]].found, version |-> b]
<1>1. q \in Lookup /\ AbsenceTrue(q) /\ OutAgrees(q, b) /\ QueueTrue(q)
  BY DEF Fine
\* An answer learned for the song replaces none, or itself.
<1>2. ASSUME NEW i \in Positions
      PROVE  /\ q.fresh[Tracks[i]] = NothingLearned => O[i] = q.out[i]
             /\ q.fresh[Tracks[i]] # NothingLearned => O[i] = A(i) /\ A(i).found \in Found
  <2>1. O[i] = IF q.out[i].found \in {"plain", "full"} \/ q.fresh[Tracks[i]] = NothingLearned
               THEN q.out[i] ELSE A(i)
    BY DEF FilledOut
  <2>2. CASE q.fresh[Tracks[i]] = NothingLearned
    BY <2>1, <2>2
  <2>3. CASE q.fresh[Tracks[i]] # NothingLearned
    <3>1. q.out[i] \in {NoAnswer, A(i)} /\ q.fresh[Tracks[i]].found \in Found
      BY <1>1, <2>3 DEF OutAgrees
    <3>2. A(i).found = q.fresh[Tracks[i]].found
      OBVIOUS
    <3>3. NoAnswer.found \notin {"plain", "full"}
      BY DEF NoAnswer
    <3> HIDE DEF A, O
    <3>4. q.out[i] = A(i) => O[i] = A(i)
      BY <2>1
    <3>5. q.out[i] = NoAnswer => O[i] = A(i)
      BY <2>1, <2>3, <3>3
    <3> QED
      BY <2>3, <3>1, <3>2, <3>4, <3>5
  <2> QED
    BY <2>2, <2>3
<1>3. \A i \in Positions : A(i).found = q.fresh[Tracks[i]].found /\ A(i).version = b
  OBVIOUS
<1>4. \A i \in Positions : A(i).found \in Found => A(i) \in Answer
  BY AnswerIs
<1>5. \A i, j \in Positions : Tracks[i] = Tracks[j] => A(i) = A(j)
  OBVIOUS
<1>6. O \in [Positions -> Answer]
  <2>1. \A i \in Positions : q.out[i] \in Answer
    BY <1>1 DEF Lookup
  <2>2. \A i \in Positions : O[i] \in Answer
    <3> HIDE DEF A, O
    <3> QED
      BY <1>2, <1>4, <2>1
  <2> QED
    BY <2>2 DEF FilledOut
<1> HIDE DEF A, O
<1>7. /\ r \in Lookup /\ r.pc = "done" /\ r.todo = {} /\ r.queue = <<>> /\ r.out = O
      /\ r.fresh = q.fresh
  BY <1>1, <1>6 DEF Lookup
<1> HIDE DEF r
<1>8. QueueTrue(r)
  BY <1>1, <1>7 DEF QueueTrue
<1>9. AbsenceTrue(r)
  <2>1. \A i \in Positions : O[i].found = "absent" => Featureless(Tracks[i])
    BY <1>1, <1>2, <1>3, ConstantTypes DEF AbsenceTrue
  <2> QED
    BY <1>1, <1>7, <2>1 DEF AbsenceTrue
<1>10. Agreed(r, b)
  <2>1. ASSUME NEW i \in Positions, O[i].found # "none" PROVE O[i].version >= b
    <3>1. CASE q.fresh[Tracks[i]] = NothingLearned
      BY <1>1, <1>2, <2>1, <3>1 DEF OutAgrees
    <3>2. CASE q.fresh[Tracks[i]] # NothingLearned
      BY <1>2, <1>3, <3>2
    <3> QED
      BY <3>1, <3>2
  <2>2. ASSUME NEW i \in Positions, NEW j \in Positions, Tracks[i] = Tracks[j] PROVE O[i] = O[j]
    <3>1. CASE q.fresh[Tracks[i]] = NothingLearned
      BY <1>1, <1>2, <2>2, <3>1 DEF OutAgrees
    <3>2. CASE q.fresh[Tracks[i]] # NothingLearned
      BY <1>2, <1>5, <2>2, <3>2
    <3> QED
      BY <3>1, <3>2
  <2> QED
    BY <1>7, <2>1, <2>2 DEF Agreed
<1>11. Fine(r, b)
  BY <1>7, <1>8, <1>9, <1>10 DEF Fine
<1> QED
  BY <1>11 DEF r, O

-----------------------------------------------------------------------------
(* The invariant. *)

LookupsFine == look \in [Lookups -> Lookup] /\ \A l \in Lookups : Fine(look[l], Build[l])
LimiterTyped == limiter \in [Builds -> [slot : Lookups \cup {Nobody}, last : LongAgo .. Horizon]]
AskedTyped == asked \in [Builds -> Seq(1 .. Horizon)]
FeaturesInv ==
    /\ RowsTrue /\ LookupsFine /\ LimiterTyped /\ AskedTyped
    /\ time \in 1 .. Horizon

LEMMA FeaturesInit == LookupInit => FeaturesInv
<1> SUFFICES ASSUME LookupInit PROVE FeaturesInv
  OBVIOUS
<1>1. RowsTrue
  <2>1. 0 \in 0 .. Horizon
    BY LookupAssumption
  <2>2. NoFeatures \in [found : Found \cup {"none"}, version : Builds \cup {0}, at : 0 .. Horizon]
        /\ NoFeatures.found # "absent"
    BY <2>1 DEF NoFeatures
  <2> QED
    BY <2>2 DEF LookupInit, RowsTrue
<1>2. LookupsFine
  <2>1. \A l \in Lookups : Fine(NotBegun, Build[l])
    BY IdleFine
  <2>2. Lookups # {} => NotBegun \in Lookup
    BY <2>1 DEF Fine
  <2> QED
    BY <2>1, <2>2 DEF LookupInit, LookupsFine
<1>3. LimiterTyped
  BY ConstantTypes DEF LookupInit, LimiterTyped
<1>4. AskedTyped
  BY DEF LookupInit, AskedTyped
<1>5. time \in 1 .. Horizon
  BY LookupAssumption DEF LookupInit
<1> QED
  BY <1>1, <1>2, <1>3, <1>4, <1>5 DEF FeaturesInv

\* One lookup moves, to a record that is fine.
LEMMA OneMoves ==
    ASSUME FeaturesInv, NEW l \in Lookups, NEW q, Fine(q, Build[l]), look' = [look EXCEPT ![l] = q]
    PROVE  LookupsFine'
  BY DEF FeaturesInv, LookupsFine, Fine

\* The rows that replace what is there are the lookup's answers, stamped by its build.
LEMMA UpsertedTrue ==
    ASSUME FeaturesInv, NEW l \in Lookups, look[l].pc = "looking", rows' = Rewritten(l)
    PROVE  RowsTrue'
<1> DEFINE q == look[l]
           R == [found : Found \cup {"none"}, version : Builds \cup {0}, at : 0 .. Horizon]
           E(k) == [found |-> q.fresh[k].found, version |-> Build[l], at |-> q.fresh[k].at]
<1>1. q \in Lookup /\ AbsenceTrue(q) /\ Build[l] \in Builds
  BY ConstantTypes DEF FeaturesInv, LookupsFine, Fine
<1>2. \A k \in Songs : rows'[k] = IF q.fresh[k] = NothingLearned THEN rows[k] ELSE E(k)
  BY DEF Rewritten
<1>3. ASSUME NEW k \in Songs PROVE E(k) \in R /\ E(k).found = q.fresh[k].found
  <2>1. q.fresh[k] \in Entry
    BY <1>1 DEF Lookup
  <2>2. q.fresh[k].found \in Found \cup {"none"} /\ q.fresh[k].at \in 0 .. Horizon
    BY <2>1 DEF Entry
  <2> HIDE DEF q
  <2> QED
    BY <1>1, <2>2
<1>4. \A k \in Songs : rows[k] \in R /\ (rows[k].found = "absent" => Featureless(k))
  BY DEF FeaturesInv, RowsTrue
<1>5. DOMAIN rows' = Songs /\ rows' = [k \in Songs |-> rows'[k]]
  BY DEF Rewritten
<1> HIDE DEF E, R, q
<1>6. \A k \in Songs : rows'[k] \in R /\ (rows'[k].found = "absent" => Featureless(k))
  BY <1>1, <1>2, <1>3, <1>4 DEF AbsenceTrue
<1> QED
  BY <1>5, <1>6 DEF RowsTrue, R

\* Every step of a lookup leaves its record fine, and the table true.
LEMMA FeaturesNext == FeaturesInv /\ [LookupNext]_lookupVars => FeaturesInv'
<1> SUFFICES ASSUME FeaturesInv, [LookupNext]_lookupVars PROVE FeaturesInv'
  OBVIOUS
<1>0. /\ RowsTrue /\ LookupsFine /\ LimiterTyped /\ AskedTyped /\ time \in 1 .. Horizon
      /\ look \in [Lookups -> Lookup]
  BY DEF FeaturesInv, LookupsFine
<1>f. \A l \in Lookups :
        look[l] \in Lookup /\ Fine(look[l], Build[l]) /\ Build[l] \in Builds \cap Nat
  BY ConstantTypes DEF FeaturesInv, LookupsFine
<1>r. UNCHANGED rows => RowsTrue'
  BY <1>0 DEF RowsTrue
<1>m. UNCHANGED limiter => LimiterTyped'
  BY <1>0 DEF LimiterTyped
<1>a. UNCHANGED asked => AskedTyped'
  BY <1>0 DEF AskedTyped
<1>k. UNCHANGED look => LookupsFine'
  BY <1>0 DEF LookupsFine
<1>1. ASSUME NEW l \in Lookups, FindMany(l) PROVE FeaturesInv'
  <2>1. PICK answered :
          /\ answered = {} \/ answered = {i \in Positions : FreshRow(CachedRow(Tracks[i]), Build[l])}
          /\ LookUp(l, answered)
    BY <1>1 DEF FindMany
  <2>2. look' = [look EXCEPT ![l] = Started(answered)]
    BY <2>1 DEF LookUp, Started
  <2>3. LookupsFine'
    BY <1>0, <2>1, <2>2, StartedFine, OneMoves
  <2> QED
    BY <1>0, <1>r, <1>m, <1>a, <1>1, <2>3 DEF FindMany, FeaturesInv
<1>2. ASSUME NEW l \in Lookups, Wait(l) PROVE FeaturesInv'
  <2> DEFINE q == [look[l] EXCEPT !.search = "slot", !.until = limiter[Build[l]].last + Interval]
             s == [limiter[Build[l]] EXCEPT !.slot = SlotHeld(l)]
  <2>1. limiter[Build[l]] \in [slot : Lookups \cup {Nobody}, last : LongAgo .. Horizon]
    BY <1>0, <1>f DEF LimiterTyped
  <2>2. limiter[Build[l]].last + Interval \in LongAgo .. Horizon + Interval
    BY <2>1, LookupAssumption DEF LongAgo
  <2>3. q \in Lookup /\ q.queue = look[l].queue /\ q.fresh = look[l].fresh /\ q.out = look[l].out
        /\ q.pc = look[l].pc /\ q.todo = look[l].todo
    BY <1>f, <2>2 DEF Lookup
  <2>4. look' = [look EXCEPT ![l] = q] /\ limiter' = [limiter EXCEPT ![Build[l]] = s]
    BY <1>0, <1>2 DEF Wait
  <2> HIDE DEF q
  <2>5. Fine(q, Build[l])
    BY <1>f, <2>3, FineKept
  <2>6. s \in [slot : Lookups \cup {Nobody}, last : LongAgo .. Horizon]
    BY <2>1 DEF SlotHeld
  <2>7. LimiterTyped'
    BY <1>0, <2>4, <2>6 DEF LimiterTyped
  <2> QED
    BY <1>0, <1>r, <1>a, <1>2, <2>4, <2>5, <2>7, OneMoves DEF Wait, FeaturesInv
<1>3. ASSUME NEW l \in Lookups, Proceed(l) PROVE FeaturesInv'
  <2> DEFINE q == [look[l] EXCEPT !.search = "asking"]
             s == [slot |-> Nobody, last |-> time]
  <2>1. q \in Lookup /\ q.queue = look[l].queue /\ q.fresh = look[l].fresh /\ q.out = look[l].out
        /\ q.pc = look[l].pc /\ q.todo = look[l].todo
    BY <1>f DEF Lookup
  <2>2. /\ look' = [look EXCEPT ![l] = q] /\ limiter' = [limiter EXCEPT ![Build[l]] = s]
        /\ asked' = [asked EXCEPT ![Build[l]] = Append(@, time)]
    BY <1>0, <1>3 DEF Proceed
  <2> HIDE DEF q
  <2>3. Fine(q, Build[l])
    BY <1>f, <2>1, FineKept
  <2>4. time \in LongAgo .. Horizon
    BY <1>0, LookupAssumption DEF LongAgo
  <2>5. LimiterTyped'
    BY <1>0, <2>2, <2>4 DEF LimiterTyped
  <2>6. AskedTyped'
    <3>1. Append(asked[Build[l]], time) \in Seq(1 .. Horizon)
      BY <1>0, <1>f, AppendAt DEF AskedTyped
    <3> QED
      BY <1>0, <2>2, <3>1 DEF AskedTyped
  <2> QED
    BY <1>0, <1>r, <1>3, <2>2, <2>3, <2>5, <2>6, OneMoves DEF Proceed, FeaturesInv
<1>4. ASSUME NEW l \in Lookups, StopSearching(l) PROVE FeaturesInv'
  <2> DEFINE q == [look[l] EXCEPT !.todo = {}]
  <2>1. q \in Lookup /\ q.queue = look[l].queue /\ q.fresh = look[l].fresh /\ q.out = look[l].out
        /\ q.pc = look[l].pc /\ q.todo = {}
    BY <1>f DEF Lookup
  <2>2. look' = [look EXCEPT ![l] = q]
    BY <1>0, <1>4 DEF StopSearching
  <2> HIDE DEF q
  <2>3. Fine(q, Build[l])
    BY <1>f, <2>1, FineKept
  <2>4. LimiterTyped'
    BY <1>0, <1>f, <1>4 DEF LimiterTyped, StopSearching
  <2> QED
    BY <1>0, <1>r, <1>a, <1>4, <2>2, <2>3, <2>4, OneMoves DEF StopSearching, FeaturesInv
<1>5. ASSUME NEW l \in Lookups, resolve(l) PROVE FeaturesInv'
  <2>1. PICK i \in Positions :
          /\ IsFirst(i, l)
          /\ look' = [look EXCEPT ![l].todo = @ \ {i}, ![l].search = "queue",
               ![l].queue = Append(@, [index |-> i, matched |-> Known[Tracks[i]] # "unmatched"])]
    BY <1>5 DEF resolve
  <2> DEFINE c == [index |-> i, matched |-> Known[Tracks[i]] # "unmatched"]
             q == [look[l] EXCEPT !.todo = @ \ {i}, !.search = "queue", !.queue = Append(@, c)]
  <2>2. Fine(q, Build[l])
    BY <1>f, <2>1, ResolvedFine DEF IsFirst
  <2>3. look' = [look EXCEPT ![l] = q]
    BY <1>0, <2>1
  <2> HIDE DEF q
  <2> QED
    BY <1>0, <1>r, <1>m, <1>a, <1>5, <2>2, <2>3, OneMoves DEF resolve, FeaturesInv
<1>6. ASSUME NEW l \in Lookups, ResolveFails(l) PROVE FeaturesInv'
  <2>1. PICK i \in Positions : look' = [look EXCEPT ![l].todo = @ \ {i}, ![l].search = "queue"]
    BY <1>6 DEF ResolveFails
  <2> DEFINE q == [look[l] EXCEPT !.todo = @ \ {i}, !.search = "queue"]
  <2>2. q \in Lookup /\ q.queue = look[l].queue /\ q.fresh = look[l].fresh /\ q.out = look[l].out
        /\ q.pc = look[l].pc /\ q.todo \subseteq look[l].todo
    BY <1>f DEF Lookup
  <2>3. look' = [look EXCEPT ![l] = q]
    BY <1>0, <2>1
  <2> HIDE DEF q
  <2>4. Fine(q, Build[l])
    BY <1>f, <2>2, FineKept
  <2> QED
    BY <1>0, <1>r, <1>m, <1>a, <1>6, <2>3, <2>4, OneMoves DEF ResolveFails, FeaturesInv
<1>7. ASSUME NEW l \in Lookups, Fetch(l) PROVE FeaturesInv'
  <2> DEFINE c == Head(look[l].queue)
             i == c.index
  <2>1. look[l].queue # <<>>
    BY <1>7 DEF Fetch
  <2>2. PICK found \in features(Tracks[i], c.matched) : Learned(l, i, found)
    BY <1>7 DEF Fetch
  <2> HIDE DEF c
  <2> DEFINE q == [look[l] EXCEPT !.queue = Tail(@), !.out[i] = [found |-> found, version |-> Build[l]],
                   !.fresh[Tracks[i]] =
                       IF @ = NothingLearned THEN [found |-> found, at |-> time] ELSE @]
  <2>3. Fine(q, Build[l])
    BY <1>0, <1>f, <2>1, <2>2, LearnedFine DEF c
  <2>4. look' = [look EXCEPT ![l] = q]
    BY <1>0, <2>2 DEF Learned
  <2> HIDE DEF q
  <2> QED
    BY <1>0, <1>r, <1>m, <1>a, <1>7, <2>3, <2>4, OneMoves DEF Fetch, FeaturesInv
<1>8. ASSUME NEW l \in Lookups, FetchFails(l) PROVE FeaturesInv'
  <2> DEFINE q == [look[l] EXCEPT !.queue = Tail(@)]
  <2>1. Fine(q, Build[l])
    BY <1>f, <1>8, PassedFine DEF FetchFails
  <2>2. look' = [look EXCEPT ![l] = q]
    BY <1>0, <1>8 DEF FetchFails, PassedOver
  <2> HIDE DEF q
  <2> QED
    BY <1>0, <1>r, <1>m, <1>a, <1>8, <2>1, <2>2, OneMoves DEF FetchFails, FeaturesInv
<1>9. ASSUME NEW l \in Lookups, SaveFeatures(l) PROVE FeaturesInv'
  <2> DEFINE q == [look[l] EXCEPT !.pc = "done", !.out = FilledOut(look[l], Build[l])]
  <2>1. look[l].pc = "looking" /\ look[l].todo = {} /\ look[l].queue = <<>>
    BY <1>9 DEF SaveFeatures, Reached
  <2>2. Filled(l) = FilledOut(look[l], Build[l])
    BY DEF Filled, FilledOut
  <2>3. look' = [look EXCEPT ![l] = q]
    BY <1>0, <1>9, <2>2 DEF SaveFeatures
  <2>4. Fine(q, Build[l])
    BY <1>f, <2>1, FilledFine
  <2> HIDE DEF q
  <2>5. RowsTrue'
    BY <1>r, <1>9, <2>1, UpsertedTrue DEF SaveFeatures
  <2> QED
    BY <1>0, <1>m, <1>a, <1>9, <2>3, <2>4, <2>5, OneMoves DEF SaveFeatures, FeaturesInv
<1>10. ASSUME NEW l \in Lookups, Cancel(l) PROVE FeaturesInv'
  <2> DEFINE q == [look[l] EXCEPT !.ended = TRUE]
  <2>1. q \in Lookup /\ q.queue = look[l].queue /\ q.fresh = look[l].fresh /\ q.out = look[l].out
        /\ q.pc = look[l].pc /\ q.todo = look[l].todo
    BY <1>f DEF Lookup
  <2>2. look' = [look EXCEPT ![l] = q]
    BY <1>0, <1>10 DEF Cancel
  <2> HIDE DEF q
  <2>3. Fine(q, Build[l])
    BY <1>f, <2>1, FineKept
  <2> QED
    BY <1>0, <1>r, <1>m, <1>a, <1>10, <2>2, <2>3, OneMoves DEF Cancel, FeaturesInv
<1>11. CASE TimePasses
  <2>1. time' \in 1 .. Horizon
    BY <1>0, <1>11, LookupAssumption DEF TimePasses
  <2> QED
    BY <1>r, <1>m, <1>a, <1>k, <1>11, <2>1 DEF TimePasses, FeaturesInv
<1>12. CASE UNCHANGED lookupVars
  BY <1>0, <1>r, <1>m, <1>a, <1>k, <1>12 DEF lookupVars, FeaturesInv
<1> QED
  BY <1>1, <1>2, <1>3, <1>4, <1>5, <1>6, <1>7, <1>8, <1>9, <1>10, <1>11, <1>12 DEF LookupNext

LEMMA FeaturesAlways == LookupSpec => []FeaturesInv
  BY FeaturesInit, FeaturesNext, PTL DEF LookupSpec

\* Every variable keeps its type: what was matched was known of the service, so a fetch
\* only ever answers with what it can find.
THEOREM FeaturesTyped == LookupSpec => []LookupTypeOK
<1>1. FeaturesInv => LookupTypeOK
  BY DEF FeaturesInv, RowsTrue, LookupsFine, LimiterTyped, AskedTyped, LookupTypeOK, Lookup, Queued, Entry, Answer
<1> QED
  BY <1>1, FeaturesAlways, PTL

\* "No features" is remembered, and answered, only of a track that has none: whatever
\* fails, in any order of searches, fetches and cancellations (Client.Lookup).
THEOREM AbsenceIsReal == LookupSpec => []OutageIsNotAbsence
<1>1. FeaturesInv => OutageIsNotAbsence
  BY DEF FeaturesInv, RowsTrue, LookupsFine, Fine, AbsenceTrue, OutageIsNotAbsence, Featureless
<1> QED
  BY <1>1, FeaturesAlways, PTL

\* A finished lookup answers from its own build or a later one, and every occurrence of
\* a song alike, however often it is on the playlist (Client.Lookup, SaveMany).
THEOREM SongsAgree == LookupSpec => []AnswersAgree
<1>1. FeaturesInv => AnswersAgree
  BY DEF FeaturesInv, LookupsFine, Fine, Agreed, AnswersAgree, Reached
<1> QED
  BY <1>1, FeaturesAlways, PTL

-----------------------------------------------------------------------------
(* The pace.  The slot of a process serialises the waits of its lookups, so the delay *)
(* one has worked out is still the right one when it is over.                          *)

Paced(s, last) ==
    /\ \A n \in 1 .. Len(s) - 1 : s[n + 1] - s[n] >= Interval
    /\ s # <<>> => s[Len(s)] = last

PaceInv ==
    /\ \A l \in Lookups : Searching(l, "slot") =>
          /\ limiter[Build[l]].slot = l
          /\ look[l].until = limiter[Build[l]].last + Interval
    /\ \A b \in Builds : Paced(asked[b], limiter[b].last)

LEMMA PaceInit == LookupInit => PaceInv
  BY DEF LookupInit, NotBegun, Searching, Paced, PaceInv

\* A search after the delay is an interval after the one before it.
LEMMA PacedAppend ==
    ASSUME NEW s \in Seq(1 .. Horizon), NEW last \in Int, NEW t \in 1 .. Horizon,
           Paced(s, last), t >= last + Interval
    PROVE  Paced(Append(s, t), t)
<1>1. /\ Len(s) \in Nat /\ Len(Append(s, t)) = Len(s) + 1 /\ Append(s, t)[Len(s) + 1] = t
      /\ \A n \in 1 .. Len(s) : Append(s, t)[n] = s[n] /\ s[n] \in 1 .. Horizon
  BY AppendAt, ZenonT(40)
<1>2. ASSUME NEW n \in 1 .. Len(s) PROVE Append(s, t)[n + 1] - Append(s, t)[n] >= Interval
  <2>1. CASE n = Len(s)
    <3>1. s # <<>> /\ s[n] = last
      BY <1>1, <2>1 DEF Paced
    <3> QED
      BY <1>1, <2>1, <3>1, LookupAssumption
  <2>2. CASE n # Len(s)
    <3>1. n \in 1 .. Len(s) - 1 /\ n + 1 \in 1 .. Len(s)
      BY <1>1, <2>2
    <3> QED
      BY <1>1, <3>1 DEF Paced
  <2> QED
    BY <2>1, <2>2
<1> QED
  BY <1>1, <1>2 DEF Paced

LEMMA PaceNext == FeaturesInv /\ PaceInv /\ [LookupNext]_lookupVars => PaceInv'
<1> SUFFICES ASSUME FeaturesInv, PaceInv, [LookupNext]_lookupVars PROVE PaceInv'
  OBVIOUS
<1>0. /\ look \in [Lookups -> Lookup] /\ \A l \in Lookups : look[l] \in Lookup /\ Build[l] \in Builds
      /\ limiter \in [Builds -> [slot : Lookups \cup {Nobody}, last : LongAgo .. Horizon]]
      /\ asked \in [Builds -> Seq(1 .. Horizon)] /\ time \in 1 .. Horizon
  BY ConstantTypes DEF FeaturesInv, LookupsFine, LimiterTyped, AskedTyped
<1>p. /\ \A l \in Lookups : Searching(l, "slot") =>
           limiter[Build[l]].slot = l /\ look[l].until = limiter[Build[l]].last + Interval
      /\ \A b \in Builds : Paced(asked[b], limiter[b].last)
  BY DEF PaceInv
<1>n. Nobody \notin Lookups
  BY LookupAssumption DEF Nobody
\* A step that leaves the limiter alone, and lets no lookup into its slot.
<1>1. ASSUME UNCHANGED <<limiter, asked>>, NEW l \in Lookups,
             \A m \in Lookups : m # l => look'[m] = look[m],
             Searching(l, "slot")' => Searching(l, "slot") /\ look'[l].until = look[l].until
      PROVE  PaceInv'
  <2>1. \A m \in Lookups : Searching(m, "slot")' => Searching(m, "slot") /\ look'[m].until = look[m].until
    BY <1>1 DEF Searching
  <2> QED
    BY <1>p, <1>1, <2>1 DEF PaceInv
<1>2. ASSUME NEW l \in Lookups, Wait(l) PROVE PaceInv'
  <2> DEFINE b == Build[l]
             q == [look[l] EXCEPT !.search = "slot", !.until = limiter[b].last + Interval]
  <2>1. /\ look' = [look EXCEPT ![l] = q] /\ limiter' = [limiter EXCEPT ![b].slot = l]
        /\ asked' = asked /\ limiter[b].slot = Nobody
    BY <1>0, <1>2 DEF Wait, SlotHeld
  <2>2. q.until = limiter[b].last + Interval
    BY <1>0 DEF Lookup
  <2>3. /\ limiter'[b].slot = l /\ \A c \in Builds : limiter'[c].last = limiter[c].last
        /\ \A c \in Builds : c # b => limiter'[c] = limiter[c]
    BY <1>0, <2>1
  <2>4. look'[l] = q /\ \A m \in Lookups : m # l => look'[m] = look[m]
    BY <1>0, <2>1
  <2>5. ASSUME NEW m \in Lookups, Searching(m, "slot")'
        PROVE  limiter'[Build[m]].slot = m /\ look'[m].until = limiter'[Build[m]].last + Interval
    <3>1. CASE m = l
      BY <1>0, <2>2, <2>3, <2>4, <3>1
    <3>2. CASE m # l
      <4>1. Searching(m, "slot")
        BY <2>4, <2>5, <3>2 DEF Searching
      <4>2. Build[m] # b
        BY <1>n, <1>p, <2>1, <4>1
      <4> QED
        BY <1>0, <1>p, <2>3, <2>4, <3>2, <4>1, <4>2
    <3> QED
      BY <3>1, <3>2
  <2>6. \A c \in Builds : Paced(asked[c], limiter'[c].last)
    BY <1>p, <2>3
  <2> QED
    BY <2>1, <2>5, <2>6 DEF PaceInv
<1>3. ASSUME NEW l \in Lookups, Proceed(l) PROVE PaceInv'
  <2> DEFINE b == Build[l]
             q == [look[l] EXCEPT !.search = "asking"]
  <2>1. /\ look' = [look EXCEPT ![l] = q]
        /\ limiter' = [limiter EXCEPT ![b] = [slot |-> Nobody, last |-> time]]
        /\ asked' = [asked EXCEPT ![b] = Append(@, time)]
        /\ Searching(l, "slot") /\ time >= look[l].until
    BY <1>0, <1>3 DEF Proceed
  <2>2. q.search = "asking" /\ look'[l] = q /\ \A m \in Lookups : m # l => look'[m] = look[m]
    BY <1>0, <2>1 DEF Lookup
  <2>3. limiter[b].slot = l /\ look[l].until = limiter[b].last + Interval
    BY <1>p, <2>1
  <2>4. /\ limiter'[b].last = time /\ \A c \in Builds : c # b => limiter'[c] = limiter[c]
        /\ asked'[b] = Append(asked[b], time) /\ \A c \in Builds : c # b => asked'[c] = asked[c]
    BY <1>0, <2>1
  <2>5. ASSUME NEW m \in Lookups, Searching(m, "slot")'
        PROVE  limiter'[Build[m]].slot = m /\ look'[m].until = limiter'[Build[m]].last + Interval
    <3>1. m # l
      BY <2>2, <2>5 DEF Searching
    <3>2. Searching(m, "slot")
      BY <2>2, <2>5, <3>1 DEF Searching
    <3>3. Build[m] # b
      BY <1>p, <2>3, <3>1, <3>2
    <3> QED
      BY <1>0, <1>p, <2>2, <2>4, <3>1, <3>2, <3>3
  <2>6. Paced(asked'[b], limiter'[b].last)
    <3>1. limiter[b].last \in Int
      <4>1. limiter[b].last \in LongAgo .. Horizon
        BY <1>0
      <4> QED
        BY <4>1, ConstantTypes
    <3> QED
      BY <1>0, <1>p, <2>1, <2>3, <2>4, <3>1, PacedAppend
  <2>7. \A c \in Builds : Paced(asked'[c], limiter'[c].last)
    BY <1>p, <2>4, <2>6
  <2> QED
    BY <2>5, <2>7 DEF PaceInv
<1>4. ASSUME NEW l \in Lookups, StopSearching(l) PROVE PaceInv'
  <2> DEFINE b == Build[l]
  <2>1. /\ look' = [look EXCEPT ![l].todo = {}] /\ asked' = asked
        /\ limiter' = [limiter EXCEPT ![b].slot = IF @ = l THEN Nobody ELSE @]
    BY <1>4 DEF StopSearching
  <2>2. look'[l].todo = {} /\ \A m \in Lookups : m # l => look'[m] = look[m]
    BY <1>0, <2>1 DEF Lookup
  <2>3. \A c \in Builds : limiter'[c].last = limiter[c].last
                          /\ (limiter[c].slot # l => limiter'[c].slot = limiter[c].slot)
    BY <1>0, <2>1
  <2>4. ASSUME NEW m \in Lookups, Searching(m, "slot")'
        PROVE  limiter'[Build[m]].slot = m /\ look'[m].until = limiter'[Build[m]].last + Interval
    <3>1. m # l
      BY <2>2, <2>4 DEF Searching
    <3>2. Searching(m, "slot")
      BY <2>2, <2>4, <3>1 DEF Searching
    <3> QED
      BY <1>0, <1>p, <2>2, <2>3, <3>1, <3>2
  <2>5. \A c \in Builds : Paced(asked[c], limiter'[c].last)
    BY <1>p, <2>3
  <2> QED
    BY <2>1, <2>4, <2>5 DEF PaceInv
<1>5. ASSUME NEW l \in Lookups,
             FindMany(l) \/ resolve(l) \/ ResolveFails(l) \/ Fetch(l) \/ FetchFails(l)
               \/ SaveFeatures(l) \/ Cancel(l)
      PROVE  PaceInv'
  <2>1. UNCHANGED <<limiter, asked>>
    BY <1>5, ZenonT(40) DEF FindMany, resolve, ResolveFails, Fetch, FetchFails, SaveFeatures, Cancel
  <2>2. \A m \in Lookups : m # l => look'[m] = look[m]
    BY <1>0, <1>5 DEF FindMany, LookUp, resolve, ResolveFails, Fetch, Learned, FetchFails, PassedOver,
                      SaveFeatures, Cancel
  <2>3. CASE FindMany(l)
    <3>1. look'[l].search = "queue"
      BY <1>0, <2>3 DEF FindMany, LookUp, NotBegun
    <3> QED
      BY <1>1, <2>1, <2>2, <3>1 DEF Searching
  <2>4. CASE resolve(l) \/ ResolveFails(l)
    <3>1. \E todo, queue : look' = [look EXCEPT ![l] =
              [look[l] EXCEPT !.todo = todo, !.search = "queue", !.queue = queue]]
      <4>1. CASE resolve(l)
        <5>1. PICK i \in Positions : look' = [look EXCEPT ![l].todo = @ \ {i}, ![l].search = "queue",
                ![l].queue = Append(@, [index |-> i, matched |-> Known[Tracks[i]] # "unmatched"])]
          BY <4>1 DEF resolve
        <5> QED
          BY <1>0, <5>1
      <4>2. CASE ResolveFails(l)
        <5>1. PICK i \in Positions : look' = [look EXCEPT ![l].todo = @ \ {i}, ![l].search = "queue"]
          BY <4>2 DEF ResolveFails
        <5>2. look' = [look EXCEPT ![l] =
                [look[l] EXCEPT !.todo = @ \ {i}, !.search = "queue", !.queue = look[l].queue]]
          BY <1>0, <5>1 DEF Lookup
        <5> QED
          BY <5>2
      <4> QED
        BY <2>4, <4>1, <4>2
    <3>2. look'[l].search = "queue"
      BY <1>0, <3>1 DEF Lookup
    <3> QED
      BY <1>1, <2>1, <2>2, <3>2 DEF Searching
  <2>5. CASE Fetch(l) \/ FetchFails(l) \/ SaveFeatures(l) \/ Cancel(l)
    <3> DEFINE Same == /\ look'[l].search = look[l].search /\ look'[l].todo = look[l].todo
                       /\ look'[l].until = look[l].until
    <3>2. ASSUME Fetch(l) PROVE Same
      <4>1. PICK i, found : Learned(l, i, found)
        BY <3>2 DEF Fetch
      <4> QED
        BY <1>0, <4>1 DEF Learned, Lookup
    <3>3. ASSUME FetchFails(l) PROVE Same
      BY <1>0, <3>3 DEF FetchFails, PassedOver, Lookup
    <3>4. ASSUME SaveFeatures(l) PROVE Same
      BY <1>0, <3>4 DEF SaveFeatures, Lookup
    <3>5. ASSUME Cancel(l) PROVE Same
      BY <1>0, <3>5 DEF Cancel, Lookup
    <3>1. Same
      BY <2>5, <3>2, <3>3, <3>4, <3>5
    <3> QED
      BY <1>1, <2>1, <2>2, <3>1 DEF Searching
  <2> QED
    BY <1>5, <2>3, <2>4, <2>5
<1>6. CASE TimePasses \/ UNCHANGED lookupVars
  BY <1>6 DEF TimePasses, lookupVars, PaceInv, Searching
<1> QED
  BY <1>2, <1>3, <1>4, <1>5, <1>6 DEF LookupNext

\* Two searches of one process are an interval apart, whichever of its lookups make them
\* and however long they wait for each other (limiter.wait).
THEOREM PaceIsKept == LookupSpec => []SearchesArePaced
<1>1. PaceInv => SearchesArePaced
  BY DEF PaceInv, Paced, SearchesArePaced
<1>2. LookupSpec => []PaceInv
  <2>1. FeaturesInv /\ PaceInv /\ [LookupNext]_lookupVars => PaceInv'
    BY PaceNext
  <2> QED
    BY <2>1, PaceInit, FeaturesAlways, PTL DEF LookupSpec
<1> QED
  BY <1>1, <1>2, PTL
=============================================================================
