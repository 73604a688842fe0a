--------------------------- MODULE TrackFeatures ----------------------------
(***************************************************************************)
(* Feature lookups of the generations in progress: the durable cache, the  *)
(* rate-limited search of MusicBrainz on a goroutine of its own, and the   *)
(* two AcousticBrainz endpoints asked for what the search found.  During a *)
(* rolling deployment lookups of two builds share the table; each process  *)
(* has its own limiter.                                                    *)
(*                                                                         *)
(* A track is its key.  What a lookup finds is abstracted to whether the   *)
(* recording was classified and whether a pace was measured for it.        *)
(***************************************************************************)
EXTENDS Integers, Sequences, FiniteSets

CONSTANTS
    Lookups,      \* lookups of generations, each done once
    Build,        \* the FeaturesVersion of the process of each lookup
    Songs,        \* what LyricsKey makes of the tracks
    Tracks,       \* the keys of the tracks, in order
    Known,        \* what the two services know of each key
    MaxLookups,   \* maxLookupsPerRun
    Interval,     \* mbInterval
    AbsenceTTL,   \* how long "no features" is believed
    Horizon,      \* bound on the clock
    LookupFaults  \* a subset of LookupFaultKinds

\* "search", "fetch", "store": a request or a statement fails.
\* "cancel": the context of a generation ends.
LookupFaultKinds == {"search", "fetch", "store", "cancel"}

ASSUME LookupAssumption ==
    /\ "nobody" \notin Lookups /\ Build \in [Lookups -> Nat \ {0}] /\ Tracks \in Seq(Songs)
    /\ Known \in [Songs -> {"unmatched", "unanalysed", "plain", "full"}]
    /\ MaxLookups \in Nat /\ Interval \in Nat /\ AbsenceTTL \in Nat /\ Horizon \in Nat \ {0}
    /\ LookupFaults \subseteq LookupFaultKinds

VARIABLES
    rows,     \* table track_features
    limiter,  \* of each process: who holds its slot, and when it last let one through
    look,     \* the lookups in progress
    time,     \* the clock
    asked     \* history: when each process searched

lookupVars == <<rows, limiter, look, time, asked>>

Builds == {Build[l] : l \in Lookups}
Positions == DOMAIN Tracks
Nobody == "nobody"
LongAgo == 0 - Interval
Found == {"absent", "plain", "full"}  \* no features; without a pace; with one
NoAnswer == [found |-> "none", version |-> 0]
NoFeatures == [found |-> "none", version |-> 0, at |-> 0]
NothingLearned == [found |-> "none", at |-> 0]
\* todo holds the indexes to look up, taken in their order, and fresh the first of the
\* entries of each key, which is the one every reader of the slice takes.
NotBegun == [pc |-> "idle", todo |-> {}, search |-> "queue", until |-> 0, queue |-> <<>>,
             fresh |-> [k \in Songs |-> NothingLearned],
             ended |-> FALSE, out |-> [i \in Positions |-> NoAnswer]]
LookupTypeOK ==
    /\ rows \in [Songs -> [found : Found \cup {"none"}, version : Builds \cup {0}, at : 0 .. Horizon]]
    /\ limiter \in [Builds -> [slot : Lookups \cup {Nobody}, last : LongAgo .. Horizon]]
    /\ look \in [Lookups -> [pc : {"idle", "looking", "done"}, todo : SUBSET Positions,
                             search : {"queue", "slot", "asking"}, until : LongAgo .. Horizon + Interval,
                             queue : Seq([index : Positions, matched : BOOLEAN]),
                             fresh : [Songs -> [found : Found \cup {"none"}, at : 0 .. Horizon]],
                             ended : BOOLEAN,
                             out : [Positions -> [found : Found \cup {"none"}, version : Builds \cup {0}]]]]
    /\ time \in 1 .. Horizon
    /\ asked \in [Builds -> Seq(1 .. Horizon)]

LookupInit ==
    /\ rows = [k \in Songs |-> NoFeatures]
    /\ limiter = [b \in Builds |-> [slot |-> Nobody, last |-> LongAgo]]
    /\ look = [l \in Lookups |-> NotBegun]
    /\ time = 1
    /\ asked = [b \in Builds |-> <<>>]

Reached(l, pc) == look[l].pc = pc

-----------------------------------------------------------------------------
(* Reading the cache. *)

\* For the mutant: what was measured is taken from any build.
FreshIfMeasured(row, build) ==
    /\ row.found # "none"
    /\ row.found = "absent" => row.version >= build /\ time - row.at < AbsenceTTL
\* CachedFeatures.Fresh: an older build's row is a miss, whatever it says.
FreshRow(row, build) ==
    /\ row.found # "none" /\ row.version >= build
    /\ row.found = "absent" => time - row.at < AbsenceTTL

\* FindTrackFeaturesByKeys: the row of a key, if it has one.
CachedRow(k) == rows[k]

\* The indexes to look up: of each key without an answer its first, up to the cap.
Pending(answered) ==
    LET firsts == {i \in Positions \ answered : \A j \in 1 .. i - 1 : Tracks[j] # Tracks[i]}
    IN {i \in firsts : Cardinality({j \in firsts : j < i}) < MaxLookups}

LookUp(l, answered) ==
    look' = [look EXCEPT ![l] = [NotBegun EXCEPT
        !.pc = "looking", !.todo = Pending(answered),
        !.out = [i \in Positions |-> IF i \in answered
                 THEN [found |-> CachedRow(Tracks[i]).found, version |-> CachedRow(Tracks[i]).version]
                 ELSE NoAnswer]]]

\* A lookup begins with one query; if that fails everything is a miss.
FindMany(l) ==
    /\ Reached(l, "idle")
    /\ \/ LookUp(l, {i \in Positions : FreshRow(CachedRow(Tracks[i]), Build[l])})
       \/ "store" \in LookupFaults /\ LookUp(l, {})
    /\ UNCHANGED <<rows, limiter, time, asked>>

-----------------------------------------------------------------------------
(* The searches, one after another on the lookup's goroutine. *)

Searching(l, state) == look[l].todo # {} /\ look[l].search = state

\* For the mutant: the slot is given back before the wait.
SlotReleased(l) == Nobody
SlotHeld(l) == l

\* limiter.wait: the one slot of the process is taken and the delay worked out.
Wait(l) ==
    LET b == Build[l] IN
    /\ Searching(l, "queue") /\ limiter[b].slot = Nobody
    /\ limiter' = [limiter EXCEPT ![b].slot = SlotHeld(l)]
    /\ look' = [look EXCEPT ![l].search = "slot", ![l].until = limiter[b].last + Interval]
    /\ UNCHANGED <<rows, time, asked>>

\* The delay is over: the slot is free again and the search goes out, if the context
\* has not ended; without a delay wait does not ask it.
Proceed(l) ==
    LET b == Build[l] IN
    /\ Searching(l, "slot") /\ time >= look[l].until
    /\ limiter' = [limiter EXCEPT ![b] = [slot |-> Nobody, last |-> time]]
    /\ look' = [look EXCEPT ![l].search = "asking"]
    /\ asked' = [asked EXCEPT ![b] = Append(@, time)]
    /\ UNCHANGED <<rows, time>>

\* The context ends while a search waits its turn: no more are made.
StopSearching(l) ==
    /\ look[l].ended /\ (Searching(l, "queue") \/ Searching(l, "slot"))
    /\ look' = [look EXCEPT ![l].todo = {}]
    /\ limiter' = [limiter EXCEPT ![Build[l]].slot = IF @ = l THEN Nobody ELSE @]
    /\ UNCHANGED <<rows, time, asked>>

\* The index the goroutine has come to.
IsFirst(i, l) == i \in look[l].todo /\ \A j \in look[l].todo : i <= j

\* resolve: the candidates of a track, or none, go to the channel.
resolve(l) ==
    /\ Searching(l, "asking") /\ ~look[l].ended
    /\ \E i \in Positions :
        /\ IsFirst(i, l)
        /\ look' = [look EXCEPT ![l].todo = @ \ {i}, ![l].search = "queue",
            ![l].queue = Append(@, [index |-> i, matched |-> Known[Tracks[i]] # "unmatched"])]
    /\ UNCHANGED <<rows, limiter, time, asked>>

ResolveFails(l) ==
    /\ Searching(l, "asking") /\ ("search" \in LookupFaults \/ look[l].ended)
    /\ \E i \in Positions :
        /\ IsFirst(i, l)
        /\ look' = [look EXCEPT ![l].todo = @ \ {i}, ![l].search = "queue"]
    /\ UNCHANGED <<rows, limiter, time, asked>>

-----------------------------------------------------------------------------
(* The fetches, as the searches come in. *)

\* What features may answer: nothing without candidates, else the classifiers, with
\* the pace unless its own request fails.
features(k, matched) ==
    IF ~matched \/ Known[k] = "unanalysed" THEN {"absent"}
    ELSE {Known[k]} \cup {f \in {"plain"} : "fetch" \in LookupFaults}

Learned(l, i, found) ==
    look' = [look EXCEPT ![l].queue = Tail(@),
        ![l].out[i] = [found |-> found, version |-> Build[l]],
        ![l].fresh[Tracks[i]] = IF @ = NothingLearned THEN [found |-> found, at |-> time] ELSE @]

Fetch(l) ==
    /\ look[l].queue # <<>>
    /\ LET c == Head(look[l].queue) IN
        /\ c.matched => ~look[l].ended
        /\ \E found \in features(Tracks[c.index], c.matched) : Learned(l, c.index, found)
    /\ UNCHANGED <<rows, limiter, time, asked>>

\* For the mutant: a failed request is remembered like a track nobody measured.
OutageLearned(l) == Learned(l, Head(look[l].queue).index, "absent")
\* An error is not an answer: the track is passed over.
PassedOver(l) == look' = [look EXCEPT ![l].queue = Tail(@)]
FetchFails(l) ==
    /\ look[l].queue # <<>> /\ Head(look[l].queue).matched
    /\ "fetch" \in LookupFaults \/ look[l].ended
    /\ PassedOver(l)
    /\ UNCHANGED <<rows, limiter, time, asked>>

\* SaveTrackFeatures: the rows of the answers replace whatever is there, stamped
\* with the version of the build that writes them.
Rewritten(l) ==
    [k \in Songs |->
        IF look[l].fresh[k] = NothingLearned THEN rows[k]
        ELSE [found |-> look[l].fresh[k].found, version |-> Build[l], at |-> look[l].fresh[k].at]]

\* For the mutant: the second track of a song is left without its answer.
FilledOnce(l) == look[l].out
\* The tracks passed over as duplicates, or without features, get what was learned.
Filled(l) ==
    [i \in Positions |->
        IF look[l].out[i].found \in {"plain", "full"} \/ look[l].fresh[Tracks[i]] = NothingLearned
        THEN look[l].out[i]
        ELSE [found |-> look[l].fresh[Tracks[i]].found, version |-> Build[l]]]

\* The channel is closed and empty: what was learned is saved, or that fails unnoticed.
SaveFeatures(l) ==
    /\ Reached(l, "looking") /\ look[l].todo = {} /\ look[l].queue = <<>>
    /\ \/ ~look[l].ended /\ rows' = Rewritten(l)
       \/ ("store" \in LookupFaults \/ look[l].ended) /\ UNCHANGED rows
    /\ look' = [look EXCEPT ![l].pc = "done", ![l].out = Filled(l)]
    /\ UNCHANGED <<limiter, time, asked>>

-----------------------------------------------------------------------------
\* The generation's context ends.
Cancel(l) ==
    /\ "cancel" \in LookupFaults /\ Reached(l, "looking") /\ ~look[l].ended
    /\ look' = [look EXCEPT ![l].ended = TRUE]
    /\ UNCHANGED <<rows, limiter, time, asked>>

TimePasses ==
    /\ time < Horizon
    /\ time' = time + 1
    /\ UNCHANGED <<rows, limiter, look, asked>>

LookupNext ==
    \/ \E l \in Lookups :
        \/ FindMany(l) \/ Wait(l) \/ Proceed(l) \/ StopSearching(l) \/ resolve(l) \/ ResolveFails(l)
        \/ Fetch(l) \/ FetchFails(l) \/ SaveFeatures(l) \/ Cancel(l)
    \/ TimePasses

LookupSpec == LookupInit /\ [][LookupNext]_lookupVars

-----------------------------------------------------------------------------
(* Properties. *)

\* Two searches of one process are an interval apart, whichever of its lookups make
\* them and however long they wait for each other (limiter.wait).
SearchesArePaced ==
    \A b \in Builds : \A n \in 1 .. Len(asked[b]) - 1 : asked[b][n + 1] - asked[b][n] >= Interval

\* "No features" is remembered, and answered, only of a track that has none: a failed
\* search or fetch, or a generation that ended, is no answer (Client.Lookup).
OutageIsNotAbsence ==
    LET none(k) == Known[k] \in {"unmatched", "unanalysed"} IN
    /\ \A k \in Songs : rows[k].found = "absent" => none(k)
    /\ \A l \in Lookups, i \in Positions : look[l].out[i].found = "absent" => none(Tracks[i])

\* A finished lookup answers from its own build or a later one, and every occurrence
\* of a song alike, whatever another build wrote meanwhile (Client.Lookup, SaveMany).
AnswersAgree ==
    \A l \in Lookups : Reached(l, "done") => \A i, j \in Positions :
        /\ look[l].out[i].found # "none" => look[l].out[i].version >= Build[l]
        /\ Tracks[i] = Tracks[j] => look[l].out[i] = look[l].out[j]
=============================================================================
