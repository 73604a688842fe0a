------------------------------- MODULE Lyrics -------------------------------
(***************************************************************************)
(* Lyric lookups of the generations in progress: the memory cache, the     *)
(* durable cache and the provider behind its circuit breaker, asked in     *)
(* that order for the tracks of a playlist.                                *)
(*                                                                         *)
(* A lyric is named by its track's key.  One unit of time is longer than   *)
(* the provider's timeout.  Each operation on the memory cache is a step   *)
(* of its own: between two of one resolve its mutex is free.               *)
(***************************************************************************)
EXTENDS Integers, FiniteSets, Sequences, SequencesExt

CONSTANTS
    Resolves,          \* resolves of generations, each done once
    Keys,              \* what LyricsKey makes of the tracks
    Playlist,          \* the keys of the tracks, in order
    Size,              \* bytes charged for the lyrics of each key
    Budget,            \* DefaultMemoryBudget
    MaxEntry,          \* maxEntryBytes
    FetchConcurrency,  \* simultaneous requests of a resolve
    FailureThreshold,  \* consecutive faults that open the circuit
    BaseCoolOff, MaxCoolOff,
    NegativeTTL,       \* how long "no lyrics" is believed
    RetryTimes,        \* what a Retry-After header may say; 0 is no header
    MaxTime,           \* bound on the clock
    Faults             \* a subset of AllFaults

\* "outage": the provider fails.  "store": a statement on the cache fails.
\* "crash": the process restarts.
AllFaults == {"outage", "store", "crash"}

ASSUME SizeAssumption == Playlist \in Seq(Keys) /\ Size \in [Keys -> Nat \ {0}]
ASSUME LimitAssumption ==
    /\ Budget \in Nat /\ MaxEntry \in Nat /\ NegativeTTL \in Nat /\ MaxTime \in Nat \ {0}
    /\ FetchConcurrency \in Nat \ {0} /\ FailureThreshold \in Nat \ {0}
    /\ BaseCoolOff \in Nat \ {0} /\ MaxCoolOff \in Nat /\ BaseCoolOff <= MaxCoolOff
    /\ RetryTimes \subseteq Nat /\ 0 \in RetryTimes
ASSUME FaultAssumption == Faults \subseteq AllFaults

VARIABLES
    memory,   \* the memory cache: entries, most recent first, and bytes charged
    store,    \* table lyrics_cache
    breaker,  \* failures, coolOff, and openUntil with 0 for the zero time
    res,      \* the resolves in progress
    has,      \* keys the provider has lyrics for
    now,      \* the clock
    silent,   \* history: when the provider last answered "no lyrics" for a key
    faults    \* history: faults since the last success, the pause our own schedule asks
              \* for after them, until when the last one asked to be left alone, and
              \* whether a call began since then

vars == <<memory, store, breaker, res, has, now, silent, faults>>

Indexes == DOMAIN Playlist
Never == 0
Empty == [order |-> <<>>, used |-> 0]
Closed == [failures |-> 0, coolOff |-> 0, openUntil |-> 0]
NoFaults == [streak |-> 0, own |-> 0, until |-> 0, probed |-> FALSE]
Row == [state : {"none", "found", "silent"}, at : 0 .. MaxTime]
NoRow == [state |-> "none", at |-> 0]
\* left: the indexes a loop has still to come to.  rows: what FindMany returned for them.
\* slot: of each key's first index among the missing, the state of its fetch.
Idle == [pc |-> "idle", at |-> 0, left |-> {}, missing |-> {},
         rows |-> [i \in Indexes |-> NoRow], slot |-> [i \in Indexes |-> "none"],
         out |-> [i \in Indexes |-> ""]]

TypeOK ==
    /\ memory \in [order : Seq([key : Keys, found : BOOLEAN, at : 0 .. MaxTime, size : Nat]),
                   used : Nat]
    /\ store \in [Keys -> Row]
    /\ breaker \in [failures : 0 .. FailureThreshold, coolOff : Nat, openUntil : Nat]
    /\ res \in [Resolves -> [pc : {"idle", "memory", "store", "fill", "fetch", "save", "done"},
                             at : 0 .. MaxTime, left : SUBSET Indexes, missing : SUBSET Indexes,
                             rows : [Indexes -> Row],
                             slot : [Indexes -> {"none", "waiting", "calling", "found", "silent", "failed"}],
                             out : [Indexes -> Keys \cup {""}]]]
    /\ has \in SUBSET Keys
    /\ now \in 1 .. MaxTime
    /\ silent \in [Keys -> 0 .. MaxTime]
    /\ faults \in [streak : 0 .. FailureThreshold, own : Nat, until : Nat, probed : BOOLEAN]

Init ==
    /\ memory = Empty
    /\ store = [k \in Keys |-> NoRow]
    /\ breaker = Closed
    /\ res = [r \in Resolves |-> Idle]
    /\ has \in SUBSET Keys
    /\ now = 1
    /\ silent = [k \in Keys |-> Never]
    /\ faults = NoFaults

-----------------------------------------------------------------------------
(* The memory cache. *)

\* The bytes of the first n entries.
Sum(entries, n) ==
    LET sum[i \in 0 .. Len(entries)] == IF i = 0 THEN 0 ELSE sum[i - 1] + entries[i].size
    IN sum[n]
Bytes(entries) == Sum(entries, Len(entries))
Entry(k, found, at) ==
    [key |-> k, found |-> found, at |-> at, size |-> IF found THEN Size[k] ELSE 1]
\* The map of the cache: where in the list the entry of a key is.
Places(k) == {n \in DOMAIN memory.order : memory.order[n].key = k}

\* get: a hit becomes the most recent entry.
Touched(n) == [memory EXCEPT !.order = <<@[n]>> \o RemoveAt(@, n)]

\* The oldest entries are dropped until the rest is within the budget, or none is left.
Kept(m, n) == [order |-> SubSeq(m.order, 1, n), used |-> m.used - (Bytes(m.order) - Sum(m.order, n))]
Fits(m, n) == n = 0 \/ Kept(m, n).used <= Budget
Evicted(m) ==
    \E n \in 0 .. Len(m.order) :
        /\ Fits(m, n) /\ \A x \in n + 1 .. Len(m.order) : ~Fits(m, x)
        /\ memory' = Kept(m, n)

\* For the mutants: the replaced entry stays charged; the one in its place is not charged.
ReplacedUncharged(e, n) ==
    [order |-> <<e>> \o RemoveAt(memory.order, n), used |-> memory.used + e.size]
ReplacedRefunded(e, n) ==
    [order |-> <<e>> \o RemoveAt(memory.order, n), used |-> memory.used - memory.order[n].size]
Replaced(e, n) ==
    [order |-> <<e>> \o RemoveAt(memory.order, n),
     used |-> memory.used - memory.order[n].size + e.size]
Added(e) == [order |-> <<e>> \o memory.order, used |-> memory.used + e.size]

\* put: an entry over a limit is not taken; an entry of the key is replaced.
Put(e) ==
    IF e.size > MaxEntry \/ e.size > Budget THEN UNCHANGED memory
    ELSE IF Places(e.key) = {} THEN Evicted(Added(e))
    ELSE \E n \in Places(e.key) : Evicted(Replaced(e, n))

\* CachedLyrics.Fresh, by the time the resolve began.
Fresh(found, at, time) == found \/ time - at < NegativeTTL

-----------------------------------------------------------------------------
(* The breaker. *)

Smaller(a, b) == IF a < b THEN a ELSE b
Larger(a, b) == IF a > b THEN a ELSE b

\* allow: any number of callers once the cool-off has elapsed.
allow == breaker.openUntil = 0 \/ now > breaker.openUntil

recordSuccess ==
    /\ breaker' = Closed
    /\ faults' = NoFaults

\* The counter is capped where the comparison no longer sees it grow.
Opens(failures) == failures + 1 >= FailureThreshold

\* For the mutants: the pause does not grow; Retry-After is not heard.
Undoubled(after) == Larger(BaseCoolOff, after)
Unheard(after) == Smaller(Larger(breaker.coolOff * 2, BaseCoolOff), MaxCoolOff)
\* The pause doubles up to its cap; a longer Retry-After replaces it.
CoolOff(after) == Larger(Smaller(Larger(breaker.coolOff * 2, BaseCoolOff), MaxCoolOff), after)

\* For the history: our own schedule, counted from the fault that opens the circuit.
Scheduled == IF faults.own = 0 THEN BaseCoolOff ELSE Smaller(2 * faults.own, MaxCoolOff)
Noted(after) ==
    faults' = IF faults.streak + 1 >= FailureThreshold
        THEN [streak |-> FailureThreshold, own |-> Scheduled,
              until |-> now + Larger(Scheduled, after), probed |-> FALSE]
        ELSE [faults EXCEPT !.streak = @ + 1]

recordFailure(after) ==
    /\ breaker' = IF Opens(breaker.failures)
        THEN [failures |-> FailureThreshold, coolOff |-> CoolOff(after),
              openUntil |-> now + CoolOff(after)]
        ELSE [breaker EXCEPT !.failures = @ + 1]
    /\ Noted(after)

-----------------------------------------------------------------------------
(* A resolve. *)

KeyAt(i) == Playlist[i]

\* A loop over the tracks goes by their order.
IsNext(i, of) == i \in of /\ \A j \in of : i <= j

\* The first index of each key still unanswered.
Firsts(missing) == {i \in missing : \A j \in missing : j < i => KeyAt(j) # KeyAt(i)}

\* What is still missing goes to the provider; a resolve with nothing missing is done.
Fetching(state) ==
    IF state.missing = {} THEN [state EXCEPT !.pc = "done"]
    ELSE [state EXCEPT !.pc = "fetch", !.left = Firsts(state.missing),
                       !.slot = [i \in Indexes |-> IF i \in Firsts(state.missing) THEN "waiting" ELSE "none"]]

\* Resolve begins with the clock.
Begin(r) ==
    /\ res[r].pc = "idle"
    /\ res' = [res EXCEPT ![r].pc = IF Indexes = {} THEN "done" ELSE "memory",
                          ![r].at = now, ![r].left = Indexes]
    /\ UNCHANGED <<memory, store, breaker, has, now, silent, faults>>

\* After the last track of the first loop the durable cache is asked for what is missing.
Looked(state) ==
    IF state.left # {} THEN state
    ELSE [state EXCEPT !.pc = IF state.missing = {} THEN "done" ELSE "store"]

\* A loop is through with one track: it is still missing, or has its answer.
Missed(state, i) == [state EXCEPT !.left = @ \ {i}, !.missing = @ \cup {i}]
Given(state, i, answer) == [state EXCEPT !.left = @ \ {i}, !.out[i] = answer]

\* One track: its entry answers if it is fresh, and is the most recent one either way.
Get(r) ==
    /\ res[r].pc = "memory"
    /\ \E i \in Indexes :
        /\ IsNext(i, res[r].left)
        /\ \/ /\ Places(KeyAt(i)) = {}
              /\ res' = [res EXCEPT ![r] = Looked(Missed(res[r], i))]
              /\ UNCHANGED memory
           \/ \E n \in Places(KeyAt(i)) :
              LET e == memory.order[n] IN
              /\ res' = [res EXCEPT ![r] = Looked(
                    IF Fresh(e.found, e.at, res[r].at)
                    THEN Given(res[r], i, IF e.found THEN e.key ELSE "") ELSE Missed(res[r], i))]
              /\ memory' = Touched(n)
    /\ UNCHANGED <<store, breaker, has, now, silent, faults>>

\* FindLyricsByKeys: a row of the key, of lyrics or of their absence.
Cached(k) == store[k].state # "none"

\* fillFromStore: one query, of which the fresh rows are taken.
ReadStore(r) ==
    /\ res[r].pc = "store"
    /\ LET fresh == {i \in res[r].missing :
                        /\ Cached(KeyAt(i))
                        /\ Fresh(store[KeyAt(i)].state = "found", store[KeyAt(i)].at, res[r].at)}
           read == [res[r] EXCEPT !.left = fresh, !.missing = @ \ fresh,
                        !.rows = [i \in Indexes |-> IF i \in fresh THEN store[KeyAt(i)] ELSE NoRow]]
       IN res' = [res EXCEPT ![r] = IF fresh = {} THEN Fetching(read) ELSE [read EXCEPT !.pc = "fill"]]
    /\ UNCHANGED <<memory, store, breaker, has, now, silent, faults>>

\* A failed read is a miss.
MissStore(r) ==
    /\ "store" \in Faults /\ res[r].pc = "store"
    /\ res' = [res EXCEPT ![r] = Fetching(res[r])]
    /\ UNCHANGED <<memory, store, breaker, has, now, silent, faults>>

\* One row goes to its track and to memory.
Fill(r) ==
    /\ res[r].pc = "fill"
    /\ \E i \in Indexes :
        /\ IsNext(i, res[r].left)
        /\ LET row == res[r].rows[i]
               given == Given(res[r], i, IF row.state = "found" THEN KeyAt(i) ELSE "")
               filled == [given EXCEPT !.rows[i] = NoRow]
           IN /\ res' = [res EXCEPT ![r] = IF filled.left = {} THEN Fetching(filled) ELSE filled]
              /\ Put(Entry(KeyAt(i), row.state = "found", row.at))
    /\ UNCHANGED <<store, breaker, has, now, silent, faults>>

Slots(r, state) == {n \in Indexes : res[r].slot[n] = state}

\* For the mutant: an open circuit answers like a provider without the lyrics.
SkippedAsSilent == "silent"
\* ErrOpen: not asked is a failure and not an answer.
Skipped == "failed"

\* The group starts its calls in order, a bounded number at a time.
Call(r, n) ==
    /\ res[r].pc = "fetch" /\ n \in Slots(r, "waiting")
    /\ \A m \in Slots(r, "waiting") : n <= m
    /\ Cardinality(Slots(r, "calling")) < FetchConcurrency
    /\ res' = [res EXCEPT ![r].slot[n] = IF allow THEN "calling" ELSE Skipped]
    /\ faults' = [faults EXCEPT !.probed = @ \/ (allow /\ faults.streak = FailureThreshold)]
    /\ UNCHANGED <<memory, store, breaker, has, now, silent>>

\* The provider answers a call: the lyrics, or that it has none.
Answer(r, n) ==
    /\ res[r].pc = "fetch" /\ n \in Slots(r, "calling")
    /\ LET k == KeyAt(n) IN
        /\ res' = [res EXCEPT ![r].slot[n] = IF k \in has THEN "found" ELSE "silent"]
        /\ silent' = IF k \in has THEN silent ELSE [silent EXCEPT ![k] = now]
    /\ recordSuccess
    /\ UNCHANGED <<memory, store, has, now>>

\* The call fails or times out, perhaps with word of when to come back.
Fault(r, n) ==
    /\ "outage" \in Faults /\ res[r].pc = "fetch" /\ n \in Slots(r, "calling")
    /\ res' = [res EXCEPT ![r].slot[n] = "failed"]
    /\ \E after \in RetryTimes : recordFailure(after)
    /\ UNCHANGED <<memory, store, has, now, silent>>

\* For the mutant: the answers are read by the track's place and not by the key's.
IndexesFrom(r, n) ==
    {i \in res[r].missing : n <= i /\ \A m \in Firsts(res[r].missing) : m <= i => m <= n}
\* byKey: the indexes a slot was fetched for.
IndexesOf(r, n) == {i \in res[r].missing : KeyAt(i) = KeyAt(n)}

\* FetchedAt is the time the resolve began.
FetchedAt(r) == res[r].at

Answered(r) == {n \in Indexes : res[r].slot[n] \in {"found", "silent"}}
AllBack(r) == res[r].pc = "fetch" /\ Slots(r, "waiting") \cup Slots(r, "calling") = {}

\* All calls are back: one answer goes to its tracks and to memory, failures nowhere.
Collect(r) ==
    /\ AllBack(r)
    /\ \E n \in Indexes :
        /\ IsNext(n, res[r].left \cap Answered(r))
        /\ res' = [res EXCEPT
                ![r].left = @ \ {n},
                ![r].pc = IF res[r].left \cap Answered(r) = {n} THEN "save" ELSE @,
                ![r].out = [i \in Indexes |->
                    IF i \in IndexesOf(r, n)
                    THEN IF res[r].slot[n] = "found" THEN KeyAt(n) ELSE "" ELSE @[i]]]
        /\ Put(Entry(KeyAt(n), res[r].slot[n] = "found", FetchedAt(r)))
    /\ UNCHANGED <<store, breaker, has, now, silent, faults>>

\* Nothing was answered: there is nothing to keep.
GiveUp(r) ==
    /\ AllBack(r) /\ Answered(r) = {}
    /\ res' = [res EXCEPT ![r].pc = "done"]
    /\ UNCHANGED <<memory, store, breaker, has, now, silent, faults>>

\* SaveLyrics: the rows of the answers replace whatever is there.
AnsweredKeys(r) == {KeyAt(n) : n \in Answered(r)}
Upserted(r) == [k \in Keys |->
    IF k \notin AnsweredKeys(r) THEN store[k]
    ELSE [state |-> IF k \in {KeyAt(n) : n \in Slots(r, "found")} THEN "found" ELSE "silent",
          at |-> FetchedAt(r)]]

\* SaveMany: one statement, and its failure is only logged.
SaveMany(r) ==
    /\ res[r].pc = "save"
    /\ res' = [res EXCEPT ![r].pc = "done"]
    /\ \/ store' = Upserted(r)
       \/ "store" \in Faults /\ UNCHANGED store
    /\ UNCHANGED <<memory, breaker, has, now, silent, faults>>

-----------------------------------------------------------------------------
\* The process restarts: what it kept in memory is gone, its resolves with it.
Crash ==
    /\ "crash" \in Faults /\ \E r \in Resolves : res[r].pc # "idle"
    /\ memory' = Empty
    /\ breaker' = Closed
    /\ res' = [r \in Resolves |-> IF res[r].pc = "idle" THEN Idle ELSE [Idle EXCEPT !.pc = "done"]]
    /\ faults' = NoFaults
    /\ UNCHANGED <<store, has, now, silent>>

Contribute(k) ==
    /\ k \notin has
    /\ has' = has \cup {k}
    /\ UNCHANGED <<memory, store, breaker, res, now, silent, faults>>

Tick ==
    /\ now < MaxTime
    /\ now' = now + 1
    /\ UNCHANGED <<memory, store, breaker, res, has, silent, faults>>

Next ==
    \/ \E r \in Resolves :
        \/ Begin(r) \/ Get(r) \/ ReadStore(r) \/ MissStore(r) \/ Fill(r)
        \/ \E n \in Indexes : Call(r, n) \/ Answer(r, n) \/ Fault(r, n)
        \/ Collect(r) \/ GiveUp(r) \/ SaveMany(r)
    \/ Crash \/ Tick \/ \E k \in Keys : Contribute(k)

Spec == Init /\ [][Next]_vars

-----------------------------------------------------------------------------
(* Properties. *)

\* The bytes the memory cache charges are those of its entries, each key once,
\* and within the budget, across replacement and eviction (memoryCache.put).
BytesAccounted ==
    /\ memory.used = Bytes(memory.order) /\ memory.used <= Budget
    /\ \A k \in Keys : \A m, n \in Places(k) : m = n

\* "No lyrics" is remembered only when the provider said so, and never longer than
\* its word is good for: an outage, an open circuit or a lost call is no answer,
\* and what it said counts from before it was asked (Resolver.fetchMissing, ErrOpen).
SilenceIsAnswered ==
    /\ \A e \in ToSet(memory.order) : ~e.found => silent[e.key] >= e.at
    /\ \A k \in Keys : store[k].state = "silent" => silent[k] >= store[k].at

\* Every track gets its own lyrics or none, wherever they came from and in whatever
\* order the calls came back (Resolver.fetchMissing).
AnswersOfTheirTrack ==
    \A r \in Resolves, i \in Indexes : res[r].out[i] \in {"", KeyAt(i)}

\* After a run of faults nobody calls the provider before the pause that follows the
\* last of them: our own, which doubles with every further fault up to its cap, or
\* what Retry-After asked for if that is longer, however many calls were under way
\* when the circuit opened, unless one of those succeeded (Client.allow, recordFailure).
Begins(r, n) == n \in Slots(r, "waiting") /\ n \in Slots(r, "calling")'
PauseKept ==
    \A r \in Resolves, n \in Indexes :
        Begins(r, n) /\ faults.streak = FailureThreshold => now > faults.until
PausesAreKept == [][PauseKept]_vars

\* What the comment on allow says: once the pause is over a single call probes the
\* provider, and the next waits for what becomes of it (Client.allow).
ProbedOnce ==
    \A r \in Resolves, n \in Indexes :
        Begins(r, n) /\ faults.streak = FailureThreshold => ~faults.probed
SingleProbe == [][ProbedOnce]_vars
=============================================================================
