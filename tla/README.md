# Aurify, in TLA+

Aurify turns a playlist into cover artwork. A Go service (`src/backend`) reads the
playlist from a streaming platform, analyses its tracks, has a prompt and an image
generated, and stores the result in PostgreSQL. A React client (`src/frontend`)
watches the run over server-sent events. This directory holds the TLA+
specifications of the parts whose correctness depends on the order in which
things happen, their TLC configurations, and the theorems TLAPS checks.

Run everything from this directory: `tlc -config <run>.cfg <module>` with a row of
the table in section 11, for example `tlc -config covers_steady.cfg
MCCoverGeneration`, and `tlapm <module>Proofs.tla` for the eight proof modules.

## 1. Inventory

| Component | State | Operations | What is hard |
|---|---|---|---|
| Cover generation (`app/command/generatecover`) | goroutine per run, its `Cover` and `CoverRevision` structs, its heartbeat goroutine | `Handle`, `run`, `heartbeat`, `fail` | runs in the background of one process and outlives its request; any statement can fail, or commit and report failure |
| Cover storage (`storage/postgres/covers.go`, `query/covers.sql`, migration 00008) | tables `covers` (one row per playlist), `cover_revisions`, `cover_images` | `StartRun`, `Save`, `Touch`, `FailStuck`, `SaveRevision`, `Put`, `Delete`, `DeleteRevision` | the row *is* the lock: it is claimed, kept and released by writes of different actors |
| Sweeper and process (`cmd/api/sweep.go`, `main.go`, `deploy/app/main.tf`) | none of its own | `Reap` at startup, `Sweep` every 30 s | must take dead runs and spare live ones; deployments overlap |
| Cover events (`storage/postgres/watcher.go`, `handlers/covers.go`, `cover-events.ts`, `cover-toasts.tsx`) | subscriptions, one-slot channels, client streams with reference counts | trigger, `listen`, `Subscribe`, `Events`, `watchCover` | notifications are lost while the listener reconnects; the first snapshot precedes the subscription |
| Sessions (`app/sessions`, `storage/postgres/auth.go`) | `sessions`, `refresh_tokens` | issue, rotate, revoke, revoke all, verify | two tabs refresh at once; rotate and revoke lock rows in opposite orders |
| Accounts (`app/command/{signup,signin,verifyemail,requestpasswordreset,resetpassword,federatedsignin}`) | `users`, `user_credentials`, `email_tokens`, `user_identities` | each command is several statements with no transaction around them | interleavings and partial failures between the statements |
| Failed-attempt guard (`app/lockout`) | in-memory windows, table `auth_blocks` | `Check`, `RecordFailure`, `Reset` | count under a lock, block written outside it |
| DSP connections (`app/dspconn`, `connectdsp`, `storage/postgres/users.go`) | `dsp_connections` | `Resolve`, `ConnectDSP`, `Save` | read, modify, replace the whole set |
| Lyrics (`app/lyrics`, `platform/lyrics/breaker`) | LRU cache, durable cache, circuit | `Resolve`, `get`, `put`, `Fetch` | concurrent calls around an opening or closing circuit; byte accounting |
| Track features (`platform/features/acousticbrainz`, `track_features.go`) | pacing clock, versioned cache | `Lookup`, `limiter.wait`, `FindMany`, `SaveMany` | two builds writing one cache; searches that wait for each other |
| Analysis (`analysis`, `platform/nlp`) | none | a pure function | floating-point weighting |
| Transport, upstream clients, crypto, frontend views | none that matters here | | I/O and presentation |

How they interact: a request handler claims a playlist through the storage and
starts a run; the run calls connections, lyrics, features, analysis and the
generators, and writes its stages through the storage; every write of a `covers`
row fires a trigger that the watcher relays to open streams; the sweeper writes the
same rows on a timer; users delete rows at any time.

What makes each correct:

- *generation, storage, sweeper*: one run per playlist; a run that has lost its
  claim changes nothing; a finished cover is left alone; `ready` means that the
  artwork is there; every claim is released.
- *events*: a surface that watches a running cover keeps its stream open, whoever else
  leaves; a client that keeps watching sees the terminal snapshot; a stream nobody may
  have is closed.
- *sessions*: a token rotates once; a revocation leaves no token behind and ends the
  chain; every request is answered, those that deadlock included.
- *accounts*: a link takes effect once; a new reset link kills the older ones; a reset
  signs out what the old password opened, and the old password stays away; Google is
  linked only to a proven address. Each holds but for the overlaps that commands without
  transactions allow, which the properties name.
- *guard*: who was told of a block is not served again; failures within any span are
  bounded, however many requests were let in together.
- *connections*: a consent reaches the user who asked for it; a stored refresh token is
  the one its provider takes, unless a replacement was never learned or never written, or
  a write put back what it had not read.
- *lyrics*: the circuit's pause is kept, doubled or prolonged; the cache never
  exceeds its budget; only an answer is remembered as "no lyrics".
- *track features*: searches keep their interval; an outage is never remembered as "no
  features"; a lookup answers every occurrence of a song alike.

The hazards behind these are listed, each at its line, in `PROJECT.json`.

## 2. Plan

| Order | Module | About | State |
|---|---|---|---|
| 1 | `CoverGeneration` | claim, pipeline, heartbeat, sweep, process, deletions | modelled, checked |
| 2 | `CoverClaim` | abstract: what a generation promises; `CoverGeneration` implements it | by TLC and proved |
| 3 | `CoverGenerationProofs` | type invariant, mutual exclusion, finished rows are stable; what a ready cover shows, the order of its history, and the refinement | proved |
| 4 | `Sessions`, `SessionChain` | tokens and sessions with row locks; the abstract chain they implement | modelled, checked |
| 5 | `SessionsProofs` | every safety property of the run, and the refinement | proved |
| 6 | `CoverEvents`, `CoverEventsProofs` | trigger, listener, subscription, stream, tab | modelled, checked, proved |
| 7 | `Accounts`, `AccountsProofs` (run: `MCRows`) | the commands as statement sequences | modelled, checked, proved |
| 8 | `Lyrics`, `LyricsProofs` (runs: `MCLimits`, `MCLyrics`) | two caches and the circuit under concurrent resolves | modelled, checked, proved |
| 9 | `TrackFeatures`, `TrackFeaturesProofs` (run: `MCLimits`) | rate limit and a cache that two builds write | modelled, checked, proved |
| 10 | `Lockout`, `LockoutProofs` (run: `MCLimits`) | counting under a mutex, blocking after it | modelled, checked, proved |
| 11 | `Connections`, `ConnectionsProofs` (run: `MCRows`) | consent flows, renewal, replacement of the whole set | modelled, checked, proved |

Every safety property and action property that a passing run checks is proved. What is
left: the composition of `Accounts` and `Sessions` over one table of sessions (`RevokeAll`
is an action of both today).

## 3. CoverGeneration

### State

| Variable | In the code |
|---|---|
| `covers` | table `covers`, one row per (user, platform, playlist). `age` is `now - updated_at` in heartbeat intervals, up to the sweep's threshold |
| `revisions`, `images` | tables `cover_revisions` and `cover_images`. `stamp` is `completed_at` by rank within the cover |
| `pc` | the place of the run's goroutine in `run` or `fail` |
| `claim` | the id `StartRun` returned, which the heartbeat and `rev.CoverID` keep |
| `coverId` | `cover.ID` on the run's struct, which every `Save` overwrites with the row's |
| `beating`, `due`, `quiet` | live heartbeat goroutines; those that have not beaten in the current interval; intervals a run has let pass without writing |
| `up`, `draining` | the process; runs of a process that a newer one has replaced |
| `holder`, `removed` | history, read by no guard: whom the claim was granted to last; what a user deleted |

A run, the cover id it would mint and the revision it writes are one name: all
three are fresh UUIDs.

### Actions

Each action is one SQL statement together with the Go code up to it. Upstream calls
touch no table, so a stage's calls are part of the action of the statement that
follows them, and their failure is that action's `"error"` outcome: in both cases
nothing is written and `fail` takes over. `StartRun`, `SaveAnalyzing`,
`SaveGenerating`, `RecordRevision`, `StoreImage`, `StopHeartbeat`, `SaveReady`,
`FailRevision`, `FailCover` and `Unwind` are `Handle`, `run` and `fail` in order;
`Beat` is one tick of the heartbeat; `Tick` is time; `Sweep` and `Reap` are
`sweep.go`; `Crash`, `Boot`, `Deploy` and `Drain` are the process; `DeleteCover` and
`DeleteRevision` are the user, with their cascades.

A statement has up to three outcomes: `"ok"`, `"error"` (nothing written) and
`"lostReply"` (written, but the caller is told it failed). `SaveCover` is keyed by
the playlist and has no status guard, like `UpsertCover`; `Touched` goes by id and
ignores the status, like `TouchCover`.

### The environment

`Faults` and `Deletions` say what the environment does. The properties of
`covers_steady` need, and the theorems assume (`Steady` in
`CoverGenerationProofs`), that

- `MaxQuiet + 1 < StaleAfter`: a live run is not silent for as long as the sweep
  waits. The code's numbers are 30 s and 2 min, so `StaleAfter` is 4 and
  `MaxQuiet` at most 2. `MaxQuiet` also bounds how long the two or three
  statements take that follow the last beat;
- the run's last write is not reported as failed after committing
  (`"lostRelease"`): otherwise `fail` writes a row the run no longer holds;
- deployments do not overlap (`"overlap"`) and covers are not deleted mid-run
  (`"inFlight"`): the violation runs show what happens then.

Statement failures, lost replies of every other statement, crashes at any point,
reaps that fail, lost beats and deletions of finished covers and of any revision are
all allowed. `covers_harsh` assumes none of it: its `Faults` are all there are, the lost
reply of the last write among them, and covers are deleted at any time.

### Properties

| Property | What it says | Run |
|---|---|---|
| `TypeOK` | types | `covers_steady` |
| `OneRunPerPlaylist` | at most one pipeline at work on a playlist | `covers_steady` |
| `ClaimInv` | the inductive invariant behind it: a run at work owns its row, and its row is younger than the sweep's cutoff | `covers_steady` |
| `TerminalIsStable` | a finished row changes only by its user | `covers_steady` |
| `ReadyCoverShowsItsRun` | a cover that reads ready shows the artwork of the run that made it ready, as its newest, unless the user deleted it | `covers_steady` |
| `HistoryOrdered` | revision numbers and completion times agree | `covers_steady` |
| `KeepsContract` | `CoverGeneration` implements `CoverClaim` | `covers_steady` |
| `ClaimReleased` | every claimed playlist is released | `covers_harsh` |

`CoverClaim` is the abstract specification: per playlist what the cover shows and
who was granted the claim, and the set of runs whose artwork can be shown. Only the
holder publishes, withdraws or finishes; it finishes `ready` only after publishing.
The refinement mapping is `Contract` in `CoverGeneration`: a row in flight is
`"running"`, artwork is a ready revision with its bytes. Beats, ticks, stage changes,
crashes and failed statements are stuttering steps.

### Bounds

`covers_steady`: three requests for one playlist (symmetric), `StaleAfter = 3`,
`MaxQuiet = 1`. Three requests let a playlist be claimed, taken away and claimed
again with a late writer still around; one playlist because runs on different
playlists share no row. `StaleAfter = 3` is the least with `MaxQuiet = 1` under
`MaxQuiet + 1 < StaleAfter`. `covers_harsh`: two requests, `StaleAfter = 1`,
`MaxQuiet = 0`, because with `"stall"` time passes without beats and the smallest
threshold already has every race; revisions are not deleted there, which
`ClaimReleased` does not depend on. `age` stops at `StaleAfter` and `quiet` at
`MaxQuiet`; each request is used once, so the state space is finite without further
constraints. `RevisionNumbers` is twice the number of runs, as each run writes its
revision at most twice.

### Fairness

`FairSpec` asks weak fairness of each run's steps and beats (goroutines are
scheduled; every upstream call has a timeout and the run a 15 minute cap, so a stage
ends), of `Tick`, `Sweep` (a timer that is never stopped), `Drain` (Cloud Run kills
a draining instance) and `Boot`, and strong fairness of a boot whose reap succeeds (a
database that fails some reaps does not fail all of them). Nothing is asked of users,
of the success of a statement, or of crashes.

### Where the code and its comments disagree

| Run | Shows |
|---|---|
| `covers_renumber` | `MAX + 1` gives the number of a deleted newest revision to the next run; `domain/cover.go` and ADR 0022 say numbers are never reused |
| `covers_no_bytes` | a crash between `SaveRevision` and `Put` leaves a ready revision with no image, which `generate_cover.go` says cannot be |
| `covers_delete_midrun` | deleting a cover mid-run frees the playlist for a second pipeline |
| `covers_deploy` | a run of the outgoing process moves a reaped, failed cover back to `analyzing`; `sweep.go` says only its terminal write would land, `domain/cover.go` that a terminal status never changes without a user |

### Proofs

`CoverGenerationProofs` proves, for every finite set of runs and every set of
playlists, faults and timings that satisfies the module's assumptions:

- `TypeCorrect`: `Spec => []TypeOK`, action by action, from one lemma per helper;
- `ClaimIsHeld`: under `Steady`, `Spec => []ClaimInv`;
- `Exclusion`: under `Steady`, `Spec => []OneRunPerPlaylist`;
- `FinishedIsStable`: under `Steady`, `Spec => TerminalIsStable`.

`OneRunPerPlaylist` is not inductive: nothing in it keeps the sweep away from a live
run. `ClaimInv` adds what does. The row of a run at work is in flight (so
`ClaimFree` refuses everyone else), carries the id the claim returned (so the run's
beats reach it), was granted to it last (which makes the run unique), and its age is
at most the intervals the run let pass plus the current one, which `Steady` keeps
below `StaleAfter`. The lemma `ClaimKept` says when a step leaves a claim alone,
`OthersKeepClaim` that a step of one run is such a step for all others, and one lemma
per action does the rest. `FinishedIsStable` follows because every write of a run
goes to a row that `ClaimInv` says is in flight.

The second half of the module builds on it, under `Steady` again:

- `ReadyIsTrue`: `Spec => []ReadyCoverShowsItsRun`;
- `HistoryIsOrdered`: `Spec => []HistoryOrdered`;
- `GenerationKeepsContract`: `Spec => KeepsContract`.

All three speak of what a reader sees at the end of a run, so they need to know what
the run had written on the way. `GenerationInv` says it: a row is named by a run of
its playlist and was claimed by one (`IdInv`); every stored revision and every deleted
one belongs to the row that is there, and bytes belong to a revision (`HistoryInv`); a
run short of `recordRevision` has written nothing, one past it has a ready revision
and one past `storeImage` its bytes as well, unless the user took them (`WrittenInv`);
and the revision of a run at work has the highest number and the latest time of its
playlist (`NewestInv`), which is what the two ways `SaveRevision` numbers a row come
down to. `RowKept` and `PlaceKept` describe a step that writes no revision, and
`QuietStep` shows once that every such step keeps the invariant; only `RecordRevision`,
`FailRevision`, `StoreImage` and the deletions need an argument of their own. The
refinement then maps each step: `StartRun` claims, `StoreImage` publishes,
`FailRevision` withdraws, `SaveReady` and `FailCover` finish, `Sweep` and `Boot` revoke,
the deletions drop and forget, and everything else is not seen.

Only model-checked: `ClaimReleased`, whose liveness is out of the prover's reach.

## 4. Sessions and SessionChain

| Variable | In the code |
|---|---|
| `session`, `token` | tables `sessions` and `refresh_tokens`; `from` is the token a rotation replaced |
| `req` | requests between their statements: token and session they hold, the clock they read, the rows their `DELETE` saw, the answer they owe |
| `jar` | the refresh cookie that all tabs of a browser share |
| `now` | the clock |
| `killed`, `late`, `shown` | history: sessions whose revocation deleted their tokens; tokens added after a revocation; how often a token was presented |

`Present`, `ReadSession`, `MarkUsed` and `TouchAndCommit` are `Issuer.Rotate` and
`SessionRepository.Rotate` statement by statement; `RevokeUpdate`, `BeginDelete` and
`FinishDelete` are `SessionRepository.Revoke`; `SignIn` and `RevokeAll` are one
transaction and one statement. Locks are not variables: they follow from where a
transaction stands (`LocksToken`, `LocksSession`), and a statement runs when
`WaitsFor` is empty. PostgreSQL's READ COMMITTED rules are modelled where they bite: an
`UPDATE` with a guard re-evaluates it after waiting, and a `DELETE` sees the rows that
were there when it started. `Abort` is the deadlock detector, `Error` a failing
statement, `LoseReply` a lost answer. A process that dies is a failed request whose
answer is lost.

`SessionChain` says what a session is to its user: one token is good at a time, a token
is good once, an ended session is never started again. `SignIn` is its `Start`,
`TouchAndCommit` its `Advance`, `FinishDelete` its `Drop` (or a stutter, if nothing was
left), `RevokeAll` its `End`, and all other steps stutter.

*Fairness*: strong, of each request's own steps. Weak would not do, since a waiter's
statement is enabled only between two holders of the row; PostgreSQL queues lock waiters,
so newcomers cannot overtake one for ever. Nothing is asked of users or the clock.

*Bounds*: two requests, one session, three tokens, both lifetimes 2 and two ticks. Every
race is between two requests over one session; a third request would repeat one of them.
Three tokens are a first one, its rotation, and a late one. `TokenToSpare` lets a request
begin only while a token is left for it.

*Worth knowing*: `Revoke` after `RevokeAll` finds no active row, locks nothing, and a
rotation can leave a live token row behind (it cannot be used: `ReadSession` refuses the
session), hence `killed` counts only revocations that found their session active. A
sign-out whose access token has lapsed clears the cookie and revokes nothing.

*Proved* (`SessionsProofs`), for any number of requests, sessions and tokens and any
lifetimes: type correctness, `OneLiveToken`, `KilledSessionIsEmpty`,
`RevocationStopsTheChain`, `RotationWithinCap`, `ReuseNeedsTwoPresentations` and the
refinement `KeepsChain`. None of these is inductive, because they speak of the tables
while what keeps them true is held by requests. `SessionInv` adds it: a rotation at its
last statement holds an unused token that no other rotation at that statement holds
(`RequestInv`, `ApartInv`); a revocation that locked a session keeps it active until
its own commit, and its `DELETE` has every token of it (`RequestInv`); a late token is
the last of its session and no rotation gets past the session's row with it (`LateInv`);
what the cookie and the table hold was minted (`JarInv`, `TokenInv`).
`EveryRequestIsAnswered` is liveness and stays with TLC.

## 5. CoverEvents

One cover and one tab. `row` is the cover with its number of writes for `updated_at`;
`listening` and `inbox` are the watcher's connection and what it has not delivered;
`handler` is the `Events` handler with its one-slot channel and the snapshot it sent
last; `wire` is what the browser has not handled; `tab` is the shared stream with its
reference count, the surfaces that hold it and the caches that decide whether they do.

`Generate`, `Progress`, `Settle` and `Delete` write the row; the trigger is part of the
write and a delete fires none. `Fanout`, `DropListen` and `Listen` are `watcher.go`;
`Connect`, `Refuse`, `Subscribe`, `Wake`, `Beat`, `ReadFails` and `Send` are `Events`,
whose first snapshot is read before it subscribes; `Accept`, `PostFails`, `Receive`,
`FetchDetail` and `Navigate` are the client: each changes caches and then runs the effects
that open, share and release the stream (`Effects`, `Watched`). Three surfaces hold it:
the root layout for the generations the tab was granted and for those its list of running
covers names, the gallery, and the page of the cover, of which one is on screen. A tab
begins before the first generation, or is loaded in the middle of it and finds it in that
list (`Loaded`).

`Refuse` is any error response: the cover is gone, the session or the access token is
over, the read fails, the server is being replaced. It is final, since an `EventSource`
does not retry after one. `PostFails` is a generation that was started and whose answer
was lost, or was an error (`GetCover` fails after the start): the tab knows nothing of
it. A granted generation invalidates every query under `['covers']`, the list of running
ones with them; their refetches are answered at once, but for the cover's detail, which
is fetched in a step of its own since a snapshot can overtake it.

The root is where the surprise is. It does not subscribe to the cache entry that tells it
a listed cover has settled (`RootHolds`: it only looks when something else makes it
render), and a snapshot writes only the entries that exist. So the terminal snapshot
closes the stream of a tab loaded in mid-generation while the root goes on counting
itself (`severed`), and when the tab generates the same cover again no effect runs and no
stream is opened. The run `events_reload` shows it without any fault, against the
hook's "Hold a stream open for every running cover" (`commands.ts:81`). `RunningIsWatched`
claims the rest for every tab, reloaded or not.

*Fairness*: weak of the watcher, the handler, its heartbeat, the browser's reconnection
and answers; none of `ReadFails`, so that the fairness of the handler does not force a
failing read. Strong of `Receive`: a connection may break again and again, but not every
one before its first event arrives. Without that, a proxy that cuts every stream at once
would refute `TabLearns`, and rightly so. `TabLearns` starts where a root holds an open
stream and ends, besides, where the stream is refused: nothing repeats a refused one, and
the tab then learns the ending from whatever it fetches next.

*Bounds*: two generations (a second one while the first one's stream or refetch is still
about), four writes, so that a notification can be lost, coalesced and delivered late. A
stream ends by deletion or by the end of the session, not both.

*Left out*: a refetch of the detail that fails, entries collected from the cache while the
tab is open, invalidations by other commands of the tab, and the one refetch of the list
that the first snapshot of an unknown cover asks for (`seenCovers`). `learned` counts an
ending that any cache of the tab shows, a toast only one that the stream delivers.

*Proved* (`CoverEventsProofs`), for any bounds and faults: type correctness, `NoSilentMiss`
(`SignalsAreKept`) and `RunningIsWatched` (`RunningStaysWatched`). Types need more than
types (`Types`): the notifications not yet delivered are at most the row's writes, and the
stream's count is at most the surfaces that hold it, which is open exactly while the count
is not zero. `NoSilentMiss` follows from `Promised`: a handler that serves a connection
and is behind the row has a full slot, or a notification is waiting, or a write was missed
because nobody listened. `RunningIsWatched` follows from `Held`: unless the stream was
severed from its root the count is the number of surfaces that hold it, and while a
granted generation is not known to have settled the root is one of them. What makes
`Held` inductive is that every step of the client ends in `Effects`, whose result is
computed by lemmas of their own. `TabLearns` and `StreamIsReleased` are liveness and stay
with TLC.

## 6. Accounts

| Variable | In the code |
|---|---|
| `user`, `cred`, `identity` | the address's rows in `users`, `user_credentials`, `user_identities` |
| `link`, `mailed` | `email_tokens`, and which of them are in the mailbox |
| `sess` | `sessions`, with the password that opened each |
| `req` | commands between their statements |
| `effects`, `contested`, `halfReset` | history |

A command is a sequence of statements, each an action guarded by the place (`pc`) the one
before left. Reads that follow each other without a write between them are one step.
`Error` ends a command where it stands, which is how the code answers any failing
statement; `Mail` may fail for itself. Initially the address is unknown, waiting for its
verification, or in use with a session, and with `Weak` its password was hashed under
weaker parameters, so that a sign-in stores it again (`Rehash`).

None of the commands runs in a transaction, and the properties say exactly what that
costs. Two reset links can work at once only if one was created while another request
had deleted and not yet created (`contested`). A session of the old password survives a
reset only if its sign-in had checked the password before (`late`) or the reset failed
between storing and signing out (`halfReset`). The old password comes back only through a
writer that was on its way to the same row: a sign-up's first write, or a rehash that
overlapped the reset. Links that expired are not modelled: expiry is one more reason for
`FindLink` to refuse. Each of these exceptions is a hazard the code has no guard
against: the properties claim that there is no other, and nothing claims that
these are harmless.
The type invariant knows that only a first password can have a weak hash: `HashPassword`
uses today's parameters whatever it replaces.

*Bounds*: four commands at a time (three of them symmetric), four links, five sessions. Two
reset requests with two links, or a reset, a sign-in and a sign-up, are the largest races of
the properties; four leave room for one more on top of each.

*Proved* (`AccountsProofs`), for any number of requests, links and sessions: all six
properties of it that the run `rows` checks, the type invariant among them. `AccountInv`
adds to them what a command knows between two statements: which command stands
where (`PlaceInv`), that nothing can be proved about an address without a row
(`RowInv`), that a consumed link is in one pair of hands until it takes
effect (`LinkInv`), that while a reset request stands between deleting and creating only
contested links are live (`ResetLinkInv`), that a sign-in that checked the first
password still matches the account or was overtaken (`PasswordInv`), that a Google
sign-in about to link has a verified account before it (`IdentityInv`).

## 7. Lyrics

`memory` is the LRU cache with the bytes it charges, `store` the table `lyrics_cache`,
`breaker` the circuit, `res` the resolves of generations. `Begin` reads the clock; `Get`
looks one track up in memory, `ReadStore` (or `MissStore`) reads the table for those that
were not there, `Fill` puts one of its rows into memory; `Call`, `Answer` and `Fault` are
the calls of the fetch group around `allow`, `recordSuccess` and `recordFailure`;
`Collect` takes one answer and puts it into memory, `GiveUp` ends the wait of a cancelled
resolve; `SaveMany` writes the table. Each operation of the memory cache locks it for
itself, so each is a step and resolves interleave between them. A lyric is named by its
key and has only a size.

`SilenceIsAnswered` and `AnswersOfTheirTrack` are about what a resolve learns,
`BytesAccounted` about the cache, `PausesAreKept` about the circuit: once enough faults
have come in a row nobody calls before the pause after the last of them is over, which
doubles with each further fault up to its cap and is as long as `Retry-After` asked if
that is longer. A history of its own (`faults`) says when that is. Worth knowing:

- after a pause `allow` lets any number of callers through until one of them fails. The
  comment at `breaker.go:84` speaks of "a single probe"; the run `lyrics_probe` refutes it;
- a call that was under way when the circuit opened closes it when it succeeds late, for
  the code does not tell when a call began; `PausesAreKept` exempts it;
- a later fault sets the pause anew, so one with no `Retry-After` can bring forward a
  pause that an earlier one asked for (`breaker.go:40-41` reads otherwise), and below the
  threshold a `Retry-After` is not looked at (`breaker.go:112-115`);
- calls of a cancelled context count as faults;
- the "nothing" of a slower resolve can overwrite a newer row with lyrics.

*Bounds*: two resolves of the playlist a, b, a. The lyrics of a fill the budget of 2 by
themselves, so any other entry evicts them; those of b have 3 and are over the limit. The
duplicate is looked up once. Threshold 2 is the least that counts, cool-offs 1 and 2 double
once, a `Retry-After` of 3 is longer than either, and time 4 spans a doubled pause and the
end of a remembered "no lyrics" (2). The two resolves stand for any number: they interact
through `memory`, `store` and `breaker` only. `lyrics_probe` has the same instance with no
fault but an outage.

*Proved* (`LyricsProofs`), for any playlist, sizes, budget, thresholds and number of
resolves: the type invariant and the four properties. `LyricsInv` has a part for each
place the truth is kept. `MemoryFine`: the list names each key once, `used` is the sum
of its sizes and within the budget, and "nothing" in it was heard from the provider no
earlier than it says; `StoreFine`: the same of the table; `AsksFine`: the same of what a
resolve holds between two steps, and its answers are keys of the tracks they answer;
`BreakerFine`: the circuit counts the faults in a row, its cool-off is at least our own
schedule, and with enough faults it is open at least as long as the history says;
`HistoryFine`: nothing was heard in the future. The bytes are a recursive sum, so the
proof says what adding, replacing and evicting entries do to it by induction (section
10). `PausesAreKept` is an action property: `LyricsStep` shows that only `Call` begins a
call, and only where `allow` lets it.

## 8. TrackFeatures and Lockout

Both hold callers back, as the breaker of section 7 does, and the three are checked in one
run, `limits`, whose behaviours are each one of one of them (`MCLimits`).

*TrackFeatures*: `FindMany` reads the cache; `Wait`, `Proceed`, `StopSearching`,
`resolve` and `ResolveFails` are the search goroutine with `limiter.wait`, whose
one-slot channel is held while the delay passes; `Fetch` and `FetchFails` are the main
loop over the channel of candidates; `SaveFeatures` writes what was learned, `Cancel`
ends the context and `TimePasses` is the clock (`time`). Names are its own where
`Lyrics` has the same (`LookupSpec`). A process is its build: during a deployment two
builds share the table, each with a limiter of its own. What the two services know of a
track is a constant. The instance has one track with everything, one that was never
analysed and one that has no match, and one song twice; a cap of two lookups, so that
one track is left out; two lookups of the new build (symmetric) and one of the old.
Worth knowing: a track whose low-level fetch fails is stored without a pace and that row
is a hit until a newer build reads it; processes do not pace each other and a restart
forgets the last search; an older build overwrites a newer build's rows, which the newer
then reads as a miss.

*Lockout* names its own clock, constants and specification (`clock`, `GuardSpec`), so
that one module can extend both: one pair of address and identifier. `Check` and
`respondBlocked` precede a request, `RecordFailure`, `Exempt` or `Reset` end it;
counting is under the mutex and `Block` after it. `Restart` loses the count, `Unblock`
is an operator deleting the row. `FailuresBounded` is about what the fixed window really
promises: a span as long as the window can hold the tail of one counter without its
first failure, another counter, and the requests that were admitted with it, 2
`BlockAfter` - 3 + |`Requests`| in all. The bound is tight: with one less TLC finds a
span that exceeds it. Any error of a sign-in counts as a failed attempt, the internal
ones included. The code's sweep of expired counters removes what `currentLocked` would
replace and is not an action. The instance: threshold 3, window 1, two requests, four
units of time; the code's threshold is 10 and its window 15 minutes, which only stretch
the same patterns. ADR 0012 has it that 10 failures in 15 minutes block a pair; at those
numbers two counters and the requests let in together admit up to 17 + |`Requests`| in
such a span, because the window is fixed and not rolling. No run sets the one against
the other.

*Proved* (`LockoutProofs`), for every number of requests, threshold and window
(`ThresholdAssumption`): type correctness, and that `BlockedStaysBlocked` holds
(`BlockIsFinal`). The invariant is that a block somebody was told of is in the table:
then no request passes the check, and no request that began after being told is under
way. `FailuresBounded` (`FailuresAreBounded`) needs `CountInv`, because what bounds a
span is shared between a counter and requests. A counter holds the failures since it
began, its first among them, and none come after it ran out; each failure above the
threshold has *used* a request, which waits to write the block or found the pair
blocked; and what a span reaching into the counter holds from before it, with the larger
of the threshold and the counter, is at most the bound for the requests used so far.
When a counter is replaced, a span that reaches the new one begins after the first
failure of the old one, which is where the bound loses one. The sum over a span is a
difference of two prefix sums, about which the module proves by induction what one more
failure does.

*Proved* (`TrackFeaturesProofs`), for any playlist, builds, caps and intervals: type
correctness and the three properties of the run. `FeaturesInv` says that the rows of the
cache are true of what the services know (`RowsTrue`) and that what a lookup holds is, at
every place it can stand (`LookupsFine`), with which an outage never becomes an absence and
all occurrences of a song are answered by one entry. `PaceInv` says that who waits for its
turn holds the slot of its process until an interval after the last search.

## 9. Connections

`conns` is `dsp_connections`, `session` who is signed in on the browser, `cookie` its flow
cookie, `flow` the consent flows and `res` the requests that use a connection; `grants` is
the provider, with the refresh token it takes of each grant. `Login`, `Callback`,
`Decline`, `Exchange`, `ExchangeFails`, `FindUser` and `Connect` are the flow; `Find`,
`Unchanged`, `RefreshConnection`, `RefreshFails`, `RefreshLost` and `WriteBack` are
`Resolver.Resolve`, `RenewInUse` and `Use` its callers. `Save` replaces the user's whole
set and is one step: its upsert locks the user's row, so two of them follow one another.

A provider may replace the refresh token whenever it renews (`"rotate"`), and then takes no
earlier one. There are three ways to lose the new one: its answer is lost or late
(`RefreshLost`; the client gives up after 15 s), its write fails (`WriteBack`), or it was
made by the client of `authedClient`, which renews an access token that runs out during
the calls and keeps the result to itself (`RenewInUse`). Such a grant is in `lost`. A
write that puts back what it had not read (two requests that overlap, or a request and a
new consent) marks its row `overwritten`. `Renewable` exempts these two and nothing else:
any other connection's stored refresh token is the one its provider takes, or a request
holds that one and is about to write it. So it says of renewal and write-back what the
code does keep: an answer with no refresh token leaves the old one in place, and one with
a new one replaces it in the row it came from.

Worth knowing: "what the database holds is what the next request will use"
(`youtube_music.go:158-159`) and "a refreshed set is written back before it is used"
(`dspconn.go:31-32`) are true of `Resolve` and not of renewals in use. No run sets them
against the code: for as long as the provider keeps the refresh token, which Google
does as a rule, such a renewal costs a second one and nothing else.

The flow cookie is one per browser. A callback whose cookie is another flow's clears it,
so of two attempts in two tabs both fail. Only YouTube Music is live, Spotify and Apple
Music are stubs whose exchange fails. `domain/user.go` describes the tokens as stored as
they are; `Save` encrypts them, which the model leaves out since every read undoes it.

*Bounds*: two users, two platforms (one live), two flows, three requests. The overlaps need
two of each, and the third request lets two renewals that rotated be followed by a
user of the result.

*Proved* (`ConnectionsProofs`), for any sets of users, platforms, flows and requests:
types, `LinksTheStarter` and `Renewable`. `ConnInv` follows credentials through every pair
of hands: the cookie names who started its flow (`CookieInv`), a flow past the callback is
its starter's (`FlowInv`), what is stored and what a request read is of its own user and
platform (`TableInv`, `RequestInv`), and a stored token that is not current is carried by a
request that is about to replace it (`RenewInv`).

## 10. What is proved, and how to read it

Every theorem is of the form `Spec => []Inv` or `Spec => [][A]_vars`, or one of the two
refinements `Spec => KeepsChain` and `Spec => KeepsContract`, for every value of the
constants the modules' assumptions admit, and goes the same way: one lemma per action
and part of the inductive invariant, one step per action that combines them, and one
temporal step. The inductive invariants are `ClaimInv` and `GenerationInv`,
`SessionInv`, `ConnInv`, `AccountInv`, `Types`, `Promised` and `Held`, `FeaturesInv` and
`PaceInv`, `LyricsInv`, `BlockInv` and `CountInv`; TLC agrees with them on small
instances (`ClaimInv` is an invariant of `covers_steady`). The theorems assume what the
modules assume, and one set of them more: `Steady`, for generations (section 3). A
theorem and the run of its property use the same definitions: a configuration only gives
constants their values.

*Induction.* The library's induction theorems take an operator as a parameter, which the
installed provers cannot instantiate. Its statement that a relation is well-founded takes
none. From it `LyricsProofs` and `LockoutProofs` prove that a nonempty set of naturals has a
least element (`LeastNat`), hence that a set of naturals with 0 and the successor of each
member is all of them (`SetInduction`); a property is then proved by induction as the set of
numbers that have it. That a recursive function exists is itself proved so (`SumExists`,
`UpToExists`), and everything about it follows from its steps.

Out of the prover's reach, and so checked by TLC alone: liveness under fairness
(`ClaimReleased`, `EveryRequestIsAnswered`, `TabLearns`, `StreamIsReleased`).

## 11. Runs

| Run | Module | Distinct states | Shows |
|---|---|---|---|
| `covers_steady` | `MCCoverGeneration` | 1 806 195 | a generation under failures, crashes and deletions keeps its contract |
| `covers_harsh` | `MCCoverGeneration` | 549 580 | every claim is released, under every fault the model has |
| `covers_renumber` | `MCCoverGeneration` | violation | a revision's number is reused |
| `covers_no_bytes` | `MCCoverGeneration` | violation | a ready revision without image |
| `covers_delete_midrun` | `MCCoverGeneration` | violation | two pipelines after a deletion mid-run |
| `covers_deploy` | `MCCoverGeneration` | violation | a finished row is moved back during a deployment |
| `sessions` | `MCSessions` | 100 061 | rotations and revocations at once, deadlocks included, implement the chain |
| `events` | `CoverEvents` | 307 363 | a tab, reloaded or not, learns how its generation ended, whatever signal is lost |
| `events_reload` | `CoverEvents` | violation | a reloaded tab that generates again has no stream |
| `lyrics_probe` | `MCLyrics` | violation | more than one call probes a provider after its pause |
| `limits` | `MCLimits` | 2 756 277 | caches and circuit of lyrics under two resolves; rate limit and versioned cache of features; the failed-attempt guard |
| `rows` | `MCRows` | 751 628 | interleaved and failing account commands; consent flows and renewals over one set of connections |

What they check, beyond a type invariant each (the tables of `covers_*` are in section 3):

| Run | Property | Says |
|---|---|---|
| `sessions` | `OneLiveToken` | a session never has two tokens that can be rotated |
| | `KilledSessionIsEmpty` | a revocation leaves no token, not even one a rotation was writing |
| | `RevocationStopsTheChain` | a revoked session is refreshed at most once more, by a rotation that had read it as active |
| | `RotationWithinCap` | no rotation outlives the session's absolute end |
| | `ReuseNeedsTwoPresentations` | a session is killed as reused only if a token was presented twice |
| | `EveryRequestIsAnswered` | no request waits for ever, the victims of a deadlock included |
| | `KeepsChain` | the rows, locks and requests implement `SessionChain` |
| `events` | `NoSilentMiss` | a handler behind the row has a signal coming, unless the write fell where none can |
| | `RunningIsWatched` | a cover the tab knows to be running has its stream open, whatever surface leaves, until its root is severed |
| | `TabLearns` | a root that watches learns how the generation ended, unless its stream is refused |
| | `StreamIsReleased` | a stream of an ended session or a deleted cover is closed |
| `rows` | `LinkWorksOnce` | a link takes effect at most once |
| | `NewLinkKillsOlder` | two reset links work at once only after overlapping requests |
| | `OldPasswordSignedOut` | a reset leaves no session of the earlier password but those of sign-ins it overlapped |
| | `LinkedIsVerified` | Google is linked to proven addresses only |
| | `ResetSticks` | the earlier password comes back only through a writer already on its way |
| | `LinksTheStarter`, `Renewable` | see section 9 |
| `limits` | `BytesAccounted` | the cache charges what it holds, within its budget |
| | `SilenceIsAnswered` | "no lyrics" is remembered only on the provider's word, from before it was asked |
| | `AnswersOfTheirTrack` | every track gets its own lyrics or none |
| | `PausesAreKept` | nobody calls in the pause after the last of a run of faults, doubled or prolonged |
| | `SearchesArePaced` | searches of a process are an interval apart |
| | `OutageIsNotAbsence` | "no features" is remembered of tracks that have none |
| | `AnswersAgree` | a finished lookup answers alike for one song, from its own build or a later one |
| | `FailuresBounded`, `BlockedStaysBlocked` | see section 8 |

`CHECK_DEADLOCK FALSE` where the system may stop: every request, command, run or flow of
the instance has been used and the clock is at its bound. Every property of a passing run
has a mutant in `PROJECT.json`: a plausible bug in the code under which TLC
finds that property violated.

## 12. Not modelled

- *Analysis engine*: a pure function of one playlist over floating-point numbers.
- *Crypto and tokens*: cryptographic primitives; a hash or a signature is the value it
  stands for.
- *HTTP transport*: routing, decoding, CSRF and access-token verification decide a request
  from that request alone. Handlers with state of their own are in the modules above.
- *Upstream clients*: beyond the token exchange, MusicBrainz, AcousticBrainz and LRCLIB,
  they make one stateless request, an answer or a failure of the stage that makes it.
- *Setting playlist artwork*: its resolution of the connection is a request of
  `Connections`; the rest changes no state of the program.
- *Frontend*: rendering, forms, and the single-flight renewal within one tab; `Sessions`
  takes tabs that renew at the same time.
- Rows of different users of covers: `DeleteCover` and `DeleteRevision` are scoped to the
  owner in SQL, and a playlist of the model belongs to one user.
- Reads that change nothing and that no property is about.
- Two clocks: `TouchCover` stamps with the database's clock, `Save` and the sweep's
  cutoff with the process's. The models have one.
- A failing `StartRun`, sweep pass, deletion or `Check`: it changes nothing and is retried
  by its caller or the timer.
- Concurrent transactions inside one statement: each statement is one row-level write, and
  PostgreSQL re-evaluates a conditional write on the latest version. `Sessions` is the
  exception, because its transactions have several statements.
