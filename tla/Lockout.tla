------------------------------ MODULE Lockout -------------------------------
(***************************************************************************)
(* The failed-attempt guard of one pair of address and identifier: a       *)
(* rolling count in memory under a mutex, a permanent block in table       *)
(* auth_blocks, and the handlers that check before their work and record   *)
(* after it.  Any number of requests follow one another; those of Requests *)
(* are under way at once.                                                  *)
(***************************************************************************)
EXTENDS Integers, FiniteSets

CONSTANTS
    Requests,    \* requests under way at once
    BlockAfter,  \* failures within Window that block the pair
    Window,      \* the period failures are counted over
    MaxClock,    \* bound on the clock
    GuardFaults  \* a subset of GuardFaultKinds

\* "store": a statement on auth_blocks fails.  "crash": the process restarts.
\* "operator": a block is lifted by hand.
GuardFaultKinds == {"store", "crash", "operator"}

\* What the thresholds are: the code blocks after ten failures in fifteen minutes.
ASSUME ThresholdAssumption ==
    /\ IsFiniteSet(Requests) /\ BlockAfter \in Nat \ {0, 1}
    /\ Window \in Nat /\ MaxClock \in Nat \ {0} /\ GuardFaults \subseteq GuardFaultKinds

VARIABLES
    counter,  \* the pair's counter in memory, or NoCounter
    blocked,  \* is the pair in auth_blocks
    req,      \* the requests: where they are, and whether they began after a refusal
    clock,    \* the clock
    hits,     \* history: attempts that failed at each time, since the last that succeeded
    told,     \* history: a caller was told the pair is blocked
    lost      \* history: a block could not be written, a counter was lost, a block lifted

guardVars == <<counter, blocked, req, clock, hits, told, lost>>

NoCounter == [failures |-> 0, resetAt |-> 0]
Away == [pc |-> "idle", late |-> FALSE]
Times == 1 .. MaxClock

\* Most failures that one span of the window can hold: the tail of one counter
\* without its first, another counter, and the requests that were admitted with them.
SpanBound == 2 * BlockAfter - 3 + Cardinality(Requests)
Capped(n) == IF n > SpanBound THEN SpanBound + 1 ELSE n

GuardTypeOK ==
    /\ counter \in [failures : 0 .. SpanBound + 1, resetAt : 0 .. MaxClock + Window]
    /\ blocked \in BOOLEAN
    /\ req \in [Requests -> [pc : {"idle", "working", "over"}, late : BOOLEAN]]
    /\ clock \in Times
    /\ hits \in [Times -> 0 .. SpanBound + 1]
    /\ told \in BOOLEAN /\ lost \in BOOLEAN

GuardInit ==
    /\ counter = NoCounter /\ blocked = FALSE
    /\ req = [r \in Requests |-> Away]
    /\ clock = 1
    /\ hits = [t \in Times |-> 0]
    /\ told = FALSE /\ lost = FALSE

Stands(r, pc) == req[r].pc = pc
Return(r) == req' = [req EXCEPT ![r] = Away]

\* The pair's row in auth_blocks, and whether there is one.
GetAuthBlock == blocked
IsBlocked == GetAuthBlock

-----------------------------------------------------------------------------
\* Check, of guardOrReject: a blocked pair is refused, any other goes on to be
\* verified.  A check that fails answers the request and changes nothing.
Check(r) ==
    /\ Stands(r, "idle") /\ ~IsBlocked
    /\ req' = [req EXCEPT ![r] = [pc |-> "working", late |-> told]]
    /\ UNCHANGED <<counter, blocked, clock, hits, told, lost>>

respondBlocked(r) ==
    /\ Stands(r, "idle") /\ IsBlocked
    /\ told' = TRUE
    /\ UNCHANGED <<counter, blocked, req, clock, hits, lost>>

\* The attempt succeeds: its count is cleared.
Reset(r) ==
    /\ Stands(r, "working")
    /\ counter' = NoCounter
    /\ hits' = [t \in Times |-> 0]
    /\ Return(r)
    /\ UNCHANGED <<blocked, clock, told, lost>>

\* For the mutant: any answer that is no failure clears the count.
ClearedToo == NoCounter
\* What an answer that is no failed attempt leaves of the count.
Exempted == counter
\* An address not yet verified, or already taken, is not counted.
Exempt(r) ==
    /\ Stands(r, "working")
    /\ counter' = Exempted
    /\ Return(r)
    /\ UNCHANGED <<blocked, clock, hits, told, lost>>

\* The counter that a failure is counted in.
currentLocked == IF clock > counter.resetAt THEN [failures |-> 0, resetAt |-> clock + Window] ELSE counter
\* For the mutant: the threshold is off by one.
CrossesLater(failures) == failures > BlockAfter
Crosses(failures) == failures >= BlockAfter

\* RecordFailure, under the mutex: a counter that has run out is replaced.
RecordFailure(r) ==
    /\ Stands(r, "working")
    /\ counter' = [currentLocked EXCEPT !.failures = Capped(@ + 1)]
    /\ hits' = [hits EXCEPT ![clock] = Capped(@ + 1)]
    /\ IF Crosses(counter'.failures) THEN req' = [req EXCEPT ![r].pc = "over"] ELSE Return(r)
    /\ UNCHANGED <<blocked, clock, told, lost>>

\* Block, after the mutex is released: the first block of a pair stays.
Block(r) ==
    /\ Stands(r, "over")
    /\ blocked' = TRUE /\ told' = TRUE
    /\ Return(r)
    /\ UNCHANGED <<counter, clock, hits, lost>>

\* For the mutant: the caller is told of a block that was not written.
ToldAnyway == TRUE
ToldOnError == told

\* The block is not written: the request is answered with an error.
BlockFails(r) ==
    /\ "store" \in GuardFaults /\ Stands(r, "over")
    /\ told' = ToldOnError /\ lost' = TRUE
    /\ Return(r)
    /\ UNCHANGED <<counter, blocked, clock, hits>>

-----------------------------------------------------------------------------
\* The process restarts: the count is disposable, the block is not.
Restart ==
    /\ "crash" \in GuardFaults
    /\ counter # NoCounter \/ \E r \in Requests : ~Stands(r, "idle")
    /\ counter' = NoCounter
    /\ req' = [r \in Requests |-> Away]
    /\ lost' = TRUE
    /\ UNCHANGED <<blocked, clock, hits, told>>

\* DeleteAuthBlock, by hand: the count in memory is left as it is.
Unblock ==
    /\ "operator" \in GuardFaults /\ blocked
    /\ blocked' = FALSE /\ told' = FALSE /\ lost' = TRUE
    /\ req' = [r \in Requests |-> [req[r] EXCEPT !.late = FALSE]]
    /\ UNCHANGED <<counter, clock, hits>>

Elapse ==
    /\ clock < MaxClock
    /\ clock' = clock + 1
    /\ UNCHANGED <<counter, blocked, req, hits, told, lost>>

GuardNext ==
    \/ \E r \in Requests :
        Check(r) \/ respondBlocked(r) \/ Reset(r) \/ Exempt(r) \/ RecordFailure(r) \/ Block(r) \/ BlockFails(r)
    \/ Restart \/ Unblock \/ Elapse

GuardSpec == GuardInit /\ [][GuardNext]_guardVars

-----------------------------------------------------------------------------
(* Properties. *)

\* The failures of h up to a time, and those of a span.
UpTo(h, n) == LET upTo[t \in 0 .. MaxClock] == IF t = 0 THEN 0 ELSE upTo[t - 1] + h[t] IN upTo[n]
FailuresIn(first, last) == UpTo(hits, IF last > MaxClock THEN MaxClock ELSE last) - UpTo(hits, first - 1)

\* However its requests overlap and wherever it starts, no span as long as the
\* window holds more failures than the tail of one counter, another counter and the
\* requests admitted with it: while every block is written and no count is lost
\* (Guard.RecordFailure, counted under the lock and blocked after it).
FailuresBounded == ~lost => \A t \in Times : FailuresIn(t, t + Window) <= SpanBound

\* Once a caller was told that the pair is blocked, no request that began later gets
\* past the check, across errors and restarts, until an operator lifts the block
\* (Guard.RecordFailure writes before it answers).
BlockedStaysBlocked == \A r \in Requests : ~req[r].late
=============================================================================
