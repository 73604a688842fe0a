--------------------------- MODULE LockoutProofs ----------------------------
(***************************************************************************)
(* What the failed-attempt guard promises of a block and of the failures   *)
(* it lets through, for any number of requests at once, any threshold and  *)
(* any window.                                                             *)
(***************************************************************************)
EXTENDS Lockout, FiniteSetTheorems, WellFoundedInduction, TLAPS

\* The cap on the counts is a number, and capping stays below it.
LEMMA Capping ==
    SpanBound \in Nat /\ \A n \in Nat : Capped(n) \in 0 .. SpanBound + 1
<1>1. Cardinality(Requests) \in Nat
  BY FS_CardinalityType, ThresholdAssumption
<1>2. SpanBound \in Nat
  BY <1>1, ThresholdAssumption DEF SpanBound
<1> QED
  BY <1>2 DEF Capped

\* The counter, the block and the requests keep their types (Guard, counter).
LEMMA TypedInit == GuardInit => GuardTypeOK
<1> SUFFICES ASSUME GuardInit
             PROVE  GuardTypeOK
  OBVIOUS
<1> USE DEF Away
<1>a. SpanBound \in Nat /\ \A n \in Nat : Capped(n) \in 0 .. SpanBound + 1
  BY Capping
<1>b. Window \in Nat /\ MaxClock \in Nat /\ MaxClock >= 1
  BY ThresholdAssumption
<1>1. NoCounter \in [failures : 0 .. SpanBound + 1, resetAt : 0 .. MaxClock + Window]
  BY <1>a, <1>b DEF NoCounter
<1>2. hits \in [Times -> 0 .. SpanBound + 1] /\ clock \in Times
  BY <1>a, <1>b DEF GuardInit, Times
<1> QED
  BY <1>1, <1>2 DEF GuardInit, GuardTypeOK

LEMMA TypedKept == GuardTypeOK /\ [GuardNext]_guardVars => GuardTypeOK'
<1> SUFFICES ASSUME GuardTypeOK, [GuardNext]_guardVars
             PROVE  GuardTypeOK'
  OBVIOUS
<1> USE DEF Away
<1>a. SpanBound \in Nat /\ \A n \in Nat : Capped(n) \in 0 .. SpanBound + 1
  BY Capping
<1>b. Window \in Nat /\ MaxClock \in Nat /\ MaxClock >= 1
  BY ThresholdAssumption
<1>0. NoCounter \in [failures : 0 .. SpanBound + 1, resetAt : 0 .. MaxClock + Window]
  BY <1>a, <1>b DEF NoCounter
<1> USE <1>0 DEF GuardTypeOK, Stands, Return
<1>1. ASSUME NEW r \in Requests, Check(r)
      PROVE  GuardTypeOK'
  BY <1>1 DEF Check
<1>2. ASSUME NEW r \in Requests, respondBlocked(r)
      PROVE  GuardTypeOK'
  BY <1>2 DEF respondBlocked
<1>3. ASSUME NEW r \in Requests, Reset(r)
      PROVE  GuardTypeOK'
  <2>1. hits' \in [Times -> 0 .. SpanBound + 1]
    BY <1>3, <1>a DEF Reset
  <2> QED
    BY <1>3, <2>1 DEF Reset
<1>4. ASSUME NEW r \in Requests, Exempt(r)
      PROVE  GuardTypeOK'
  BY <1>4 DEF Exempt, Exempted
<1>5. ASSUME NEW r \in Requests, RecordFailure(r)
      PROVE  GuardTypeOK'
  <2>1. currentLocked \in [failures : 0 .. SpanBound + 1, resetAt : 0 .. MaxClock + Window]
    BY <1>a, <1>b DEF currentLocked, Times
  <2>2. counter' \in [failures : 0 .. SpanBound + 1, resetAt : 0 .. MaxClock + Window]
    BY <1>5, <2>1, <1>a DEF RecordFailure
  <2>3. hits' \in [Times -> 0 .. SpanBound + 1]
    <3>1. Capped(hits[clock] + 1) \in 0 .. SpanBound + 1
      BY <1>a
    <3> QED
      BY <1>5, <3>1 DEF RecordFailure
  <2>4. req' \in [Requests -> [pc : {"idle", "working", "over"}, late : BOOLEAN]]
    <3>1. CASE req' = [req EXCEPT ![r].pc = "over"]
      BY <3>1
    <3>2. CASE Return(r)
      BY <3>2
    <3> QED
      BY <1>5, <3>1, <3>2 DEF RecordFailure
  <2> QED
    BY <1>5, <2>2, <2>3, <2>4 DEF RecordFailure
<1>6. ASSUME NEW r \in Requests, Block(r)
      PROVE  GuardTypeOK'
  BY <1>6 DEF Block
<1>7. ASSUME NEW r \in Requests, BlockFails(r)
      PROVE  GuardTypeOK'
  BY <1>7 DEF BlockFails, ToldOnError
<1>8. CASE Restart
  BY <1>8 DEF Restart
<1>9. CASE Unblock
  BY <1>9 DEF Unblock
<1>10. CASE Elapse
  <2>1. clock' \in Times
    BY <1>10, <1>b DEF Elapse, Times
  <2> QED
    BY <1>10, <2>1 DEF Elapse
<1>11. CASE UNCHANGED guardVars
  BY <1>11 DEF guardVars
<1> QED
  BY <1>1, <1>2, <1>3, <1>4, <1>5, <1>6, <1>7, <1>8, <1>9, <1>10, <1>11 DEF GuardNext

THEOREM GuardTyped == GuardSpec => []GuardTypeOK
  BY TypedInit, TypedKept, PTL DEF GuardSpec

-----------------------------------------------------------------------------
\* The part of the types the steps on requests need.
ReqOK == req \in [Requests -> [pc : {"idle", "working", "over"}, late : BOOLEAN]]

\* A caller is told of a block only when it is written: Block writes the row before
\* the answer, BlockFails answers with an error, and only the operator removes a row.
ToldIsWritten == told \in BOOLEAN /\ (told => blocked)

\* The inductive invariant.
BlockInv == ReqOK /\ ToldIsWritten /\ BlockedStaysBlocked

\* The guard starts with nobody blocked and nobody told (NewGuard).
LEMMA BlockInvInit == GuardInit => BlockInv
<1> SUFFICES ASSUME GuardInit
             PROVE  BlockInv
  OBVIOUS
<1>1. ReqOK
  BY DEF GuardInit, ReqOK, Away
<1>2. ToldIsWritten
  BY DEF GuardInit, ToldIsWritten
<1>3. BlockedStaysBlocked
  BY DEF GuardInit, BlockedStaysBlocked, Away
<1> QED
  BY <1>1, <1>2, <1>3 DEF BlockInv

\* Every handler, a restart and the operator keep it.
LEMMA BlockInvKept == BlockInv /\ [GuardNext]_guardVars => BlockInv'
<1> SUFFICES ASSUME BlockInv, [GuardNext]_guardVars
             PROVE  BlockInv'
  OBVIOUS
<1> USE DEF BlockInv, ReqOK, ToldIsWritten, BlockedStaysBlocked, Stands, Return, Away
<1>1. ASSUME NEW r \in Requests, Check(r)
      PROVE  BlockInv'
  <2>1. told = FALSE
    BY <1>1 DEF Check, IsBlocked, GetAuthBlock
  <2> QED
    BY <1>1, <2>1 DEF Check
<1>2. ASSUME NEW r \in Requests, respondBlocked(r)
      PROVE  BlockInv'
  BY <1>2 DEF respondBlocked, IsBlocked, GetAuthBlock
<1>3. ASSUME NEW r \in Requests, Reset(r)
      PROVE  BlockInv'
  BY <1>3 DEF Reset
<1>4. ASSUME NEW r \in Requests, Exempt(r)
      PROVE  BlockInv'
  BY <1>4 DEF Exempt
<1>5. ASSUME NEW r \in Requests, RecordFailure(r)
      PROVE  BlockInv'
  <2>1. CASE req' = [req EXCEPT ![r].pc = "over"]
    BY <1>5, <2>1 DEF RecordFailure
  <2>2. CASE Return(r)
    BY <1>5, <2>2 DEF RecordFailure
  <2> QED
    BY <1>5, <2>1, <2>2 DEF RecordFailure
<1>6. ASSUME NEW r \in Requests, Block(r)
      PROVE  BlockInv'
  BY <1>6 DEF Block
<1>7. ASSUME NEW r \in Requests, BlockFails(r)
      PROVE  BlockInv'
  BY <1>7 DEF BlockFails, ToldOnError
<1>8. CASE Restart
  BY <1>8 DEF Restart
<1>9. CASE Unblock
  BY <1>9 DEF Unblock
<1>10. CASE Elapse
  BY <1>10 DEF Elapse
<1>11. CASE UNCHANGED guardVars
  BY <1>11 DEF guardVars
<1> QED
  BY <1>1, <1>2, <1>3, <1>4, <1>5, <1>6, <1>7, <1>8, <1>9, <1>10, <1>11 DEF GuardNext

\* Once a caller was told that the pair is blocked, no request that began later passes
\* the check, across failed statements and restarts, until an operator lifts the block
\* (Guard.Check, Guard.RecordFailure).
THEOREM BlockIsFinal == GuardSpec => []BlockedStaysBlocked
<1>1. GuardSpec => []BlockInv
  BY BlockInvInit, BlockInvKept, PTL DEF GuardSpec
<1>2. BlockInv => BlockedStaysBlocked
  BY DEF BlockInv
<1> QED
  BY <1>1, <1>2, PTL
-----------------------------------------------------------------------------
(* Induction over the naturals, as facts about sets of them. *)

\* A nonempty set of naturals has a least element.
LEMMA LeastNat ==
    ASSUME NEW T \in SUBSET Nat, T # {}
    PROVE  \E x \in T : \A y \in T : x <= y
<1> DEFINE R == {ss \in Nat \X Nat : ss[1] < ss[2]}
<1>1. IsWellFoundedOn(R, Nat)
  BY NatLessThanWellFounded DEF OpToRel
<1>2. \A x, y \in Nat : y < x => <<y, x>> \in R
  OBVIOUS
<1> HIDE DEF R
<1>3. \E x \in T : \A y \in T : ~(<<y, x>> \in R)
  BY <1>1, WFMin
<1>4. \A x, y \in Nat : ~(y < x) => x <= y
  OBVIOUS
<1> QED
  BY <1>2, <1>3, <1>4

\* A set of naturals with 0 and the successor of each of its members is all of them.
LEMMA SetInduction ==
    ASSUME NEW T \in SUBSET Nat, 0 \in T, \A n \in T : n + 1 \in T
    PROVE  T = Nat
<1> SUFFICES ASSUME Nat \ T # {} PROVE FALSE
  OBVIOUS
<1>1. PICK x \in Nat \ T : \A y \in Nat \ T : x <= y
  BY LeastNat
<1>2. x # 0 /\ x - 1 \in Nat /\ x - 1 \in T
  BY <1>1
<1> QED
  BY <1>1, <1>2

\* An induction along an interval.
LEMMA Along ==
    ASSUME NEW n \in Nat, NEW T \in SUBSET Nat, 0 \in T,
           \A i \in 1 .. n : i - 1 \in T => i \in T
    PROVE  \A i \in 0 .. n : i \in T
<1> DEFINE U == {i \in Nat : i <= n => i \in T}
<1>1. 0 \in U /\ \A i \in U : i + 1 \in U
  OBVIOUS
<1>2. U = Nat
  <2> HIDE DEF U
  <2>1. U \in SUBSET Nat
    BY DEF U
  <2> QED
    BY <1>1, <2>1, SetInduction
<1> QED
  BY <1>2

-----------------------------------------------------------------------------
(* How many failures there were up to a time. *)

Counts == [Times -> Nat]

\* The recursion of UpTo has a solution.
LEMMA UpToExists ==
    ASSUME NEW h \in Counts
    PROVE  \E f : f = [t \in 0 .. MaxClock |-> IF t = 0 THEN 0 ELSE f[t - 1] + h[t]]
<1> DEFINE Solves(f, n) == f[0] = 0 /\ \A t \in 1 .. n : f[t] = f[t - 1] + h[t]
           T == {n \in Nat : n <= MaxClock => \E f \in [0 .. n -> Nat] : Solves(f, n)}
<1>0. MaxClock \in Nat
  BY ThresholdAssumption
<1>1. 0 \in T
  <2> DEFINE f == [t \in 0 .. 0 |-> 0]
  <2>1. f \in [0 .. 0 -> Nat] /\ Solves(f, 0)
    OBVIOUS
  <2> QED
    BY <2>1
<1>2. ASSUME NEW n \in T PROVE n + 1 \in T
  <2>0. n \in Nat /\ n + 1 \in Nat
    OBVIOUS
  <2> SUFFICES ASSUME n + 1 <= MaxClock PROVE \E f \in [0 .. n + 1 -> Nat] : Solves(f, n + 1)
    <3> HIDE DEF Solves
    <3> QED
      BY <2>0
  <2>1. PICK f \in [0 .. n -> Nat] : Solves(f, n)
    <3> HIDE DEF Solves
    <3>1. n <= MaxClock
      BY <1>0, <2>0
    <3> QED
      BY <1>2, <3>1
  <2> DEFINE g == [t \in 0 .. n + 1 |-> IF t <= n THEN f[t] ELSE f[n] + h[n + 1]]
  <2>2. h[n + 1] \in Nat
    BY <1>0, <2>0 DEF Counts, Times
  <2>3. g \in [0 .. n + 1 -> Nat]
    <3>1. f[n] + h[n + 1] \in Nat
      BY <2>1, <2>2
    <3>2. \A t \in 0 .. n : f[t] \in Nat
      BY <2>1
    <3> QED
      BY <3>1, <3>2
  <2>4. g[0] = 0 /\ \A t \in 1 .. n + 1 : g[t] = g[t - 1] + h[t]
    <3>1. g[0] = 0 /\ g[n + 1] = f[n] + h[n + 1] /\ g[n] = f[n]
      BY <2>1
    <3>2. \A t \in 1 .. n : g[t] = f[t] /\ g[t - 1] = f[t - 1] /\ f[t] = f[t - 1] + h[t]
      BY <2>1
    <3>3. \A t \in 1 .. n + 1 : t \in 1 .. n \/ (t = n + 1 /\ t - 1 = n)
      OBVIOUS
    <3> QED
      BY <3>1, <3>2, <3>3
  <2> QED
    BY <2>3, <2>4
<1>3. T = Nat
  <2> HIDE DEF T
  <2>1. T \in SUBSET Nat
    BY DEF T
  <2> QED
    BY <1>1, <1>2, <2>1, SetInduction
<1>4. PICK f \in [0 .. MaxClock -> Nat] : Solves(f, MaxClock)
  <2>1. MaxClock \in T
    BY <1>0, <1>3
  <2>2. MaxClock <= MaxClock
    BY <1>0
  <2> HIDE DEF Solves
  <2> QED
    BY <2>1, <2>2
<1>5. f = [t \in 0 .. MaxClock |-> IF t = 0 THEN 0 ELSE f[t - 1] + h[t]]
  BY <1>4
<1> QED
  BY <1>5

\* What UpTo is, time by time.
LEMMA UpToSteps ==
    ASSUME NEW h \in Counts
    PROVE  UpTo(h, 0) = 0 /\ \A t \in Times : UpTo(h, t) = UpTo(h, t - 1) + h[t]
<1> DEFINE f == CHOOSE f : f = [t \in 0 .. MaxClock |-> IF t = 0 THEN 0 ELSE f[t - 1] + h[t]]
<1>0. MaxClock \in Nat
  BY ThresholdAssumption
<1>1. f = [t \in 0 .. MaxClock |-> IF t = 0 THEN 0 ELSE f[t - 1] + h[t]]
  BY UpToExists
<1>2. \A t : UpTo(h, t) = f[t]
  BY DEF UpTo
<1> HIDE DEF f
<1>3. f[0] = 0 /\ \A t \in Times : f[t] = f[t - 1] + h[t]
  <2>1. \A t \in 0 .. MaxClock : f[t] = IF t = 0 THEN 0 ELSE f[t - 1] + h[t]
    BY <1>1
  <2> QED
    BY <1>0, <2>1 DEF Times
<1> QED
  BY <1>2, <1>3

LEMMA UpToNat ==
    ASSUME NEW h \in Counts
    PROVE  \A t \in 0 .. MaxClock : UpTo(h, t) \in Nat
<1> DEFINE T == {t \in Nat : UpTo(h, t) \in Nat}
<1>0. MaxClock \in Nat
  BY ThresholdAssumption
<1>1. 0 \in T
  BY UpToSteps
<1>2. ASSUME NEW t \in 1 .. MaxClock, t - 1 \in T PROVE t \in T
  <2>1. UpTo(h, t) = UpTo(h, t - 1) + h[t] /\ h[t] \in Nat
    BY <1>0, UpToSteps DEF Times, Counts
  <2>2. UpTo(h, t - 1) \in Nat
    BY <1>2
  <2> QED
    BY <2>1, <2>2
<1>3. \A t \in 0 .. MaxClock : t \in T
  <2> HIDE DEF T
  <2>1. T \in SUBSET Nat
    BY DEF T
  <2> QED
    BY <1>0, <1>1, <1>2, <2>1, Along
<1> QED
  BY <1>3

\* More time holds no fewer failures.
LEMMA UpToGrows ==
    ASSUME NEW h \in Counts, NEW a \in 0 .. MaxClock
    PROVE  \A b \in 0 .. MaxClock : a <= b => UpTo(h, a) <= UpTo(h, b)
<1> DEFINE T == {b \in Nat : a <= b => UpTo(h, a) <= UpTo(h, b)}
<1>0. MaxClock \in Nat
  BY ThresholdAssumption
<1>1. 0 \in T
  <2>1. a <= 0 => a = 0
    OBVIOUS
  <2>2. UpTo(h, 0) <= UpTo(h, 0)
    BY UpToSteps
  <2> QED
    BY <2>1, <2>2
<1>2. ASSUME NEW b \in 1 .. MaxClock, b - 1 \in T PROVE b \in T
  <2>1. UpTo(h, b) = UpTo(h, b - 1) + h[b] /\ h[b] \in Nat
    BY <1>0, UpToSteps DEF Times, Counts
  <2>2. UpTo(h, a) \in Nat /\ UpTo(h, b) \in Nat /\ UpTo(h, b - 1) \in Nat
    BY <1>0, UpToNat
  <2>3. CASE a <= b - 1
    <3>1. UpTo(h, a) <= UpTo(h, b - 1)
      BY <1>2, <2>3
    <3> HIDE DEF T
    <3>2. UpTo(h, a) <= UpTo(h, b)
      BY <2>1, <2>2, <3>1
    <3> QED
      BY <3>2 DEF T
  <2>4. CASE a = b
    BY <2>2, <2>4
  <2>5. a <= b => a <= b - 1 \/ a = b
    OBVIOUS
  <2> QED
    BY <2>3, <2>4, <2>5
<1>3. \A b \in 0 .. MaxClock : b \in T
  <2> HIDE DEF T
  <2>1. T \in SUBSET Nat
    BY DEF T
  <2> QED
    BY <1>0, <1>1, <1>2, <2>1, Along
<1> QED
  BY <1>3

\* Where nothing failed nothing is added.
LEMMA UpToFlat ==
    ASSUME NEW h \in Counts, NEW a \in 0 .. MaxClock, \A t \in Times : t > a => h[t] = 0
    PROVE  \A b \in 0 .. MaxClock : a <= b => UpTo(h, b) = UpTo(h, a)
<1> DEFINE T == {b \in Nat : a <= b => UpTo(h, b) = UpTo(h, a)}
<1>0. MaxClock \in Nat
  BY ThresholdAssumption
<1>1. 0 \in T
  <2>1. a <= 0 => a = 0
    OBVIOUS
  <2> QED
    BY <2>1
<1>2. ASSUME NEW b \in 1 .. MaxClock, b - 1 \in T PROVE b \in T
  <2>1. CASE a <= b - 1
    <3>1. UpTo(h, b) = UpTo(h, b - 1) + h[b] /\ h[b] = 0
      BY <1>0, <2>1, UpToSteps DEF Times
    <3>2. UpTo(h, b - 1) \in Nat
      BY <1>0, UpToNat
    <3>3. UpTo(h, b - 1) = UpTo(h, a)
      BY <1>2, <2>1
    <3> QED
      BY <3>1, <3>2, <3>3
  <2>2. CASE a = b
    BY <2>2
  <2>3. a <= b => a <= b - 1 \/ a = b
    OBVIOUS
  <2> QED
    BY <2>1, <2>2, <2>3
<1>3. \A b \in 0 .. MaxClock : b \in T
  <2> HIDE DEF T
  <2>1. T \in SUBSET Nat
    BY DEF T
  <2> QED
    BY <1>0, <1>1, <1>2, <2>1, Along
<1> QED
  BY <1>3

\* One more failure at a time counts from that time on.
OneMore(h, c) == [h EXCEPT ![c] = h[c] + 1]
LEMMA UpToMore ==
    ASSUME NEW h \in Counts, NEW c \in Times, OneMore(h, c) \in Counts
    PROVE  \A t \in 0 .. MaxClock : UpTo(OneMore(h, c), t) = UpTo(h, t) + (IF t < c THEN 0 ELSE 1)
<1> DEFINE g == OneMore(h, c)
<1> DEFINE T == {t \in Nat : UpTo(g, t) = UpTo(h, t) + (IF t < c THEN 0 ELSE 1)}
<1>0. MaxClock \in Nat /\ c \in Nat /\ c >= 1
  BY ThresholdAssumption DEF Times
<1>g. g \in Counts
  OBVIOUS
<1>1. 0 \in T
  BY <1>0, UpToSteps
<1>2. ASSUME NEW t \in 1 .. MaxClock, t - 1 \in T PROVE t \in T
  <2>0. t \in Times
    BY <1>0 DEF Times
  <2>1. UpTo(h, t) = UpTo(h, t - 1) + h[t] /\ UpTo(g, t) = UpTo(g, t - 1) + g[t]
    <3> HIDE DEF g, T
    <3> QED
      BY <2>0, UpToSteps, <1>g
  <2>2. UpTo(h, t - 1) \in Nat /\ h[t] \in Nat
    BY <1>0, UpToNat DEF Counts, Times
  <2>3. g[t] = IF t = c THEN h[t] + 1 ELSE h[t]
    BY <1>0 DEF Counts, Times, OneMore
  <2>4. UpTo(g, t - 1) = UpTo(h, t - 1) + (IF t - 1 < c THEN 0 ELSE 1)
    BY <1>2
  <2>5. UpTo(g, t) = UpTo(h, t) + (IF t < c THEN 0 ELSE 1)
    <3> HIDE DEF T
    <3>1. CASE t < c
      BY <1>0, <2>1, <2>2, <2>3, <2>4, <3>1
    <3>2. CASE t = c
      BY <1>0, <2>1, <2>2, <2>3, <2>4, <3>2
    <3>3. CASE t > c
      BY <1>0, <2>1, <2>2, <2>3, <2>4, <3>3
    <3> QED
      BY <1>0, <3>1, <3>2, <3>3
  <2> QED
    BY <2>5
<1>3. \A t \in 0 .. MaxClock : t \in T
  <2> HIDE DEF T
  <2>1. T \in SUBSET Nat
    BY DEF T
  <2> QED
    BY <1>0, <1>1, <1>2, <2>1, Along
<1> QED
  BY <1>3

-----------------------------------------------------------------------------
(* What a counter and the requests say of the failures of a span. *)

\* The requests that cannot fail again: they took their count past the threshold, or
\* found nothing to do once the pair was blocked.
Used == {r \in Requests : Stands(r, "over") \/ (blocked /\ ~Stands(r, "working"))}
Most == 2 * BlockAfter - 3 + Cardinality(Used)

\* When the counter began, and the failures from a time until it did.
Since == counter.resetAt - Window
Earlier(t) == UpTo(hits, Since - 1) - UpTo(hits, t - 1)

\* A counter holds the failures since it began, its first among them, and what it has
\* above the threshold is a request each; what a span holds from before it began leaves
\* room for it.
Counting ==
    /\ Since \in 1 .. clock
    /\ hits[Since] >= 1 /\ \A t \in Times : t > counter.resetAt => hits[t] = 0
    /\ counter.failures = UpTo(hits, clock) - UpTo(hits, Since - 1)
    /\ counter.failures <= BlockAfter - 1 + Cardinality(Used)
    /\ \A t \in Times : t < Since /\ t + Window >= Since
          => Earlier(t) + counter.failures <= Most /\ Earlier(t) + BlockAfter - 1 <= Most
Unused == counter = NoCounter /\ \A t \in Times : hits[t] = 0
Past == \A t \in Times : t > clock => hits[t] = 0

\* The inductive invariant.
CountInv == GuardTypeOK /\ FailuresBounded /\ (~lost => Past /\ (Unused \/ Counting))

LEMMA UsedCount ==
    Cardinality(Used) \in Nat /\ Cardinality(Used) <= Cardinality(Requests) /\ Cardinality(Requests) \in Nat
<1>1. Used \subseteq Requests
  BY DEF Used
<1> QED
  BY <1>1, FS_Subset, FS_CardinalityType, ThresholdAssumption

LEMMA TypedCounts ==
    ASSUME GuardTypeOK
    PROVE  /\ MaxClock \in Nat /\ Window \in Nat /\ BlockAfter \in Nat /\ BlockAfter >= 2
           /\ clock \in 1 .. MaxClock /\ Times = 1 .. MaxClock /\ hits \in Counts
           /\ counter.resetAt \in Int /\ counter.failures \in Nat
<1>1. hits \in [Times -> 0 .. SpanBound + 1] /\ SpanBound \in Nat
  BY Capping DEF GuardTypeOK
<1>2. hits \in Counts
  BY <1>1 DEF Counts
<1> QED
  BY <1>2, Capping, ThresholdAssumption DEF GuardTypeOK, Times

\* A counter and the bound on the spans that ended before it bound every span.
LEMMA CountingBounds ==
    ASSUME GuardTypeOK, Past, Counting,
           \A t \in Times : t + Window < Since => FailuresIn(t, t + Window) <= SpanBound
    PROVE  FailuresBounded
<1> SUFFICES ASSUME NEW t \in Times PROVE FailuresIn(t, t + Window) <= SpanBound
  BY DEF FailuresBounded
<1> DEFINE u == Cardinality(Used)
           last == IF t + Window > MaxClock THEN MaxClock ELSE t + Window
           F(n) == UpTo(hits, n)
<1>1. /\ MaxClock \in Nat /\ Window \in Nat /\ BlockAfter \in Nat /\ BlockAfter >= 2
      /\ t \in 1 .. MaxClock /\ clock \in 1 .. MaxClock /\ hits \in Counts
  BY TypedCounts
<1>2. u \in Nat /\ u <= Cardinality(Requests) /\ Cardinality(Requests) \in Nat
  BY UsedCount
<1>3. last \in 1 .. MaxClock /\ t - 1 \in 0 .. MaxClock
  BY <1>1
<1>4. Since \in 1 .. clock /\ Since - 1 \in 0 .. MaxClock
  BY <1>1 DEF Counting
<1>5. F(last) \in Nat /\ F(t - 1) \in Nat /\ F(clock) \in Nat /\ F(Since - 1) \in Nat
  BY <1>1, <1>3, <1>4, UpToNat
<1>6. F(last) <= F(clock)
  <2>1. F(MaxClock) = F(clock)
    BY <1>1, UpToFlat DEF Past
  <2>2. F(last) <= F(MaxClock)
    BY <1>1, <1>3, UpToGrows
  <2> QED
    BY <2>1, <2>2
<1>7. FailuresIn(t, t + Window) = F(last) - F(t - 1)
  BY DEF FailuresIn
<1>8. SpanBound = 2 * BlockAfter - 3 + Cardinality(Requests) /\ Most = 2 * BlockAfter - 3 + u
  BY DEF SpanBound, Most
<1>9. /\ counter.failures = F(clock) - F(Since - 1) /\ counter.failures <= BlockAfter - 1 + u
      /\ t < Since /\ t + Window >= Since => F(Since - 1) - F(t - 1) + counter.failures <= Most
  BY DEF Counting, Earlier
<1>10. t + Window < Since => FailuresIn(t, t + Window) <= SpanBound
  OBVIOUS
<1>11. Since <= t => F(Since - 1) <= F(t - 1)
  BY <1>1, <1>3, <1>4, UpToGrows
<1> HIDE DEF F, u, last
<1>12. CASE t >= Since
  BY <1>1, <1>2, <1>4, <1>5, <1>6, <1>7, <1>8, <1>9, <1>11, <1>12
<1>13. CASE t < Since /\ t + Window >= Since
  BY <1>1, <1>2, <1>4, <1>5, <1>6, <1>7, <1>8, <1>9, <1>13
<1> QED
  BY <1>1, <1>4, <1>10, <1>12, <1>13

\* So does having counted nothing.
LEMMA UnusedBounds ==
    ASSUME GuardTypeOK, Unused
    PROVE  FailuresBounded /\ Past
<1>1. \A n \in 0 .. MaxClock : UpTo(hits, n) = 0
  BY Capping, ThresholdAssumption, UpToFlat, UpToSteps DEF GuardTypeOK, Counts, Unused
<1>2. ASSUME NEW t \in Times PROVE FailuresIn(t, t + Window) <= SpanBound
  <2> DEFINE last == IF t + Window > MaxClock THEN MaxClock ELSE t + Window
  <2>1. last \in 0 .. MaxClock /\ t - 1 \in 0 .. MaxClock
    BY ThresholdAssumption DEF Times
  <2>2. FailuresIn(t, t + Window) = UpTo(hits, last) - UpTo(hits, t - 1)
    BY DEF FailuresIn
  <2> HIDE DEF last
  <2>3. FailuresIn(t, t + Window) = 0
    BY <1>1, <2>1, <2>2
  <2> QED
    BY <2>3, Capping
<1> QED
  BY <1>2 DEF FailuresBounded, Past, Unused

\* A step that counts nothing and lets no used request fail again keeps the invariant.
LEMMA CountKept ==
    ASSUME CountInv, GuardTypeOK', UNCHANGED <<counter, hits, clock, lost>>, Used \subseteq Used'
    PROVE  CountInv'
<1>1. /\ Cardinality(Used) <= Cardinality(Used') /\ Cardinality(Used) \in Nat
      /\ Cardinality(Used') \in Nat
  <2>1. Used' \subseteq Requests
    BY DEF Used
  <2> QED
    BY <2>1, FS_Subset, FS_CardinalityType, ThresholdAssumption
<1>2. FailuresBounded'
  BY DEF CountInv, FailuresBounded, FailuresIn
<1>3. ~lost' => Past' /\ (Unused \/ Counting)
  BY DEF CountInv, Past
<1>4. Unused => Unused'
  BY DEF Unused
<1>5. Counting => Counting'
  <2> SUFFICES ASSUME Counting PROVE Counting'
    OBVIOUS
  <2> DEFINE u == Cardinality(Used)  v == Cardinality(Used')
  <2>1. Since' = Since /\ \A t : Earlier(t)' = Earlier(t)
    BY DEF Since, Earlier
  <2>2. Most = 2 * BlockAfter - 3 + u /\ Most' = 2 * BlockAfter - 3 + v
    BY DEF Most
  <2>3. u \in Nat /\ v \in Nat /\ u <= v /\ BlockAfter \in Nat
    BY <1>1, ThresholdAssumption
  <2>4. Since \in Int /\ counter.failures \in Int
    BY Capping, ThresholdAssumption DEF GuardTypeOK, Since, CountInv
  <2>5. ASSUME NEW t \in Times, t < Since, t + Window >= Since
        PROVE  Earlier(t) + counter.failures <= Most' /\ Earlier(t) + BlockAfter - 1 <= Most'
    <3>1. Earlier(t) + counter.failures <= Most /\ Earlier(t) + BlockAfter - 1 <= Most
      BY <2>5 DEF Counting
    <3>2. Earlier(t) \in Int
      <4>1. hits \in Counts
        BY Capping DEF GuardTypeOK, Counts, CountInv
      <4>2. Since - 1 \in 0 .. MaxClock /\ t - 1 \in 0 .. MaxClock
        BY ThresholdAssumption DEF Counting, Times, CountInv, GuardTypeOK
      <4>3. UpTo(hits, Since - 1) \in Nat /\ UpTo(hits, t - 1) \in Nat
        BY <4>1, <4>2, UpToNat
      <4> QED
        BY <4>3 DEF Earlier
    <3> HIDE DEF u, v
    <3> QED
      BY <2>2, <2>3, <2>4, <3>1, <3>2
  <2>6. counter.failures <= BlockAfter - 1 + v
    <3>1. counter.failures <= BlockAfter - 1 + u
      BY DEF Counting
    <3> HIDE DEF u, v
    <3> QED
      BY <2>3, <2>4, <3>1
  <2>7. /\ Since \in 1 .. clock /\ hits[Since] >= 1
        /\ \A t \in Times : t > counter.resetAt => hits[t] = 0
        /\ counter.failures = UpTo(hits, clock) - UpTo(hits, Since - 1)
    BY DEF Counting
  <2> QED
    BY <2>1, <2>5, <2>6, <2>7 DEF Counting
<1> QED
  BY <1>2, <1>3, <1>4, <1>5 DEF CountInv

\* A request that ends without a failure cannot fail again once the pair is blocked.
LEMMA QuietKept ==
    ASSUME CountInv, GuardTypeOK', NEW r \in Requests,
           Check(r) \/ respondBlocked(r) \/ Exempt(r) \/ Block(r)
    PROVE  CountInv'
<1> USE DEF Stands, Return
<1>1. UNCHANGED <<counter, hits, clock, lost>>
  BY DEF Check, respondBlocked, Exempt, Exempted, Block
<1>2. \A q \in Requests : q # r => req'[q] = req[q]
  BY DEF Check, respondBlocked, Exempt, Block, CountInv, GuardTypeOK
<1>3. req \in [Requests -> [pc : {"idle", "working", "over"}, late : BOOLEAN]]
  BY DEF CountInv, GuardTypeOK
<1>4. Used \subseteq Used'
  <2>1. CASE Check(r)
    <3>1. r \notin Used /\ blocked' = blocked
      BY <2>1 DEF Check, IsBlocked, GetAuthBlock, Used
    <3> QED
      BY <1>2, <3>1 DEF Used
  <2>2. CASE respondBlocked(r)
    BY <2>2 DEF respondBlocked, Used
  <2>3. CASE Exempt(r)
    <3>1. r \notin Used /\ blocked' = blocked
      BY <2>3 DEF Exempt, Used
    <3> QED
      BY <1>2, <3>1 DEF Used
  <2>4. CASE Block(r)
    <3>1. blocked' = TRUE /\ req'[r].pc = "idle"
      BY <1>3, <2>4 DEF Block, Away
    <3> QED
      BY <1>2, <1>3, <3>1 DEF Used
  <2> QED
    BY <2>1, <2>2, <2>3, <2>4
<1> QED
  BY <1>1, <1>4, CountKept

LEMMA ElapseKept ==
    ASSUME CountInv, GuardTypeOK', Elapse
    PROVE  CountInv'
<1>1. UNCHANGED <<counter, blocked, req, hits, lost>> /\ clock' = clock + 1 /\ clock < MaxClock
  BY DEF Elapse
<1>2. FailuresBounded'
  BY <1>1 DEF CountInv, FailuresBounded, FailuresIn
<1>3. MaxClock \in Nat /\ clock \in 1 .. MaxClock /\ clock + 1 \in 1 .. MaxClock /\ hits \in Counts
  BY <1>1, TypedCounts DEF CountInv
<1>4. Past => Past'
  BY <1>1, <1>3 DEF Past, Times
<1>5. Unused => Unused'
  BY <1>1 DEF Unused
<1>6. ASSUME Past, Counting PROVE Counting'
  <2>1. UpTo(hits, clock + 1) = UpTo(hits, clock)
    BY <1>3, <1>6, UpToFlat DEF Past
  <2>2. Used' = Used /\ Most' = Most /\ Since' = Since /\ \A t : Earlier(t)' = Earlier(t)
    BY <1>1 DEF Used, Most, Since, Earlier, Stands
  <2>3. Since \in 1 .. clock' /\ hits[Since] >= 1
    BY <1>1, <1>3, <1>6 DEF Counting
  <2> QED
    BY <1>1, <1>6, <2>1, <2>2, <2>3 DEF Counting
<1> QED
  BY <1>1, <1>2, <1>4, <1>5, <1>6 DEF CountInv

\* A count that is cleared starts anew, with the history of failures.
LEMMA ResetKept ==
    ASSUME CountInv, GuardTypeOK', NEW r \in Requests, Reset(r)
    PROVE  CountInv'
<1>1. Unused'
  BY DEF Reset, Unused
<1>2. (GuardTypeOK /\ Unused => FailuresBounded /\ Past)'
  BY UnusedBounds, PTL
<1> QED
  BY <1>1, <1>2 DEF CountInv

\* A request at work is not used, and used it is once it takes the count past the threshold.
LEMMA UsedByFailure ==
    ASSUME GuardTypeOK, NEW r \in Requests, RecordFailure(r)
    PROVE  /\ Cardinality(Used) + 1 <= Cardinality(Requests)
           /\ Cardinality(Used') \in Nat /\ Cardinality(Used) <= Cardinality(Used')
           /\ Crosses(counter'.failures) => Cardinality(Used) + 1 <= Cardinality(Used')
<1> USE DEF Stands, Return
<1>1. r \notin Used /\ blocked' = blocked
  BY DEF RecordFailure, Used
<1>2. \A q \in Requests : q # r => req'[q] = req[q]
  BY DEF RecordFailure, GuardTypeOK
<1>3. Used \subseteq Used' /\ Used \subseteq Requests /\ Used' \subseteq Requests
  BY <1>1, <1>2 DEF Used
<1>4. Crosses(counter'.failures) => r \in Used'
  <2> SUFFICES ASSUME Crosses(counter'.failures) PROVE r \in Used'
    OBVIOUS
  <2>1. req'[r].pc = "over"
    BY DEF RecordFailure, GuardTypeOK
  <2> QED
    BY <2>1 DEF Used
<1>5. IsFiniteSet(Used) /\ IsFiniteSet(Used') /\ IsFiniteSet(Requests)
  BY <1>3, FS_Subset, ThresholdAssumption
<1>6. Cardinality(Used \cup {r}) = Cardinality(Used) + 1 /\ IsFiniteSet(Used \cup {r})
  BY <1>1, <1>5, FS_AddElement
<1>7. Cardinality(Used \cup {r}) <= Cardinality(Requests)
  BY <1>3, <1>5, FS_Subset
<1>8. Cardinality(Used') \in Nat /\ Cardinality(Used) <= Cardinality(Used')
  BY <1>3, <1>5, FS_Subset, FS_CardinalityType
<1>9. Crosses(counter'.failures) => Cardinality(Used \cup {r}) <= Cardinality(Used')
  <2> SUFFICES ASSUME Crosses(counter'.failures) PROVE Cardinality(Used \cup {r}) <= Cardinality(Used')
    OBVIOUS
  <2>1. Used \cup {r} \subseteq Used'
    BY <1>3, <1>4
  <2> QED
    BY <1>5, <2>1, FS_Subset
<1> QED
  BY <1>6, <1>7, <1>8, <1>9

\* What a failure does to the counts, which its cap never meets.
LEMMA FailureCounts ==
    ASSUME CountInv, ~lost, GuardTypeOK', NEW r \in Requests, RecordFailure(r)
    PROVE  /\ hits \in Counts /\ hits' \in Counts /\ hits' = [hits EXCEPT ![clock] = hits[clock] + 1]
           /\ counter' = [currentLocked EXCEPT !.failures = currentLocked.failures + 1]
           /\ \A n \in 0 .. MaxClock : UpTo(hits', n) = UpTo(hits, n) + (IF n < clock THEN 0 ELSE 1)
<1> DEFINE u == Cardinality(Used)  F(n) == UpTo(hits, n)
<1>1. /\ MaxClock \in Nat /\ Window \in Nat /\ BlockAfter \in Nat /\ BlockAfter >= 2
      /\ clock \in 1 .. MaxClock /\ hits \in Counts /\ hits' \in Counts /\ clock \in Times
  <2>1. (GuardTypeOK => hits \in Counts)'
    BY TypedCounts, PTL
  <2> QED
    BY <2>1, TypedCounts DEF CountInv
<1>2. u \in Nat /\ u + 1 <= Cardinality(Requests) /\ Cardinality(Requests) \in Nat
  BY UsedCount, UsedByFailure DEF CountInv
<1>3. SpanBound = 2 * BlockAfter - 3 + Cardinality(Requests)
  BY DEF SpanBound
<1>4. /\ hits[clock] \in Nat /\ hits[clock] < SpanBound
      /\ counter.failures \in Nat /\ counter.failures < SpanBound
  <2>0. hits[clock] \in Nat
    BY <1>1 DEF Counts
  <2>1. CASE Unused
    <3>1. hits[clock] = 0 /\ counter.failures = 0
      BY <1>1, <2>1 DEF Unused, NoCounter
    <3> HIDE DEF u
    <3> QED
      BY <1>1, <1>2, <1>3, <3>1
  <2>2. CASE Counting
    <3>1. Since - 1 \in 0 .. MaxClock /\ Since - 1 <= clock - 1 /\ clock - 1 \in 0 .. MaxClock
      BY <1>1, <2>2 DEF Counting
    <3>2. F(Since - 1) \in Nat /\ F(clock - 1) \in Nat /\ F(clock) \in Nat /\ F(Since - 1) <= F(clock - 1)
      BY <1>1, <3>1, UpToNat, UpToGrows
    <3>3. F(clock) = F(clock - 1) + hits[clock]
      BY <1>1, UpToSteps
    <3>4. counter.failures = F(clock) - F(Since - 1) /\ counter.failures <= BlockAfter - 1 + u
      BY <2>2 DEF Counting
    <3> HIDE DEF F, u
    <3> QED
      BY <1>1, <1>2, <1>3, <2>0, <3>2, <3>3, <3>4
  <2> QED
    BY <2>1, <2>2 DEF CountInv
<1>5. currentLocked.failures \in Nat /\ currentLocked.failures < SpanBound
  <2>1. currentLocked.failures = 0 \/ currentLocked.failures = counter.failures
    BY DEF currentLocked
  <2> QED
    BY <1>4, <2>1, Capping
<1>6. \A n \in Nat : n < SpanBound => Capped(n + 1) = n + 1
  BY Capping DEF Capped
<1>7. hits' = [hits EXCEPT ![clock] = hits[clock] + 1]
  BY <1>4, <1>6 DEF RecordFailure
<1>8. counter' = [currentLocked EXCEPT !.failures = currentLocked.failures + 1]
  BY <1>5, <1>6 DEF RecordFailure
<1>9. \A n \in 0 .. MaxClock : UpTo(hits', n) = UpTo(hits, n) + (IF n < clock THEN 0 ELSE 1)
  <2>1. OneMore(hits, clock) = hits'
    BY <1>7 DEF OneMore
  <2> HIDE DEF F, u
  <2> QED
    BY <1>1, <2>1, UpToMore
<1> QED
  BY <1>1, <1>7, <1>8, <1>9

\* A failure counted in the counter that is there.
LEMMA SameCounter ==
    ASSUME CountInv, ~lost, GuardTypeOK', NEW r \in Requests, RecordFailure(r), Counting,
           clock <= counter.resetAt
    PROVE  Counting' /\ Since' = Since
<1> DEFINE u == Cardinality(Used)  v == Cardinality(Used')  f == counter.failures
           F(n) == UpTo(hits, n)  G(n) == UpTo(hits', n)
<1>1. /\ MaxClock \in Nat /\ Window \in Nat /\ BlockAfter \in Nat /\ BlockAfter >= 2
      /\ clock \in 1 .. MaxClock /\ Times = 1 .. MaxClock
      /\ counter.resetAt \in Int /\ f \in Nat
  BY TypedCounts DEF CountInv
<1>2. /\ hits \in Counts /\ hits' = [hits EXCEPT ![clock] = hits[clock] + 1] /\ clock' = clock
      /\ \A n \in 0 .. MaxClock : G(n) = F(n) + (IF n < clock THEN 0 ELSE 1)
      /\ \A n \in 0 .. MaxClock : F(n) \in Nat
  BY FailureCounts, UpToNat DEF RecordFailure
<1>3. currentLocked = counter
  BY <1>1 DEF currentLocked
<1>4. counter'.failures = f + 1 /\ counter'.resetAt = counter.resetAt
  BY <1>3, FailureCounts DEF CountInv, GuardTypeOK
<1>5. /\ u \in Nat /\ v \in Nat /\ u <= v /\ (f + 1 >= BlockAfter => u + 1 <= v)
  BY <1>4, UsedCount, UsedByFailure DEF CountInv, Crosses
<1>6. Since' = Since /\ Since \in 1 .. clock
  BY <1>4 DEF Since, Counting
<1>7. Most = 2 * BlockAfter - 3 + u /\ Most' = 2 * BlockAfter - 3 + v
  BY DEF Most
<1>8. f = F(clock) - F(Since - 1) /\ f <= BlockAfter - 1 + u
  BY DEF Counting
<1>9. counter'.failures = G(clock) - G(Since - 1)
  <2>0. clock \in 0 .. MaxClock /\ Since - 1 \in 0 .. MaxClock /\ Since - 1 < clock /\ ~(clock < clock)
    BY <1>1, <1>6
  <2> HIDE DEF F, G
  <2>1. /\ G(clock) = F(clock) + 1 /\ F(clock) \in Nat
        /\ G(Since - 1) = F(Since - 1) + 0 /\ F(Since - 1) \in Nat
    BY <1>2, <2>0
  <2> QED
    BY <1>1, <1>4, <1>8, <2>1
<1>10. counter'.failures <= BlockAfter - 1 + v
  <2> HIDE DEF F, G, u, v, f
  <2> QED
    BY <1>1, <1>4, <1>5, <1>8
<1>11. ASSUME NEW t \in Times, t < Since, t + Window >= Since
       PROVE  Earlier(t)' + counter'.failures <= Most' /\ Earlier(t)' + BlockAfter - 1 <= Most'
  <2>0. /\ t - 1 \in 0 .. MaxClock /\ t - 1 < clock
        /\ Since - 1 \in 0 .. MaxClock /\ Since - 1 < clock
    BY <1>1, <1>6, <1>11
  <2>1. G(Since - 1) = F(Since - 1) /\ G(t - 1) = F(t - 1) /\ F(t - 1) \in Nat /\ F(Since - 1) \in Nat
    <3> HIDE DEF F, G
    <3>1. G(Since - 1) = F(Since - 1) + 0 /\ G(t - 1) = F(t - 1) + 0 /\ F(t - 1) \in Nat /\ F(Since - 1) \in Nat
      BY <1>2, <2>0
    <3> QED
      BY <3>1
  <2>2. Earlier(t)' = Earlier(t) /\ Earlier(t) \in Int
    BY <1>6, <2>1 DEF Earlier
  <2>3. Earlier(t) + f <= Most /\ Earlier(t) + BlockAfter - 1 <= Most
    BY <1>11 DEF Counting
  <2> HIDE DEF F, G, u, v, f
  <2>4. CASE f + 1 >= BlockAfter
    BY <1>1, <1>4, <1>5, <1>7, <2>2, <2>3, <2>4
  <2>5. CASE ~(f + 1 >= BlockAfter)
    BY <1>1, <1>4, <1>5, <1>7, <2>2, <2>3, <2>5
  <2> QED
    BY <2>4, <2>5
<1>12. hits'[Since] >= 1
  <2>1. Since \in Times /\ hits[Since] \in Nat /\ hits[Since] >= 1
    BY <1>1, <1>2, <1>6 DEF Counts, Counting
  <2>2. hits'[Since] = hits[Since] \/ hits'[Since] = hits[Since] + 1
    BY <1>1, <1>2, <2>1 DEF Counts
  <2> QED
    BY <2>1, <2>2
<1>13. \A t \in Times : t > counter.resetAt => hits'[t] = 0
  <2> SUFFICES ASSUME NEW t \in Times, t > counter.resetAt PROVE hits'[t] = 0
    OBVIOUS
  <2>1. hits[t] = 0
    BY DEF Counting
  <2>2. t # clock
    BY <1>1
  <2> QED
    BY <1>2, <2>1, <2>2 DEF Counts
<1> HIDE DEF u, v, f, F, G
<1> QED
  BY <1>2, <1>4, <1>6, <1>9, <1>10, <1>11, <1>12, <1>13 DEF Counting, v, G

\* A failure that begins a counter: what a span reaching it holds from before is what
\* the earlier counter held without its first.
LEMMA NewCounter ==
    ASSUME CountInv, ~lost, GuardTypeOK', NEW r \in Requests, RecordFailure(r),
           Unused \/ (Counting /\ clock > counter.resetAt)
    PROVE  Counting' /\ Since' = clock
<1> DEFINE u == Cardinality(Used)  v == Cardinality(Used')
           F(n) == UpTo(hits, n)  G(n) == UpTo(hits', n)
<1>1. /\ MaxClock \in Nat /\ Window \in Nat /\ BlockAfter \in Nat /\ BlockAfter >= 2
      /\ clock \in 1 .. MaxClock /\ Times = 1 .. MaxClock
      /\ counter.resetAt \in Int /\ counter.failures \in Nat
  BY TypedCounts DEF CountInv
<1>2. /\ hits \in Counts /\ hits' = [hits EXCEPT ![clock] = hits[clock] + 1] /\ clock' = clock
      /\ \A n \in 0 .. MaxClock : G(n) = F(n) + (IF n < clock THEN 0 ELSE 1)
      /\ \A n \in 0 .. MaxClock : F(n) \in Nat
      /\ F(clock) = F(clock - 1) + hits[clock]
  BY <1>1, FailureCounts, UpToNat, UpToSteps DEF RecordFailure
<1>3. clock > counter.resetAt
  BY <1>1 DEF Unused, NoCounter
<1>4. counter'.failures = 1 /\ counter'.resetAt = clock + Window
  BY <1>3, FailureCounts DEF currentLocked
<1>5. u \in Nat /\ v \in Nat /\ u <= v
  BY UsedCount, UsedByFailure DEF CountInv
<1>6. Since' = clock
  BY <1>1, <1>4 DEF Since
<1>7. Most' = 2 * BlockAfter - 3 + v
  BY DEF Most
<1>8. hits[clock] = 0 /\ \A t \in Times : t > clock => hits[t] = 0
  BY <1>1, <1>3 DEF Unused, Counting, CountInv, Past
<1>9. counter'.failures = G(clock) - G(clock - 1)
  <2>0. clock \in 0 .. MaxClock /\ clock - 1 \in 0 .. MaxClock /\ clock - 1 < clock /\ ~(clock < clock)
    BY <1>1
  <2> HIDE DEF F, G
  <2>1. /\ G(clock) = F(clock) + 1 /\ F(clock) \in Nat /\ F(clock) = F(clock - 1) + 0
        /\ G(clock - 1) = F(clock - 1) + 0 /\ F(clock - 1) \in Nat
    BY <1>2, <1>8, <2>0
  <2> QED
    BY <1>4, <2>1
<1>10. counter'.failures <= BlockAfter - 1 + v
  <2> HIDE DEF u, v
  <2> QED
    BY <1>1, <1>4, <1>5
<1>11. ASSUME NEW t \in Times, t < clock, t + Window >= clock
       PROVE  Earlier(t)' + 1 <= Most' /\ Earlier(t)' + BlockAfter - 1 <= Most'
  <2>0. /\ t - 1 \in 0 .. MaxClock /\ t - 1 < clock
        /\ clock - 1 \in 0 .. MaxClock /\ clock - 1 < clock
    BY <1>1, <1>11
  <2>1. G(clock - 1) = F(clock - 1) /\ G(t - 1) = F(t - 1) /\ F(t - 1) \in Nat /\ F(clock - 1) \in Nat
    <3> HIDE DEF F, G
    <3>1. G(clock - 1) = F(clock - 1) + 0 /\ G(t - 1) = F(t - 1) + 0 /\ F(t - 1) \in Nat /\ F(clock - 1) \in Nat
      BY <1>2, <2>0
    <3> QED
      BY <3>1
  <2>2. Earlier(t)' = F(clock - 1) - F(t - 1)
    BY <1>6, <2>1 DEF Earlier
  <2>3. F(clock - 1) - F(t - 1) <= BlockAfter - 2 + u
    <3>1. CASE Unused
      <4>1. \A n \in 0 .. MaxClock : F(n) = 0
        <5>1. \A t0 \in Times : t0 > 0 => hits[t0] = 0
          BY <3>1 DEF Unused
        <5>2. 0 \in 0 .. MaxClock /\ \A n \in 0 .. MaxClock : 0 <= n
          BY <1>1
        <5>3. UpTo(hits, 0) = 0
          BY <1>2, UpToSteps
        <5> QED
          BY <1>2, <5>1, <5>2, <5>3, UpToFlat
      <4>2. F(clock - 1) = 0 /\ F(t - 1) = 0
        BY <1>1, <4>1
      <4> HIDE DEF F, u
      <4> QED
        BY <1>1, <1>5, <4>2
    <3>2. CASE Counting /\ clock > counter.resetAt
      <4>1. Since \in 1 .. clock /\ Since \in Times /\ Since + Window = counter.resetAt
        BY <1>1, <3>2 DEF Counting, Since
      <4>2. Since <= t - 1 /\ t - 1 \in 0 .. MaxClock /\ Since \in 0 .. MaxClock
        BY <1>1, <1>11, <3>2, <4>1
      <4>3. F(Since) <= F(t - 1) /\ F(Since) \in Nat /\ F(Since - 1) \in Nat /\ F(clock) \in Nat
        BY <1>1, <1>2, <4>1, <4>2, UpToGrows
      <4>4. F(Since) = F(Since - 1) + hits[Since] /\ hits[Since] >= 1 /\ hits[Since] \in Nat
        BY <1>2, <3>2, <4>1, UpToSteps DEF Counting, Counts
      <4>5. counter.failures = F(clock) - F(Since - 1) /\ counter.failures <= BlockAfter - 1 + u
        BY <3>2 DEF Counting
      <4>6. F(clock) = F(clock - 1)
        BY <1>2, <1>8, <2>1
      <4> HIDE DEF F, u
      <4> QED
        BY <1>1, <1>5, <2>1, <4>3, <4>4, <4>5, <4>6
    <3> QED
      BY <3>1, <3>2
  <2> HIDE DEF F, G, u, v
  <2> QED
    BY <1>1, <1>5, <1>7, <2>1, <2>2, <2>3
<1>12. hits'[clock] >= 1 /\ \A t \in Times : t > clock + Window => hits'[t] = 0
  <2>1. hits'[clock] = 1
    BY <1>1, <1>2, <1>8 DEF Counts
  <2>2. ASSUME NEW t \in Times, t > clock + Window PROVE hits'[t] = 0
    <3>1. t > clock /\ t # clock
      BY <1>1, <2>2
    <3> QED
      BY <1>2, <1>8, <3>1 DEF Counts
  <2> QED
    BY <2>1, <2>2
<1>13. clock \in 1 .. clock
  BY <1>1
<1> HIDE DEF u, v, F, G
<1> QED
  BY <1>2, <1>4, <1>6, <1>9, <1>10, <1>11, <1>12, <1>13 DEF Counting, v, G

\* So a failure keeps the invariant: the spans that end before its counter are untouched.
LEMMA FailureKept ==
    ASSUME CountInv, GuardTypeOK', NEW r \in Requests, RecordFailure(r)
    PROVE  CountInv'
<1>1. CASE lost
  BY <1>1 DEF RecordFailure, CountInv, FailuresBounded
<1>2. CASE ~lost
  <2>1. MaxClock \in Nat /\ Window \in Nat /\ clock \in 1 .. MaxClock /\ Times = 1 .. MaxClock
    BY ThresholdAssumption DEF CountInv, GuardTypeOK, Times
  <2>2. counter.resetAt \in Int /\ (clock <= counter.resetAt \/ clock > counter.resetAt)
    BY <2>1, Capping DEF CountInv, GuardTypeOK
  <2>3. Counting' /\ Since' \in 1 .. clock
    <3>1. CASE Counting /\ clock <= counter.resetAt
      BY <1>2, <3>1, SameCounter DEF Counting
    <3>2. CASE Unused \/ (Counting /\ clock > counter.resetAt)
      BY <1>2, <2>1, <3>2, NewCounter
    <3> QED
      BY <1>2, <2>2, <3>1, <3>2 DEF CountInv
  <2>4. Past'
    <3>1. \A t \in Times : t > clock => hits[t] = 0 /\ t # clock
      BY <1>2, <2>1 DEF CountInv, Past
    <3>2. hits \in Counts /\ hits' = [hits EXCEPT ![clock] = hits[clock] + 1] /\ clock' = clock
      BY <1>2, FailureCounts DEF RecordFailure
    <3> QED
      BY <3>1, <3>2 DEF Past, Counts
  <2>5. ASSUME NEW t \in Times, t + Window < Since'
        PROVE  FailuresIn(t, t + Window)' <= SpanBound
    <3>1. t + Window \in 0 .. MaxClock /\ t - 1 \in 0 .. MaxClock /\ t + Window < clock /\ t - 1 < clock
      BY <2>1, <2>3, <2>5
    <3>2. UpTo(hits', t + Window) = UpTo(hits, t + Window) + 0 /\ UpTo(hits', t - 1) = UpTo(hits, t - 1) + 0
      BY <1>2, <3>1, FailureCounts
    <3>3. UpTo(hits, t + Window) \in Nat /\ UpTo(hits, t - 1) \in Nat
      BY <1>2, <3>1, FailureCounts, UpToNat
    <3>4. ~(t + Window > MaxClock)
      BY <2>1, <3>1
    <3>5. FailuresIn(t, t + Window)' = FailuresIn(t, t + Window)
      BY <3>2, <3>3, <3>4 DEF FailuresIn
    <3> QED
      BY <1>2, <3>5 DEF CountInv, FailuresBounded
  <2>6. FailuresBounded'
    <3>1. (GuardTypeOK /\ Past /\ Counting
             /\ (\A t \in Times : t + Window < Since => FailuresIn(t, t + Window) <= SpanBound)
             => FailuresBounded)'
      BY CountingBounds, PTL
    <3> QED
      BY <2>3, <2>4, <2>5, <3>1
  <2> QED
    BY <2>3, <2>4, <2>6 DEF CountInv
<1> QED
  BY <1>1, <1>2

\* Nothing is counted before the first failure (NewGuard).
LEMMA CountInit == GuardInit => CountInv
<1> SUFFICES ASSUME GuardInit
             PROVE  CountInv
  OBVIOUS
<1>1. GuardTypeOK
  BY TypedInit
<1>2. Unused
  BY DEF GuardInit, Unused
<1> QED
  BY <1>1, <1>2, UnusedBounds DEF CountInv

\* Every step keeps the invariant; those that lose a count or a block end what it says.
LEMMA CountInvKept == CountInv /\ [GuardNext]_guardVars => CountInv'
<1> SUFFICES ASSUME CountInv, [GuardNext]_guardVars
             PROVE  CountInv'
  OBVIOUS
<1>0. GuardTypeOK'
  BY TypedKept DEF CountInv
<1>1. ASSUME NEW r \in Requests, Check(r) \/ respondBlocked(r) \/ Exempt(r) \/ Block(r)
      PROVE  CountInv'
  BY <1>0, <1>1, QuietKept
<1>2. ASSUME NEW r \in Requests, Reset(r)
      PROVE  CountInv'
  BY <1>0, <1>2, ResetKept
<1>3. ASSUME NEW r \in Requests, RecordFailure(r)
      PROVE  CountInv'
  BY <1>0, <1>3, FailureKept
<1>4. CASE lost'
  BY <1>0, <1>4 DEF CountInv, FailuresBounded
<1>5. ASSUME NEW r \in Requests, BlockFails(r)
      PROVE  CountInv'
  BY <1>4, <1>5 DEF BlockFails
<1>6. CASE Restart \/ Unblock
  BY <1>4, <1>6 DEF Restart, Unblock
<1>7. CASE Elapse
  BY <1>0, <1>7, ElapseKept
<1>8. CASE UNCHANGED guardVars
  <2>1. UNCHANGED <<counter, hits, clock, lost>> /\ Used' = Used
    BY <1>8 DEF guardVars, Used, Stands
  <2> QED
    BY <1>0, <2>1, CountKept
<1> QED
  BY <1>1, <1>2, <1>3, <1>5, <1>6, <1>7, <1>8 DEF GuardNext

\* No span as long as the window holds more failures than the tail of one counter,
\* another counter and the requests admitted with it, for every threshold, window and
\* number of requests, while no count and no block is lost (Guard.RecordFailure).
THEOREM FailuresAreBounded == GuardSpec => []FailuresBounded
<1>1. GuardSpec => []CountInv
  BY CountInit, CountInvKept, PTL DEF GuardSpec
<1>2. CountInv => FailuresBounded
  BY DEF CountInv
<1> QED
  BY <1>1, <1>2, PTL
=============================================================================
